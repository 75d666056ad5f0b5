------------------------------- MODULE MCTiers -------------------------------
(* Small scenarios of Tiers.tla: the calls that run together, and the faults  *)
(* and restarts they meet.                                                    *)
EXTENDS Tiers, TLC

Calls(calls, faults, opens, puts, isPaced, tier) ==
    [calls |-> calls, faults |-> faults, opens |-> opens, puts |-> puts,
     paced |-> isPaced, tier |-> tier]

MCTierScenarios ==
    { Calls([move |-> 2, checkpoint |-> 1], 0, 1, 0, FALSE, Ssd),
      Calls([move |-> 2, compact |-> 1], 0, 1, 0, TRUE, "cold"),
      Calls([move |-> 1, freeze |-> 1, export |-> 1], 1, 0, 0, FALSE, "cold"),
      Calls([move |-> 1], 1, 2, 0, FALSE, Ssd),
      Calls([detach |-> 1, attach |-> 1, checkpoint |-> 1], 0, 1, 0, FALSE, Ssd),
      Calls([compact |-> 1, detach |-> 2, attach |-> 1], 0, 1, 0, FALSE, Ssd),
      Calls([detach |-> 1, mount |-> 1], 1, 1, 0, FALSE, "cold"),
      Calls([freeze |-> 1, attach |-> 1, compact |-> 1], 1, 0, 0, FALSE, Ssd),
      Calls([mount |-> 1, compact |-> 1, backup |-> 1], 0, 1, 1, TRUE, Ssd),
      Calls([clone |-> 1, compact |-> 1, checkpoint |-> 1], 1, 0, 1, FALSE, "cold"),
      Calls([store |-> 2, restore |-> 1, compact |-> 1], 0, 0, 1, FALSE, Ssd),
      Calls([store |-> 2], 1, 2, 2, FALSE, Ssd) }

\* A part moved away and back while its files wait for the deletion worker.
MCMoves == {Calls([move |-> 2], 0, 0, 0, TRUE, Ssd)}

==============================================================================
