------------------------------- MODULE WalGens -------------------------------
(***************************************************************************)
(* WalGenState of src/src/prepared.rs: which WAL generations of the        *)
(* unified store may be unlinked, and in which order.                      *)
(*                                                                         *)
(* A generation holding the frame of an unresolved prepare is pinned.  A   *)
(* resolved prepare leaves a tombstone naming the generation of its frame  *)
(* and the generation of its decision; the sweep must unlink the first     *)
(* before the second.                                                      *)
(***************************************************************************)
EXTENDS Naturals, FiniteSets, Sequences, Functions

CONSTANTS
    Ids,     \* coordinator-supplied transaction ids
    MaxGen   \* bound: the highest WAL generation

ASSUME WalGensAssumption == IsFiniteSet(Ids) /\ MaxGen \in Nat

Gens == 0..MaxGen

VARIABLES
    live,     \* unresolved prepares per generation
    tombs,    \* resolved prepares whose generations are not both unlinked
    flushed   \* generations whose flush is recorded, not yet unlinked

genVars == <<live, tombs, flushed>>

Tombstones == [id : Ids, prepare_gen : Gens, decision_gen : Gens,
               prepare_deleted : BOOLEAN, decision_deleted : BOOLEAN]

GensInit == live = [g \in Gens |-> 0] /\ tombs = {} /\ flushed = {}

(* record_pair.                                                             *)
Tombstone(i, p, d) ==
    [id |-> i, prepare_gen |-> p, decision_gen |-> d,
     prepare_deleted |-> FALSE, decision_deleted |-> FALSE]

(* pin: an unresolved prepare holds g.                                      *)
Pin(g) == live' = [live EXCEPT ![g] = @ + 1]

(* resolved: the pin goes and the pair is recorded.                         *)
ResolvePair(i, p, d) ==
    /\ live' = [live EXCEPT ![p] = IF @ = 0 THEN 0 ELSE @ - 1]
    /\ tombs' = tombs \cup {Tombstone(i, p, d)}

(* Mutant of Retirable: a pin does not hold its generation.                 *)
RetirablePinned(st, g) ==
    /\ ~ \E t \in st.tombs : /\ t.prepare_gen = g
                             /\ ~t.decision_deleted
                             /\ t.decision_gen \notin st.flushed
    /\ ~ \E t \in st.tombs : t.decision_gen = g /\ t.prepare_gen # g /\ ~t.prepare_deleted

(* Mutant of Retirable: the decision does not wait for its prepare.         *)
RetirableAnyOrder(st, g) ==
    /\ live[g] = 0
    /\ ~ \E t \in st.tombs : /\ t.prepare_gen = g
                             /\ ~t.decision_deleted
                             /\ t.decision_gen \notin st.flushed

(* Mutant of Retirable: a pair sharing one generation waits for itself.     *)
RetirableCircular(st, g) ==
    /\ RetirableAnyOrder(st, g)
    /\ ~ \E t \in st.tombs : t.decision_gen = g /\ ~t.prepare_deleted

(* The three conditions of next_retirable.                                  *)
Retirable(st, g) ==
    /\ live[g] = 0
    /\ ~ \E t \in st.tombs : /\ t.prepare_gen = g
                             /\ ~t.decision_deleted
                             /\ t.decision_gen \notin st.flushed
    /\ ~ \E t \in st.tombs : t.decision_gen = g /\ t.prepare_gen # g /\ ~t.prepare_deleted

(* One round of sweep: unlink the lowest retirable generation, mark the     *)
(* tombstones naming it and drop those that are complete.                   *)
SweepRound(st) ==
    LET ready == {g \in st.flushed : Retirable(st, g)}
        gen == CHOOSE g \in ready : \A h \in ready : g <= h
        marked == {[t EXCEPT !.prepare_deleted = @ \/ t.prepare_gen = gen,
                             !.decision_deleted = @ \/ t.decision_gen = gen] : t \in st.tombs}
        done == {t \in marked : t.prepare_deleted /\ t.decision_deleted}
    IN IF ready = {} THEN st
       ELSE [flushed |-> st.flushed \ {gen},
             tombs   |-> marked \ done,
             unlink  |-> Append(st.unlink, gen),
             retired |-> st.retired \cup {t.id : t \in done}]

(* sweep: rounds until nothing is retirable; each takes one generation.     *)
SweepResult(fl) ==
    LET round[n \in 0..Cardinality(fl)] ==
            IF n = 0 THEN [flushed |-> fl, tombs |-> tombs, unlink |-> <<>>, retired |-> {}]
            ELSE SweepRound(round[n - 1])
    IN  round[Cardinality(fl)]

(* mark_flushed for each generation of fl, then sweep: what is left.        *)
Sweep(fl) ==
    LET r == SweepResult(fl) IN flushed' = r.flushed /\ tombs' = r.tombs

GensTypeOK ==
    /\ live \in [Gens -> 0..Cardinality(Ids)]
    /\ tombs \subseteq Tombstones
    /\ flushed \subseteq Gens
==============================================================================
