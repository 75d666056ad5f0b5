----------------------------- MODULE MCUpgrade -----------------------------
(* An open that fails or stops beside another, and two opens beside or after  *)
(* one that was killed.                                                       *)
EXTENDS Upgrade

MCBudgets ==
    [kinds : {{"rw", "ro", "tool"}}, opens : {2}, faults : {1}, deaths : {0}, blackouts : {1}, keep : BOOLEAN]
    \cup [kinds : {{"rw", "ro", "tool"}}, opens : {2}, faults : {0}, deaths : {1}, blackouts : {0}, keep : {FALSE}]
    \cup [kinds : {{"rw", "ro"}}, opens : {3}, faults : {0}, deaths : {1}, blackouts : {0}, keep : {FALSE}]

=============================================================================
