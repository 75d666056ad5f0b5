------------------------------- MODULE Turns -------------------------------
(***************************************************************************)
(* Two helpers on sequences, defined so that TLC evaluates every           *)
(* intermediate value once.                                                *)
(***************************************************************************)
EXTENDS Integers, Sequences, FiniteSets

\* FoldLeft: op applied to the elements of seq in turn.
InTurn(op(_, _), base, seq) ==
    LET upto[i \in 0 .. Len(seq)] ==
            IF i = 0 THEN base ELSE CHOOSE r \in {op(acc, seq[i]) : acc \in {upto[i - 1]}} : TRUE
    IN  upto[Len(seq)]

\* The elements of a finite set in the strict total order before.
Sorted(set, before(_, _)) ==
    [i \in 1 .. Cardinality(set) |->
        CHOOSE x \in set : Cardinality({y \in set : before(y, x)}) = i - 1]

=============================================================================
