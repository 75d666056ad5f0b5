--------------------------- MODULE MCUnifiedStore ---------------------------
(***************************************************************************)
(* UnifiedStore for TLC.  Ids are interchangeable: no definition orders or *)
(* chooses among them.                                                     *)
(***************************************************************************)
EXTENDS UnifiedStore, TLC

IdSymmetry == Permutations(Ids)
=============================================================================
