----------------------------- MODULE MCCommit ------------------------------
(* Commit with a range delete of both keys and one of the second key only.  *)
EXTENDS Commit

MCSpans == {<<1, 3>>, <<2, 3>>}
=============================================================================
