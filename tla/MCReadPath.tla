----------------------------- MODULE MCReadPath -----------------------------
(***************************************************************************)
(* The modules about what a read returns, in one model: the store and its  *)
(* background jobs (Lsm), the iterator (Cursor), a transaction's own reads *)
(* and commit order (TxnReads) and the caches (Caches).  They share the    *)
(* definitions of Tables and Reads and no variable, so a behaviour chooses *)
(* one of them (focus) and leaves the others in one of their initial       *)
(* states.                                                                 *)
(***************************************************************************)
EXTENDS MCLsm, MCCursor, MCTxnReads, MCCaches

VARIABLE focus

readPathVars == <<focus, lsmVars, cursorVars, txnVars, cacheVars>>

InFocus(part, scenarios) == IF focus = part THEN scenarios ELSE {CHOOSE s \in scenarios : TRUE}

ReadPathInit ==
    /\ focus \in {"lsm", "cursor", "txn", "caches"}
    /\ CursorInitIn(InFocus("cursor", CurStores))
    /\ LsmInitIn(InFocus("lsm", LsmScenarios))
    /\ TxnInitIn(InFocus("txn", TxnModes))
    /\ CacheInitIn(InFocus("caches", CacheModes))

ReadPathNext ==
    \/ focus = "lsm" /\ LsmNext /\ UNCHANGED <<focus, cursorVars, txnVars, cacheVars>>
    \/ focus = "cursor" /\ CursorNext /\ UNCHANGED <<focus, lsmVars, txnVars, cacheVars>>
    \/ focus = "txn" /\ TxnNext /\ UNCHANGED <<focus, lsmVars, cursorVars, cacheVars>>
    \/ focus = "caches" /\ CacheNext /\ UNCHANGED <<focus, lsmVars, cursorVars, txnVars>>

ReadPathSpec == ReadPathInit /\ [][ReadPathNext]_readPathVars

=============================================================================
