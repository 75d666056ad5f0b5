------------------------- MODULE CatalogAbstract -------------------------
(***************************************************************************)
(* What the catalog promises (the seven steps of DbInner::catalog_txn):    *)
(* each requested change reaches the durable catalog whole, at most once,  *)
(* before readers see it; a crash keeps the durable catalog, together with *)
(* at most one change whose fsync had not returned.  Until the edit log is *)
(* enabled a change is shown first and saved afterwards.                   *)
(***************************************************************************)
EXTENDS Integers, Sequences, SequencesExt

VARIABLES
    durable,    \* what a crash now would recover: family -> [l0, deep, cold, uid]
    shown,      \* what readers see
    asked,      \* requester -> [kind, cf, ids, new] or NoRequest
    logged      \* the edit log exists

NoRequest == [kind |-> "none"]
EmptyFamily(uid) == [l0 |-> <<>>, deep |-> {}, cold |-> {}, uid |-> uid]

\* A catalog with one family replaced, or removed.
Put(cat, cf, fam) == [n \in DOMAIN cat \cup {cf} |-> IF n = cf THEN fam ELSE cat[n]]
Del(cat, cf) == [n \in DOMAIN cat \ {cf} |-> cat[n]]

\* What each request means: L0 lists the newest table first.
Meaning(cat, r) ==
    LET fam == cat[r.cf]
    IN  CASE r.cf \notin DOMAIN cat /\ r.kind # "create" -> cat      \* nothing to change
          [] r.kind = "flush"   -> Put(cat, r.cf, [fam EXCEPT !.l0 = <<r.new>> \o @])
          [] r.kind = "compact" -> Put(cat, r.cf,
                [fam EXCEPT !.l0 = SelectSeq(@, LAMBDA t : t \notin r.ids),
                            !.deep = (@ \ r.ids) \cup {r.new}, !.cold = @ \ r.ids])
          [] r.kind = "move"    -> Put(cat, r.cf, [fam EXCEPT !.cold = @ \cup r.ids])
          [] r.kind = "drop"    -> Del(cat, r.cf)
          [] r.kind \in {"create", "clear"} -> Put(cat, r.cf, EmptyFamily(r.new))
          [] OTHER              -> cat      \* a nonce, a layout, a capability

Applied(cat, r) == CHOOSE c \in {Meaning(old, r) : old \in {cat}} : TRUE     \* evaluates cat once

Asking == {j \in DOMAIN asked : asked[j] # NoRequest}

AbstractInit == durable = shown /\ \A j \in DOMAIN asked : asked[j] = NoRequest

Commit(j) == logged /\ durable' = Applied(durable, asked[j]) /\ UNCHANGED <<shown, logged>>
Show == shown' = durable /\ UNCHANGED <<durable, logged>>
ShowFirst(j) == ~logged /\ shown' = Applied(shown, asked[j]) /\ UNCHANGED <<durable, logged>>
TakeBack(j) == ~logged /\ shown = Applied(shown', asked[j]) /\ UNCHANGED <<durable, logged>>
SaveShown == ~logged /\ durable' = shown /\ UNCHANGED shown
StartLog == logged' /\ UNCHANGED <<durable, shown>>
Reopen ==
    /\ shown' = durable'
    /\ \/ durable' = durable
       \/ \E j \in Asking : durable' = Applied(durable, asked[j])

AbstractNext ==
    \/ UNCHANGED <<durable, shown, logged>>     \* requests come and go
    \/ \E j \in Asking : Commit(j) \/ ShowFirst(j) \/ TakeBack(j)
    \/ Show \/ SaveShown \/ StartLog \/ Reopen

AbstractSpec == AbstractInit /\ [][AbstractNext]_<<durable, shown, asked, logged>>
=============================================================================
