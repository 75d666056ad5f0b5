---------------------------- MODULE MCDurability ----------------------------
(***************************************************************************)
(* The modules about what is on disk, in one model: memtable rotation,     *)
(* flush and drop (Family), the log (Wal), the catalog (Catalog), parts,   *)
(* tiers and checkpoints (Tiers) and the format upgrade (Upgrade).  They   *)
(* share no variable, so a behaviour chooses one of them (focus) and       *)
(* leaves the others in one of their initial states.                       *)
(***************************************************************************)
EXTENDS Family, MCWal, Catalog, MCTiers, MCUpgrade

VARIABLE focus

durabilityVars == <<focus, familyVars, walVars, catalogVars, tierVars, upVars>>

DurabilityInit ==
    /\ focus \in {"family", "wal", "catalog", "tiers", "upgrade"}
    /\ FamilyInit
    /\ WalInit /\ (walMode.sync = "None" => walMode.cap = 0)      \* buffers: under Interval only
               /\ (focus # "wal" => walMode.sync = "Full")
    /\ CatalogInit /\ (focus # "catalog" => caps = {})
    /\ TierInit /\ (focus # "tiers" => tierBudget.calls = [move |-> 1])
    /\ UpInit /\ (focus # "upgrade" => upBudget.opens = 3)

DurabilityNext ==
    \/ focus = "family" /\ FamilyNext /\ UNCHANGED <<focus, walVars, catalogVars, tierVars, upVars>>
    \/ focus = "wal" /\ WalNext /\ UNCHANGED <<focus, familyVars, catalogVars, tierVars, upVars>>
    \/ focus = "catalog" /\ CatalogNext /\ UNCHANGED <<focus, familyVars, walVars, tierVars, upVars>>
    \/ focus = "tiers" /\ TierNext /\ UNCHANGED <<focus, familyVars, walVars, catalogVars, upVars>>
    \/ focus = "upgrade" /\ UpNext /\ UNCHANGED <<focus, familyVars, walVars, catalogVars, tierVars>>

DurabilitySpec == DurabilityInit /\ [][DurabilityNext]_durabilityVars

=============================================================================
