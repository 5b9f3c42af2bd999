--------------------------- MODULE MCItemsCache ----------------------------
(* Bounds for model checking ItemsCache.  ItemsInvalidation.cfg takes       *)
(* MCSends and the symmetry, ItemsCache.cfg MCSendsAll.                     *)
EXTENDS ItemsCache, TLC
CONSTANTS a, b    \* a seeded item and an id not given out yet

(* A read of both items, two writers that compete for a, and a create that  *)
(* the read may or may not see.                                             *)
MCSends == {[kind |-> "list", key |-> ListKey],
            [kind |-> "update", key |-> a], [kind |-> "delete", key |-> a],
            [kind |-> "create", key |-> b]}

(* All of these and every read of one item, found or not.                   *)
MCSendsAll == MCSends \cup [kind : {"show", "update", "delete"}, key : Id]

Symmetric == Permutations(Req) \cup Permutations(Proc)
==============================================================================
