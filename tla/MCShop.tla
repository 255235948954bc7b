------------------------------- MODULE MCShop -------------------------------
(* The login, the store-manager role and the prices share no row, so each is *)
(* explored beside one initial state of the others and not beside all of     *)
(* their states.                                                             *)
EXTENDS Login, StoreManager, MCPricing, TLC

CONSTANTS u1, u2, owner

VARIABLE part

MCStaff == {u1, u2, owner}
MCOwners == {owner}
Alike == Permutations(Requests) \cup Permutations(Codes)
         \cup Permutations(Forms) \cup Permutations({u1, u2})

ShopInit ==
    /\ LoginInit /\ RoleInit /\ Init
    /\ part \in {"login", "role", "prices"}
    /\ part # "role" => panel = Owners /\ enabled = Staff
    /\ part # "prices" => /\ price[mug] = 2
                          /\ method = [cost |-> 0, threshold |-> 0, active |-> TRUE]

ShopNext ==
    \/ part = "login" /\ LoginNext /\ UNCHANGED <<roleVars, vars, part>>
    \/ part = "role" /\ RoleNext /\ UNCHANGED <<loginVars, vars, part>>
    \/ part = "prices" /\ Next /\ UNCHANGED <<loginVars, roleVars, part>>

ShopSpec == ShopInit /\ [][ShopNext]_<<loginVars, roleVars, vars, part>>
=============================================================================
