------------------------------- MODULE MCCarts -------------------------------
(* Two variants of one product; a user, a guest who logs in as that user.    *)
(* The customers alone are explored in part "shop"; beside the back office,  *)
(* in part "desk", they have one request at a time, one variant, two carts   *)
(* and a stock of 2 that may sell out; alone they compete for one unit.      *)
EXTENDS CartDesk, TLC

CONSTANTS v1, v2, mug

VARIABLE part

MCItems == {v1, v2}
MCProductOf == [i \in MCItems |-> mug]
WorkersAndCarts == Permutations(Workers) \cup Permutations(Carts)

MCInit ==
    /\ DeskInit
    /\ part \in {"shop", "desk"}
    /\ stock[mug] = IF part = "shop" THEN 1 ELSE MaxStock

MCNext ==
    \/ /\ part = "shop" /\ Next /\ UNCHANGED <<page, overtaken, part>>
       /\ stock'[mug] <= 1
    \/ /\ part = "desk" /\ DeskNext /\ UNCHANGED part
       /\ \A c \in Carts : row'[c][v2] = NoRow
       /\ Cardinality({w \in Workers : request'[w] # None}) <= 1
       /\ Cardinality({c \in Carts : owner'[c] # None}) <= 2
       /\ stock'[mug] # 1 /\ UNCHANGED shown

MCSpec == MCInit /\ [][MCNext]_<<cartDeskVars, part>>

\* The customers alone.
ShopSpec == MCInit /\ part = "shop" /\ [][MCNext]_<<cartDeskVars, part>>
=============================================================================
