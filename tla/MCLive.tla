------------------------------- MODULE MCLive -------------------------------
(* What must end: the transactions of RowLocks and the walks of Categories,  *)
(* each explored beside the other's initial state.                           *)
EXTENDS RowLocks, Categories, TLC

CONSTANTS o1, bob, alice, cartA, cartB, cartG

VARIABLE part

\* Lines and rows of two products; bob is staff and a customer too.
MCOrders == {o1}
MCUsers == {alice, bob}
MCCarts == {cartA, cartB, cartG}
MCLineOrder == 1 :> o1 @@ 2 :> o1
MCLineProduct == 1 :> 1 @@ 2 :> 2
MCRowCart == 1 :> cartA @@ 2 :> cartA @@ 3 :> cartB @@ 4 :> cartG
MCRowProduct == 1 :> 1 @@ 2 :> 2 @@ 3 :> 1 @@ 4 :> 2
MCCustomer == o1 :> alice
MCOrderCart == o1 :> cartA
MCCartOf == alice :> cartA @@ bob :> cartB

LiveInit == Init /\ CategoryInit /\ part \in {"locks", "categories"}

LiveNext ==
    \/ part = "locks" /\ Next /\ UNCHANGED <<categoryVars, part>>
    \/ part = "categories" /\ CategoryNext /\ UNCHANGED <<vars, part>>

LiveSpec ==
    /\ LiveInit /\ [][LiveNext]_<<vars, categoryVars, part>>
    /\ part = "locks" => Fairness
    /\ part = "categories" => CategoryFairness
=============================================================================
