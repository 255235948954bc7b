------------------------------ MODULE MCRecords ------------------------------
(* Addresses, categories, reviews, the row locks and the repair of the order *)
(* items.  They share no variable, so each is explored beside the initial    *)
(* states of the others and not beside all of their states.                  *)
EXTENDS Addresses, Categories, Reviews, RowLocks, Repair, TLC

CONSTANTS north, sari, shiraz,
          o1, bob, alice, cartA, cartB, cartG

VARIABLE part

MCCitiesOf == north :> {sari}
MCAdminPlaces == {[province |-> north, city |-> shiraz]}

\* Lines and rows of two products; bob is staff and a customer too.
MCOrders == {o1}
MCUsers == {alice, bob}
MCCarts == {cartA, cartB, cartG}
MCLineOrder == 1 :> o1 @@ 2 :> o1
MCLineProduct == 1 :> 1 @@ 2 :> 2
MCRowCart == 1 :> cartA @@ 2 :> cartA @@ 3 :> cartB @@ 4 :> cartG
MCRowProduct == 1 :> 1 @@ 2 :> 2 @@ 3 :> 1 @@ 4 :> 2
MCCustomer == o1 :> alice
MCOrderCart == o1 :> cartA
MCCartOf == alice :> cartA @@ bob :> cartB

\* The parts share model values: two requests serve as tabs, forms, pages and
\* workers, two keys as customers and reviews, three as addresses, categories
\* and order items.
Alike == Permutations(Tabs) \cup Permutations(Customers) \cup Permutations(Cats)

recordVars == <<addressVars, categoryVars, reviewVars, vars, repairVars, part>>

RecordsInit ==
    /\ AddressInit /\ CategoryInit /\ ReviewInit /\ Init
    /\ part \in {"addresses", "categories", "reviews", "locks", "repair"}
    \* The other parts need no order items.
    /\ \/ part = "repair"
       \/ /\ part # "repair"
          /\ goods = {} /\ ordersKnown = TRUE
          /\ table = [NewTable EXCEPT !.indexed = TRUE]
    /\ RepairInit

RecordsNext ==
    \/ /\ part = "addresses" /\ AddressNext
       /\ UNCHANGED <<categoryVars, reviewVars, vars, repairVars, part>>
    \/ /\ part = "categories" /\ CategoryNext
       /\ UNCHANGED <<addressVars, reviewVars, vars, repairVars, part>>
    \/ /\ part = "reviews" /\ ReviewNext
       /\ UNCHANGED <<addressVars, categoryVars, vars, repairVars, part>>
    \/ /\ part = "locks" /\ Next
       /\ UNCHANGED <<addressVars, categoryVars, reviewVars, repairVars, part>>
    \/ /\ part = "repair" /\ RepairNext
       /\ UNCHANGED <<addressVars, categoryVars, reviewVars, vars, part>>

RecordsSpec == RecordsInit /\ [][RecordsNext]_recordVars
==============================================================================
