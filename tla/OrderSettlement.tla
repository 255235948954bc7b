--------------------------- MODULE OrderSettlement ---------------------------
(***************************************************************************)
(* What the shop promises about an order and the goods in it, without      *)
(* gateways, callbacks, locks or ledgers: the goods of an order leave the  *)
(* stock in one step, all of them or none, at most once, and only for an   *)
(* order nobody has cancelled; money that arrives for an order that cannot *)
(* have its goods makes it a refund, and nothing follows a refund.         *)
(***************************************************************************)
EXTENDS Integers

CONSTANTS Orders, Legacy, Products, Qty, InitialStock, MaxStock

VARIABLES
    phase,  \* "unplaced", "awaiting", "fulfilled", "cancelled" or "refund"
    stock   \* units of each product in stock

vars == <<phase, stock>>

Phases == {"unplaced", "awaiting", "fulfilled", "cancelled", "refund"}

Init ==
    /\ phase = [o \in Orders |-> IF o \in Legacy THEN "awaiting" ELSE "unplaced"]
    /\ stock = InitialStock

\* An order is only taken for goods that are there now; none is set aside.
Place(o) ==
    /\ phase[o] = "unplaced"
    /\ \A p \in Products : Qty[o][p] <= stock[p]
    /\ phase' = [phase EXCEPT ![o] = "awaiting"]
    /\ UNCHANGED stock

\* The payment arrives and all the goods go out.
Fulfil(o) ==
    /\ phase[o] = "awaiting"
    /\ \A p \in Products : Qty[o][p] <= stock[p]
    /\ phase' = [phase EXCEPT ![o] = "fulfilled"]
    /\ stock' = [p \in Products |-> stock[p] - Qty[o][p]]

\* The payment arrives and no goods go out.
OweRefund(o) ==
    /\ phase[o] \in {"awaiting", "cancelled"}
    /\ phase' = [phase EXCEPT ![o] = "refund"]
    /\ UNCHANGED stock

Cancel(o) ==
    /\ phase[o] = "awaiting"
    /\ phase' = [phase EXCEPT ![o] = "cancelled"]
    /\ UNCHANGED stock

\* An operator corrects the stock of a product.
Restock(p, n) ==
    /\ stock' = [stock EXCEPT ![p] = n]
    /\ UNCHANGED phase

Next ==
    \/ \E p \in Products, n \in 0..MaxStock : Restock(p, n)
    \/ \E o \in Orders : Place(o) \/ Fulfil(o) \/ OweRefund(o) \/ Cancel(o)

Spec == Init /\ [][Next]_vars
=============================================================================
