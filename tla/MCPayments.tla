----------------------------- MODULE MCPayments -----------------------------
(* Two orders for the one unit of p there is; o1 also needs q, out of stock. *)
EXTENDS Payments, TLC

CONSTANTS o1, o2, p, q

MCOrders == {o1, o2}
MCProducts == {p, q}
MCQty == [o \in MCOrders |-> [x \in MCProducts |->
            IF o = o2 /\ x = q THEN 0 ELSE 1]]
MCStock == [x \in MCProducts |-> 1]
MCFirst == [x \in MCProducts |-> IF x = p THEN 2 ELSE 0]
WorkersAndTxns == Permutations(Handlers) \cup Permutations(Txns)
AllTxns == Permutations(Txns)
=============================================================================
