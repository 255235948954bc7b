----------------------------- MODULE MCOrderDesk -----------------------------
(* Two orders of one product with stock to spare: one cart order, one legacy. *)
EXTENDS OrderDesk, TLC

CONSTANTS o1, o2, p

MCOrders == {o1, o2}
MCQty == [o \in MCOrders |-> [x \in {p} |-> 1]]
MCStock == [x \in {p} |-> 3]
WorkersAndTxns == Permutations(Handlers) \cup Permutations(Txns)
=============================================================================
