----------------------------- MODULE MCGateway -----------------------------
(* One order for one product, a gateway on the network and the mock one. *)
EXTENDS Gateway, TLC
CONSTANTS o1, p, zarinpal, mock
MCQty == [o \in {o1} |-> [x \in {p} |-> 1]]
MCStock == [x \in {p} |-> 1]
Alike == Permutations(Handlers) \cup Permutations(Txns)
=============================================================================
