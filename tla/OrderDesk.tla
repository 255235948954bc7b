----------------------------- MODULE OrderDesk -----------------------------
(***************************************************************************)
(* Order settlement with the order form of the admin site beside it        *)
(* (OrderAdmin in orders/admin.py).  The form only offers admin_note, but   *)
(* saving it is a plain Order.save(): the request loads the whole row       *)
(* without a lock and writes every column back, so the status and the       *)
(* stock_reduced it writes are those of the moment it loaded them.  This    *)
(* is the one writer that reaches the states the quarantine paths of the    *)
(* payment service are written for.  A worker serving the form is a handler *)
(* of its own kind: its pc is "form".                                       *)
(***************************************************************************)
EXTENDS Payments

\* ModelAdmin.get_object: the row as committed now, no lock taken.
LoadForm(h, o) ==
    /\ handler[h] = Idle
    /\ status[o] # "absent"
    /\ handler' = [handler EXCEPT
          ![h] = [pc |-> "form", order |-> o, status |-> status[o],
                  stockReduced |-> stockReduced[o]]]
    /\ UNCHANGED <<orderVars, goodsVars, providerVars>>

\* ModelAdmin.save_model, Order.save: every column of the loaded row.  (A form
\* that is refused or dies is Abandon.)
SaveForm(h) ==
    /\ handler[h].pc = "form"
    /\ status' = [status EXCEPT ![handler[h].order] = handler[h].status]
    /\ stockReduced' = [stockReduced EXCEPT
                           ![handler[h].order] = handler[h].stockReduced]
    /\ handler' = [handler EXCEPT ![h] = Idle]
    /\ UNCHANGED <<payment, goodsVars, providerVars>>

DeskNext ==
    \/ Next
    \/ \E h \in Handlers, o \in Orders : LoadForm(h, o)
    \/ \E h \in Handlers : SaveForm(h)

DeskSpec == Init /\ [][DeskNext]_vars

-----------------------------------------------------------------------------
(* What survives the stale write, and what does not. *)

\* Goods leave the stock once per order, all lines together, and only for a
\* payment recorded as successful, even when a stale form has reset the flag
\* that says so (reduce_item_stock and the payment's own status guard it).
DrawnOnceForMoney ==
    \A o \in Orders :
        \/ \A p \in Products : Drawn(o, p) = {}
        \/ /\ payment[o].status = "success"
           /\ \A p \in Lines(o) : \E i \in Drawn(o, p) : Drawn(o, p) = {i}

\* A stale form may lose a fulfilment, it never fakes one: an order that reads
\* as paid, in processing or completed has had its goods taken for it.
NeverFaked ==
    \A o \in Orders : status[o] \in Fulfilled =>
        /\ stockReduced[o]
        /\ \A p \in Lines(o) : Drawn(o, p) # {}

\* A customer whose payment is recorded is never sent to a gateway again, even
\* after a stale form has made the order payable (the quarantine in initiate).
NoSecondCharge ==
    [][\A t \in Txns : issued'[t] # issued[t] =>
          payment[issued'[t]].status # "success"]_vars

\* The order form leaves status and stock_reduced as a callback that has
\* fulfilled the order meanwhile has set them: OrderAdmin declares both
\* read-only (orders/tests.py:1651).
FormKeepsReadonly ==
    [][\A h \in Handlers, o \in Orders :
          /\ handler[h].pc = "form" /\ handler'[h] = Idle /\ handler[h].order = o
          /\ stockReduced[o] /\ ~handler[h].stockReduced
          => UNCHANGED <<status[o], stockReduced[o]>>]_vars

-----------------------------------------------------------------------------
(* What makes the properties inductive, without Payments!Consistent: a form *)
(* breaks the agreement of status, flag and payment.                        *)

FormState == [pc : {"form"}, order : Orders, status : OrderStatus,
              stockReduced : BOOLEAN]

DeskTypeOK ==
    /\ status \in [Orders -> OrderStatus]
    /\ stockReduced \in [Orders -> BOOLEAN]
    /\ payment \in [Orders -> PaymentRow]
    /\ stock \in [Products -> 0..MaxStock]
    /\ ledger \in [Products -> Seq(Movement)]
    /\ handler \in [Handlers -> HandlerState \cup FormState]

\* An order that reads s with flag b, and its payment row.
OrderSound(o, s, b, row) ==
    /\ \/ \A p \in Products : Drawn(o, p) = {}
       \/ /\ row.status = "success"
          /\ \A p \in Lines(o) : \E i \in Drawn(o, p) : Drawn(o, p) = {i}
    /\ s \in Fulfilled => b = TRUE /\ \A p \in Lines(o) : Drawn(o, p) # {}
    /\ s = "absent" => row.txn = None /\ row.status # "success"

\* A form holds a status whose goods have been taken; a callback an order and
\* a transaction.
RequestSound(r) ==
    /\ r.pc = "form" =>
          /\ r.status # "absent"
          /\ r.status \in Fulfilled =>
                /\ r.stockReduced = TRUE
                /\ \A p \in Lines(r.order) : Drawn(r.order, p) # {}
    /\ r.pc \notin {"idle", "form"} => r.order \in Orders /\ r.txn \in Txns

DeskConsistent ==
    /\ DeskTypeOK
    /\ \A o \in Orders : OrderSound(o, status[o], stockReduced[o], payment[o])
    /\ \A h \in Handlers : RequestSound(handler[h])
=============================================================================
