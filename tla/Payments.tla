------------------------------ MODULE Payments ------------------------------
(***************************************************************************)
(* Order settlement: the orders, their payments, the product stock they    *)
(* consume and the stock ledger, as the payment service                    *)
(* (orders/payment/services.py), the order service (orders/services.py),   *)
(* the models' own methods and the inventory service (catalog/services.py) *)
(* change them.                                                            *)
(*                                                                         *)
(* A database transaction that holds the row locks of everything it reads  *)
(* and writes is one action.  A provider callback is three: it looks the   *)
(* payment up without a lock, asks the provider without a transaction, and *)
(* only then takes the locks (services.py, "The provider verification is   *)
(* intentionally outside the DB transaction"); anything may happen in      *)
(* between.  A request that dies loses only what it held in memory.        *)
(*                                                                         *)
(* Money amounts are left out (module Pricing has them).  The service only *)
(* compares the amount verified with the payment's own, which a retry may   *)
(* rewrite; a request whose amounts differ ends without a trace, as one     *)
(* that dies does (Abandon).                                               *)
(***************************************************************************)
EXTENDS Integers, Sequences

CONSTANTS
    Orders,         \* the orders that may exist
    Legacy,         \* those that predate the cart checkout (status "placed")
    Products,
    Qty,            \* Qty[o][p]: units of p in the lines of order o
    InitialStock,   \* stock of each product before the first movement
    MaxStock,       \* MAX_PRODUCT_STOCK, 2147483647 in the code
    Txns,           \* transaction ids (authorities) the provider may issue
    Gateways,       \* the registered gateways
    Handlers,       \* web workers that can be serving a callback at once
    OperatorQty,    \* quantities an operator may enter in the inventory form
    MaxMovements,   \* bound: operators leave a ledger of this length alone
    None            \* no order, no transaction, no gateway

ASSUME SettlementConstants ==
    /\ Legacy \subseteq Orders
    /\ Qty \in [Orders -> [Products -> Nat]]
    /\ MaxStock \in Nat
    /\ InitialStock \in [Products -> 0..MaxStock]
    /\ OperatorQty \subseteq Nat
    /\ MaxMovements \in Nat
    /\ None \notin Orders \cup Txns \cup Gateways

VARIABLES
    status,         \* Order.status; "absent" before the row exists
    stockReduced,   \* Order.stock_reduced
    payment,        \* the order's Payment row; status "none" without a row
    listing,        \* a product is "active", "inactive" (is_active) or "deleted"
    stock,          \* Product.stock
    ledger,         \* the product's InventoryMovement rows, oldest first
    issued,         \* provider: the order each transaction was issued for
    charged,        \* provider: the transactions the customer has paid
    handler         \* what each callback request remembers

orderVars == <<status, stockReduced, payment>>
goodsVars == <<listing, stock, ledger>>
providerVars == <<issued, charged>>
vars == <<status, stockReduced, payment, listing, stock, ledger, issued,
          charged, handler>>

-----------------------------------------------------------------------------
\* Order.Status and Payment.Status.  Payment's "refunded" and "cancelled" are
\* declared by the model class and written by no code.
Payable == {"pending", "placed"}
Fulfilled == {"paid", "processing", "completed"}
OrderStatus == Payable \cup Fulfilled \cup {"absent", "cancelled"}
PaymentStatus == {"none", "pending", "success", "failed"}

PaymentRow == [status : PaymentStatus, gateway : Gateways \cup {None},
               txn : Txns \cup {None}]

\* A row nobody has sent to a gateway yet, as create_order writes it.
FreshPayment == [status |-> "pending", gateway |-> None, txn |-> None]
NoPayment == [status |-> "none", gateway |-> None, txn |-> None]

Movement == [before : Int, delta : Int, after : Int,
             source : {"manual_adjustment", "physical_count", "order_payment"},
             order : Orders \cup {None}]

\* A callback request: where it is, the payment it looked up (by its order),
\* the gateway and transaction of the request, and "ok": first what the
\* query string claims, then what the provider confirmed.
HandlerState == [pc : {"idle", "verify", "finalize", "recheck", "reconcile"},
                 order : Orders \cup {None}, gateway : Gateways \cup {None},
                 txn : Txns \cup {None}, ok : BOOLEAN]
Idle == [pc |-> "idle", order |-> None, gateway |-> None, txn |-> None,
         ok |-> FALSE]

Lines(o) == {p \in Products : Qty[o][p] > 0}

Init ==
    /\ status = [o \in Orders |-> IF o \in Legacy THEN "placed" ELSE "absent"]
    /\ stockReduced = [o \in Orders |-> FALSE]
    /\ payment \in {f \in [Orders -> {NoPayment, FreshPayment}] :
                        \A o \in Orders \ Legacy : f[o] = NoPayment}
    /\ listing = [p \in Products |-> "active"]
    /\ stock = InitialStock
    /\ ledger = [p \in Products |-> <<>>]
    /\ issued = [t \in Txns |-> None]
    /\ charged = {}
    /\ handler = [h \in Handlers |-> Idle]

-----------------------------------------------------------------------------
(* Checkout *)

\* Product.is_available; is_available_status is recomputed by every save.
Available(p) == listing[p] = "active" /\ stock[p] > 0

\* OrderService.create_order: every product of the cart is locked and must be
\* available in the quantity ordered, but nothing is reserved.
CreateOrder(o) ==
    /\ status[o] = "absent"
    /\ Lines(o) # {}
    /\ \A p \in Lines(o) : Available(p) /\ Qty[o][p] <= stock[p]
    /\ status' = [status EXCEPT ![o] = "pending"]
    /\ payment' = [payment EXCEPT ![o] = FreshPayment]
    /\ UNCHANGED <<stockReduced, goodsVars, providerVars, handler>>

-----------------------------------------------------------------------------
(* PaymentService.initiate: one transaction, the gateway request inside it. *)
(* Fulfilled and cancelled orders are refused and a failed gateway request  *)
(* rolls everything back: neither changes the state.                        *)

\* _quarantine_inconsistent_successful_payment_order, run with the order
\* locked: a payable order whose payment already succeeded is cancelled.
QuarantinedStatus(o) == IF status[o] \in Payable THEN "cancelled" ELSE status[o]

\* The payment already succeeded: never charge again.
InitiateSettled(o) ==
    /\ status[o] \in Payable
    /\ payment[o].status = "success"
    /\ status' = [status EXCEPT ![o] = QuarantinedStatus(o)]
    /\ UNCHANGED <<stockReduced, payment, goodsVars, providerVars, handler>>

\* Mutant of LiveAt: only a transaction already reported failed is reused.
FailedAt(o, g) ==
    payment[o].status = "failed" /\ payment[o].gateway = g /\ payment[o].txn # None

LiveAt(o, g) ==
    /\ payment[o].status = "pending"
    /\ payment[o].gateway = g
    /\ payment[o].txn # None

\* A live transaction at the same gateway is reused; only the legacy status
\* may still change.
InitiateReuse(o, g) ==
    /\ status[o] \in Payable
    /\ LiveAt(o, g)
    /\ status' = [status EXCEPT ![o] = "pending"]
    /\ UNCHANGED <<stockReduced, payment, goodsVars, providerVars, handler>>

\* Mutant of InitiateNew: a payment that already succeeded is reset like any other.
InitiateAgain(o, g, t) ==
    /\ status[o] \in Payable /\ ~LiveAt(o, g) /\ issued[t] = None
    /\ status' = [status EXCEPT ![o] = "pending"]
    /\ payment' = [payment EXCEPT
                      ![o] = [status |-> "pending", gateway |-> g, txn |-> t]]
    /\ issued' = [issued EXCEPT ![t] = o]
    /\ UNCHANGED <<stockReduced, goodsVars, charged, handler>>

\* Otherwise the row is created or reset and a new transaction requested.
InitiateNew(o, g, t) ==
    /\ status[o] \in Payable
    /\ payment[o].status # "success"
    /\ ~LiveAt(o, g)
    /\ issued[t] = None
    /\ status' = [status EXCEPT ![o] = "pending"]
    /\ payment' = [payment EXCEPT
                      ![o] = [status |-> "pending", gateway |-> g, txn |-> t]]
    /\ issued' = [issued EXCEPT ![t] = o]
    /\ UNCHANGED <<stockReduced, goodsVars, charged, handler>>

\* External: the customer pays a transaction at the provider, which knows
\* nothing of what has happened to the order since.
CustomerPays(t) ==
    /\ issued[t] # None
    /\ t \notin charged
    /\ charged' = charged \cup {t}
    /\ UNCHANGED <<orderVars, goodsVars, issued, handler>>
-----------------------------------------------------------------------------
(* PaymentService.handle_callback *)

\* The request names a gateway and a transaction and claims success or not
\* (both providers redirect the customer's browser, so requests can be lost,
\* repeated, reordered, or never match what the customer did).  The payment
\* is looked up by transaction_code without a lock.  No such payment, another
\* gateway, or a settled payment of a settled order ends the request.
ReceiveCallback(h, g, t, claim) ==
    /\ handler[h].pc = "idle"
    /\ \E o \in Orders :
          /\ payment[o].txn = t
          /\ payment[o].gateway = g
          /\ payment[o].status = "success" => status[o] \in Payable
          /\ handler' = [handler EXCEPT
                ![h] = [pc |-> IF payment[o].status = "success"
                               THEN "recheck" ELSE "verify",
                        order |-> o, gateway |-> g, txn |-> t, ok |-> claim]]
    /\ UNCHANGED <<orderVars, goodsVars, providerVars>>

\* Mutant of Verify: the query string's claim is believed.
TrustClaim(h) ==
    /\ handler[h].pc = "verify"
    /\ handler' = [handler EXCEPT ![h] = [@ EXCEPT !.pc = "finalize"]]
    /\ UNCHANGED <<orderVars, goodsVars, providerVars>>

\* gateway.verify_callback, outside any transaction: a refusal is believed
\* without asking, a claim of success is the provider's to confirm.
Verify(h) ==
    /\ handler[h].pc = "verify"
    /\ handler' = [handler EXCEPT
          ![h] = [@ EXCEPT !.pc = "finalize",
                           !.ok = handler[h].ok /\ handler[h].txn \in charged]]
    /\ UNCHANGED <<orderVars, goodsVars, providerVars>>

\* The same for a payment found settled under a payable order: only a
\* confirmed success may reconcile it.
Recheck(h) ==
    /\ handler[h].pc = "recheck"
    /\ handler' = [handler EXCEPT
          ![h] = IF handler[h].ok /\ handler[h].txn \in charged
                 THEN [@ EXCEPT !.pc = "reconcile"] ELSE Idle]
    /\ UNCHANGED <<orderVars, goodsVars, providerVars>>

\* The request dies, or the provider cannot be reached: an error response.
Abandon(h) ==
    /\ handler[h].pc # "idle"
    /\ handler' = [handler EXCEPT ![h] = Idle]
    /\ UNCHANGED <<orderVars, goodsVars, providerVars>>

\* Mutant of AlreadySettled: a payable order with a settled payment is made paid.
RepairSettled(h) ==
    LET o == handler[h].order IN
    /\ \/ handler[h].pc = "finalize" /\ payment[o].gateway = handler[h].gateway
       \/ handler[h].pc = "reconcile"
    /\ payment[o].status = "success"
    /\ status' = [status EXCEPT ![o] = IF @ \in Payable THEN "paid" ELSE @]
    /\ handler' = [handler EXCEPT ![h] = Idle]
    /\ UNCHANGED <<stockReduced, payment, goodsVars, providerVars>>

\* Under the locks of order and payment, the payment turns out settled: the
\* idempotent outcome, or a quarantine.  (A settled payment stays settled, so
\* the code's second verification after a reconcile that finds it unsettled
\* is never reached.)
AlreadySettled(h) ==
    LET o == handler[h].order IN
    /\ \/ handler[h].pc = "finalize" /\ payment[o].gateway = handler[h].gateway
       \/ handler[h].pc = "reconcile"
    /\ payment[o].status = "success"
    /\ status' = [status EXCEPT ![o] = QuarantinedStatus(o)]
    /\ handler' = [handler EXCEPT ![h] = Idle]
    /\ UNCHANGED <<stockReduced, payment, goodsVars, providerVars>>

\* Mutants of Current: the payment is not read again under its lock; the
\* verified transaction is not compared with the payment's.
CurrentUnread(h) ==
    /\ handler[h].pc = "finalize"
    /\ payment[handler[h].order].gateway = handler[h].gateway
    /\ payment[handler[h].order].txn = handler[h].txn
CurrentByOrder(h) ==
    /\ handler[h].pc = "finalize"
    /\ payment[handler[h].order].gateway = handler[h].gateway
    /\ payment[handler[h].order].status # "success"

\* The verification is still about the payment's current transaction and the
\* payment is not settled: the callback decides it.
Current(h) ==
    LET o == handler[h].order IN
    /\ handler[h].pc = "finalize"
    /\ payment[o].gateway = handler[h].gateway
    /\ payment[o].status # "success"
    /\ payment[o].txn = handler[h].txn

SettledPayment(o) == [payment EXCEPT ![o] = [@ EXCEPT !.status = "success"]]

\* A verified failure: update_status_and_order returns early when it is old.
RecordFailure(h) ==
    /\ Current(h)
    /\ ~handler[h].ok
    /\ payment' = [payment EXCEPT
          ![handler[h].order] = [@ EXCEPT !.status = "failed"]]
    /\ handler' = [handler EXCEPT ![h] = Idle]
    /\ UNCHANGED <<status, stockReduced, goodsVars, providerVars>>

\* Mutant of CanFulfil: availability was checked at checkout, not again here.
CheckedAtCheckout(o) == ~stockReduced[o] /\ Lines(o) # {}

\* Order.reduce_item_stock succeeds: every line's product exists and has the
\* stock, checked for all of them before the first is reduced.
CanFulfil(o) ==
    /\ ~stockReduced[o]
    /\ Lines(o) # {}
    /\ \A p \in Lines(o) : listing[p] # "deleted" /\ Qty[o][p] <= stock[p]

\* _record_locked_inventory_movement: the new stock and its ledger row.
Moved(p, delta, source, o) ==
    [before |-> stock[p], delta |-> delta, after |-> stock[p] + delta,
     source |-> source, order |-> o]

\* Mutant of ReducedStock: products an operator has hidden are skipped.
ActiveReduced(o) ==
    [p \in Products |-> IF p \in Lines(o) /\ listing[p] = "active"
                        THEN stock[p] - Qty[o][p] ELSE stock[p]]

ReducedStock(o) ==
    [p \in Products |-> IF p \in Lines(o) THEN stock[p] - Qty[o][p] ELSE stock[p]]

ReducedLedger(o) ==
    [p \in Products |->
        IF p \in Lines(o)
        THEN Append(ledger[p], Moved(p, -Qty[o][p], "order_payment", o))
        ELSE ledger[p]]

\* Mutants of Fulfil: the settled payment and the flag are not looked at again;
\* an order cancelled in the meantime is revived.
FulfilAgain(h) ==
    LET o == handler[h].order IN
    /\ handler[h].pc = "finalize" /\ handler[h].ok /\ status[o] # "cancelled"
    /\ \A p \in Lines(o) : listing[p] # "deleted" /\ Qty[o][p] <= stock[p]
    /\ payment' = SettledPayment(o)
    /\ stock' = ReducedStock(o)
    /\ ledger' = ReducedLedger(o)
    /\ stockReduced' = [stockReduced EXCEPT ![o] = TRUE]
    /\ status' = [status EXCEPT ![o] = IF @ \in Payable THEN "paid" ELSE @]
    /\ handler' = [handler EXCEPT ![h] = Idle]
    /\ UNCHANGED <<listing, providerVars>>
FulfilCancelled(h) ==
    LET o == handler[h].order IN
    /\ Current(h) /\ handler[h].ok /\ CanFulfil(o)
    /\ payment' = SettledPayment(o)
    /\ stock' = ReducedStock(o)
    /\ ledger' = ReducedLedger(o)
    /\ stockReduced' = [stockReduced EXCEPT ![o] = TRUE]
    /\ status' = [status EXCEPT ![o] = "paid"]
    /\ handler' = [handler EXCEPT ![h] = Idle]
    /\ UNCHANGED <<listing, providerVars>>

\* A verified success whose order can be fulfilled: payment, stock, ledger
\* and order change in one transaction.
Fulfil(h) ==
    LET o == handler[h].order IN
    /\ Current(h)
    /\ handler[h].ok
    /\ status[o] # "cancelled"
    /\ CanFulfil(o)
    /\ payment' = SettledPayment(o)
    /\ stock' = ReducedStock(o)
    /\ ledger' = ReducedLedger(o)
    /\ stockReduced' = [stockReduced EXCEPT ![o] = TRUE]
    /\ status' = [status EXCEPT
                     ![o] = IF status[o] \in Payable THEN "paid" ELSE @]
    /\ handler' = [handler EXCEPT ![h] = Idle]
    /\ UNCHANGED <<listing, providerVars>>

\* Mutant of RecordUnfulfilled: the payment is saved, the order is left alone.
RecordPaymentOnly(h) ==
    LET o == handler[h].order IN
    /\ Current(h) /\ handler[h].ok
    /\ status[o] = "cancelled" \/ ~CanFulfil(o)
    /\ payment' = SettledPayment(o)
    /\ handler' = [handler EXCEPT ![h] = Idle]
    /\ UNCHANGED <<status, stockReduced, goodsVars, providerVars>>

\* A verified success that cannot be fulfilled: the money is recorded, and an
\* order with a shortfall is cancelled for a refund.  An order cancelled
\* before, or whose stock was taken before it left the payable states, stays.
RecordUnfulfilled(h) ==
    LET o == handler[h].order
        shortfall == /\ status[o] # "cancelled"
                     /\ stockReduced[o] => status[o] \in Payable IN
    /\ Current(h)
    /\ handler[h].ok
    /\ status[o] = "cancelled" \/ ~CanFulfil(o)
    /\ payment' = SettledPayment(o)
    /\ status' = [status EXCEPT ![o] = IF shortfall THEN "cancelled" ELSE @]
    /\ stockReduced' = [stockReduced EXCEPT
                           ![o] = @ /\ (shortfall => Lines(o) # {})]
    /\ handler' = [handler EXCEPT ![h] = Idle]
    /\ UNCHANGED <<goodsVars, providerVars>>

\* The transaction was replaced while the provider was being asked: error.
RejectStale(h) ==
    LET o == handler[h].order IN
    /\ handler[h].pc = "finalize"
    /\ \/ payment[o].gateway # handler[h].gateway
       \/ payment[o].status # "success" /\ payment[o].txn # handler[h].txn
    /\ handler' = [handler EXCEPT ![h] = Idle]
    /\ UNCHANGED <<orderVars, goodsVars, providerVars>>

-----------------------------------------------------------------------------
(* The back office *)

\* OrderService.transition_status, under the order's lock.
TransitionStatus(o, new) ==
    /\ \/ status[o] = "paid" /\ new = "processing"
       \/ status[o] = "processing" /\ new = "completed"
       \/ status[o] \in Payable /\ new = "cancelled"
    /\ new # "cancelled" => payment[o].status = "success" /\ stockReduced[o]
    /\ new = "cancelled" => payment[o].status # "success" /\ ~stockReduced[o]
    /\ status' = [status EXCEPT ![o] = new]
    /\ UNCHANGED <<stockReduced, payment, goodsVars, providerVars, handler>>

\* The stock forms: a movement of the locked product row, inside 0..MaxStock.
ManualMovement(p, delta, source) ==
    /\ listing[p] # "deleted"
    /\ Len(ledger[p]) < MaxMovements
    /\ stock[p] + delta \in 0..MaxStock
    /\ stock' = [stock EXCEPT ![p] = @ + delta]
    /\ ledger' = [ledger EXCEPT
                     ![p] = Append(@, Moved(p, delta, source, None))]
    /\ UNCHANGED <<orderVars, listing, providerVars, handler>>

\* adjust_product_stock: relative, never zero.
AdjustStock(p, n) ==
    /\ n # 0
    /\ \/ ManualMovement(p, n, "manual_adjustment")
       \/ ManualMovement(p, -n, "manual_adjustment")

\* Mutant of PhysicalCount: the counted quantity is written without its row.
CountUnrecorded(p, n) ==
    /\ listing[p] # "deleted" /\ Len(ledger[p]) < MaxMovements /\ n <= MaxStock
    /\ stock' = [stock EXCEPT ![p] = n]
    /\ UNCHANGED <<orderVars, listing, ledger, providerVars, handler>>

\* record_physical_stock_count: to the counted quantity, by a movement of
\* the difference, recorded even when it is zero.
PhysicalCount(p, n) == ManualMovement(p, n - stock[p], "physical_count")

\* ProductAdmin.save_model under the product's lock: never writes stock.
SetActive(p) ==
    /\ listing[p] # "deleted"
    /\ listing' = [listing EXCEPT
                      ![p] = IF @ = "active" THEN "inactive" ELSE "active"]
    /\ UNCHANGED <<orderVars, stock, ledger, providerVars, handler>>

\* ProductAdmin.has_delete_permission: not while a cart row names the product.
\* Customers can remove the rows of an ordered cart too (Carts!Remove), so an
\* order does not protect its products; its line keeps a null instead.
DeleteProduct(p) ==
    /\ listing[p] # "deleted"
    /\ listing' = [listing EXCEPT ![p] = "deleted"]
    /\ UNCHANGED <<orderVars, stock, ledger, providerVars, handler>>

-----------------------------------------------------------------------------
Initiate(o) ==
    \/ InitiateSettled(o)
    \/ \E g \in Gateways : InitiateReuse(o, g)
    \/ \E g \in Gateways, t \in Txns : InitiateNew(o, g, t)

Finalize(h) ==
    \/ AlreadySettled(h)
    \/ RecordFailure(h)
    \/ Fulfil(h)
    \/ RecordUnfulfilled(h)
    \/ RejectStale(h)

BackOffice ==
    \/ \E o \in Orders, new \in OrderStatus : TransitionStatus(o, new)
    \/ \E p \in Products, n \in OperatorQty : AdjustStock(p, n) \/ PhysicalCount(p, n)
    \/ \E p \in Products : SetActive(p) \/ DeleteProduct(p)

Next ==
    \/ \E o \in Orders : CreateOrder(o) \/ Initiate(o)
    \/ \E t \in Txns : CustomerPays(t)
    \/ \E h \in Handlers, g \in Gateways, t \in Txns, claim \in BOOLEAN :
          ReceiveCallback(h, g, t, claim)
    \/ \E h \in Handlers : Verify(h) \/ Recheck(h) \/ Abandon(h) \/ Finalize(h)
    \/ BackOffice

Spec == Init /\ [][Next]_vars

-----------------------------------------------------------------------------
(* Properties *)

\* Every variable keeps its type; stock stays within what its column holds.
TypeOK ==
    /\ status \in [Orders -> OrderStatus]
    /\ stockReduced \in [Orders -> BOOLEAN]
    /\ payment \in [Orders -> PaymentRow]
    /\ listing \in [Products -> {"active", "inactive", "deleted"}]
    /\ stock \in [Products -> 0..MaxStock]
    /\ ledger \in [Products -> Seq(Movement)]
    /\ issued \in [Txns -> Orders \cup {None}]
    /\ charged \subseteq Txns
    /\ handler \in [Handlers -> HandlerState]

\* An order counts as paid exactly when its stock was taken, and then its
\* payment succeeded with a transaction issued for that order and really paid
\* by the customer, whatever verifications, retries and cancellations of other
\* requests were in flight (handle_callback, update_status_and_order,
\* transition_status).
FulfilmentBacked ==
    \A o \in Orders :
        /\ stockReduced[o] <=> status[o] \in Fulfilled
        /\ stockReduced[o] => payment[o].status = "success"
        /\ payment[o].status = "success" =>
              payment[o].txn \in charged /\ issued[payment[o].txn] = o

\* A recorded payment never leaves its order payable, so nobody is charged a
\* second time for it (PaymentService.initiate, update_status_and_order).
SettledNotPayable ==
    \A o \in Orders : payment[o].status = "success" => status[o] \notin Payable

\* The movements of order o on product p.
Drawn(o, p) == {i \in DOMAIN ledger[p] : ledger[p][i].order = o}

\* Duplicate, reordered and concurrent callbacks take an order's goods once,
\* all of them or none: one ledger row of the ordered quantity per product
\* (reduce_item_stock's check of every product before the first reduction).
GoodsTakenOnce ==
    \A o \in Orders, p \in Products :
        IF stockReduced[o] /\ p \in Lines(o)
        THEN \E i \in Drawn(o, p) :
                /\ Drawn(o, p) = {i}
                /\ ledger[p][i].delta = -Qty[o][p]
        ELSE Drawn(o, p) = {}

\* A product's ledger rows lead from its initial stock to units, unbroken.
Explains(rows, units, p) ==
    /\ \A i \in DOMAIN rows :
          /\ rows[i].after = rows[i].before + rows[i].delta
          /\ rows[i].before = IF i = 1 THEN InitialStock[p]
                              ELSE rows[i - 1].after
    /\ units = IF rows = <<>> THEN InitialStock[p] ELSE rows[Len(rows)].after

\* The ledger explains the stock: rows chain from the initial stock to the
\* current one with no gap, whoever moved it (payments, operators, counts).
LedgerExplainsStock ==
    \A p \in Products : Explains(ledger[p], stock[p], p)

\* No two orders wait on one provider transaction: a callback finds at most
\* one payment, of an existing order, the one its transaction was issued for.
TransactionsNotShared ==
    \A o \in Orders : payment[o].txn # None =>
        issued[payment[o].txn] = o /\ status[o] # "absent"

\* What a callback request holds between its steps: a transaction once issued
\* for the order it looked up, and after a positive answer one really paid.
HandlerKnows ==
    \A h \in Handlers : handler[h].pc # "idle" =>
        /\ handler[h].order \in Orders
        /\ handler[h].txn \in Txns
        /\ issued[handler[h].txn] = handler[h].order
        /\ handler[h].pc \in {"finalize", "reconcile"} /\ handler[h].ok =>
              handler[h].txn \in charged

\* The conjunction that is inductive: each part needs the others.
Consistent ==
    /\ TypeOK
    /\ FulfilmentBacked
    /\ SettledNotPayable
    /\ GoodsTakenOnce
    /\ LedgerExplainsStock
    /\ TransactionsNotShared
    /\ HandlerKnows

\* Success is final: no late refusal, retry or cancellation changes a settled
\* payment or the transaction it was settled by.
SettlementIsFinal ==
    [][\A o \in Orders :
          payment[o].status = "success" => payment'[o] = payment[o]]_vars

\* A verification settles the payment only if the payment still stands on the
\* verified transaction; one the customer replaced by retrying is never
\* recorded on the new one's behalf.
OnlyCurrentSettles ==
    [][\A o \in Orders :
          payment'[o].status \in {"success", "failed"}
          /\ payment'[o].status # payment[o].status =>
             /\ payment'[o].txn = payment[o].txn
             /\ \E h \in Handlers : /\ handler[h].pc = "finalize"
                                    /\ handler[h].txn = payment[o].txn
                                    /\ handler'[h] = Idle]_vars

\* An order's status only moves along the order life cycle; cancelled and
\* completed orders never move again, not even when their payment arrives.
StatusLifeCycle ==
    [][\A o \in Orders : status'[o] # status[o] =>
          <<status[o], status'[o]>> \in
             {<<"absent", "pending">>, <<"placed", "pending">>,
              <<"pending", "paid">>, <<"placed", "paid">>,
              <<"pending", "cancelled">>, <<"placed", "cancelled">>,
              <<"paid", "processing">>, <<"processing", "completed">>}]_vars

\* While a customer may be at the gateway paying, another click reuses that
\* transaction: a gateway is not asked for a second one until the first failed.
LiveTransactionKept ==
    [][\A o \in Orders :
          payment[o].status = "pending" /\ payment[o].txn # None
          /\ payment'[o].gateway = payment[o].gateway =>
             payment'[o].txn = payment[o].txn]_vars

\* The abstract life of an order and its goods.
Phase(o) ==
    IF status[o] = "absent" THEN "unplaced"
    ELSE IF status[o] \in Payable THEN "awaiting"
    ELSE IF status[o] \in Fulfilled THEN "fulfilled"
    ELSE IF payment[o].status = "success" THEN "refund" ELSE "cancelled"

Settlement == INSTANCE OrderSettlement WITH
                  phase <- [o \in Orders |-> Phase(o)]

\* The settlement code implements the promise of OrderSettlement.
ImplementsSettlement == Settlement!Spec
=============================================================================
