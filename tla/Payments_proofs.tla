--------------------------- MODULE Payments_proofs ---------------------------
(***************************************************************************)
(* Payments, for every set of orders, products, workers and transactions.  *)
(* The invariants of Payments are proved together: Consistent is inductive.*)
(***************************************************************************)
EXTENDS Payments, FiniteData, TLAPS

LEMMA InitConsistent == Init => Consistent
<1> SUFFICES ASSUME Init PROVE Consistent
  OBVIOUS
<1> USE SettlementConstants DEF Init
<1>1. TypeOK
  BY DEF TypeOK, OrderStatus, Payable, Fulfilled, PaymentRow, PaymentStatus,
         NoPayment, FreshPayment, HandlerState, Idle
<1>2. \A o \in Orders : payment[o].status # "success" /\ payment[o].txn = None
  <2>1. \A o \in Orders : payment[o] \in {NoPayment, FreshPayment}
    OBVIOUS
  <2>2. NoPayment.status # "success" /\ NoPayment.txn = None
    BY DEF NoPayment
  <2>3. FreshPayment.status # "success" /\ FreshPayment.txn = None
    BY DEF FreshPayment
  <2>4. QED
    BY <2>1, <2>2, <2>3
<1>3. FulfilmentBacked /\ SettledNotPayable /\ TransactionsNotShared
  BY <1>2 DEF FulfilmentBacked, SettledNotPayable, TransactionsNotShared,
              Fulfilled
<1>4. GoodsTakenOnce /\ LedgerExplainsStock
  BY DEF GoodsTakenOnce, LedgerExplainsStock, Explains, Drawn
<1>5. HandlerKnows
  BY DEF HandlerKnows, Idle
<1>6. QED
  BY <1>1, <1>3, <1>4, <1>5 DEF Consistent

-----------------------------------------------------------------------------
(* What does not change keeps its invariant. *)

\* Steps that move no goods keep the two invariants about goods.
LEMMA GoodsFrame ==
    ASSUME GoodsTakenOnce, LedgerExplainsStock,
           UNCHANGED <<stockReduced, stock, ledger>>
    PROVE  GoodsTakenOnce' /\ LedgerExplainsStock'
BY DEF GoodsTakenOnce, LedgerExplainsStock, Explains, Drawn

\* Steps that leave orders, payments and the provider alone, or only add to
\* what customers have paid, keep the invariants that relate them.
LEMMA OrdersFrame ==
    ASSUME FulfilmentBacked, SettledNotPayable, TransactionsNotShared,
           UNCHANGED <<status, stockReduced, payment, issued>>,
           charged \subseteq charged'
    PROVE  FulfilmentBacked' /\ SettledNotPayable' /\ TransactionsNotShared'
BY DEF FulfilmentBacked, SettledNotPayable, TransactionsNotShared

\* A request that ends forgets what it knew.
LEMMA HandlerEnds ==
    ASSUME HandlerKnows, TypeOK, UNCHANGED providerVars, NEW h \in Handlers,
           handler' = [handler EXCEPT ![h] = Idle]
    PROVE  HandlerKnows' /\ handler' \in [Handlers -> HandlerState]
<1>1. Idle \in HandlerState /\ Idle.pc = "idle"
  BY DEF Idle, HandlerState
<1>2. QED
  BY <1>1 DEF HandlerKnows, TypeOK, providerVars

\* Requests keep what they know when the provider only learns more.
LEMMA HandlersFrame ==
    ASSUME HandlerKnows, TypeOK, UNCHANGED handler, charged \subseteq charged',
           \A t \in Txns : issued[t] # None => issued'[t] = issued[t]
    PROVE  HandlerKnows'
BY SettlementConstants DEF HandlerKnows, TypeOK

-----------------------------------------------------------------------------
(* One lemma per action. *)

LEMMA CreateOrderStep ==
    ASSUME Consistent, NEW o \in Orders, CreateOrder(o)
    PROVE  Consistent'
<1> USE DEF Consistent, CreateOrder, goodsVars, providerVars
<1>1. FreshPayment \in PaymentRow /\ FreshPayment.txn = None
      /\ FreshPayment.status = "pending"
  BY DEF FreshPayment, PaymentRow, PaymentStatus
<1>2. TypeOK'
  BY <1>1 DEF TypeOK, OrderStatus, Payable
<1>3. FulfilmentBacked' /\ SettledNotPayable' /\ TransactionsNotShared'
  BY <1>1 DEF FulfilmentBacked, SettledNotPayable, TransactionsNotShared,
              Fulfilled, Payable, TypeOK
<1>4. GoodsTakenOnce' /\ LedgerExplainsStock'
  BY GoodsFrame
<1>5. HandlerKnows'
  BY HandlersFrame
<1>6. QED
  BY <1>2, <1>3, <1>4, <1>5

LEMMA InitiateStep ==
    ASSUME Consistent, NEW o \in Orders, Initiate(o)
    PROVE  Consistent'
<1> USE DEF Consistent, goodsVars, providerVars
<1>1. CASE InitiateSettled(o)
  BY <1>1 DEF InitiateSettled, SettledNotPayable
<1>2. ASSUME NEW g \in Gateways, InitiateReuse(o, g)
      PROVE  Consistent'
  <2> USE <1>2 DEF InitiateReuse
  <2>1. TypeOK'
    BY DEF TypeOK, OrderStatus, Payable
  <2>2. FulfilmentBacked' /\ SettledNotPayable' /\ TransactionsNotShared'
    BY DEF FulfilmentBacked, SettledNotPayable, TransactionsNotShared,
           Fulfilled, Payable, TypeOK, LiveAt
  <2>3. GoodsTakenOnce' /\ LedgerExplainsStock'
    BY GoodsFrame
  <2>4. HandlerKnows'
    BY HandlersFrame
  <2>5. QED
    BY <2>1, <2>2, <2>3, <2>4
<1>3. ASSUME NEW g \in Gateways, NEW t \in Txns, InitiateNew(o, g, t)
      PROVE  Consistent'
  <2> DEFINE row == [status |-> "pending", gateway |-> g, txn |-> t]
  <2> USE <1>3 DEF InitiateNew
  <2>1. row \in PaymentRow /\ row.txn = t /\ row.status = "pending"
    BY DEF PaymentRow, PaymentStatus
  <2>2. TypeOK'
    BY <2>1 DEF TypeOK, OrderStatus, Payable
  <2>3. \A x \in Orders : payment[x].txn # t
    BY SettlementConstants DEF TransactionsNotShared
  <2>4. FulfilmentBacked' /\ SettledNotPayable' /\ TransactionsNotShared'
    <3> HIDE DEF row
    <3>1. payment' = [payment EXCEPT ![o] = row]
      BY DEF row
    <3>2. QED
      BY <2>1, <2>3, <3>1, SettlementConstants
      DEF FulfilmentBacked, SettledNotPayable, TransactionsNotShared,
          Fulfilled, Payable, TypeOK
  <2>5. GoodsTakenOnce' /\ LedgerExplainsStock'
    BY GoodsFrame
  <2>6. HandlerKnows'
    BY HandlersFrame DEF TypeOK
  <2>7. QED
    BY <2>2, <2>4, <2>5, <2>6
<1>4. QED
  BY <1>1, <1>2, <1>3 DEF Initiate

LEMMA CustomerPaysStep ==
    ASSUME Consistent, NEW t \in Txns, CustomerPays(t)
    PROVE  Consistent'
<1> USE DEF Consistent, CustomerPays, orderVars, goodsVars
<1>1. TypeOK'
  BY DEF TypeOK
<1>2. FulfilmentBacked' /\ SettledNotPayable' /\ TransactionsNotShared'
  BY OrdersFrame
<1>3. GoodsTakenOnce' /\ LedgerExplainsStock'
  BY GoodsFrame
<1>4. HandlerKnows'
  BY HandlersFrame
<1>5. QED
  BY <1>1, <1>2, <1>3, <1>4

\* The steps of a callback that touch only the request's own memory.
LEMMA RequestStep ==
    ASSUME Consistent, UNCHANGED <<orderVars, goodsVars, providerVars>>,
           handler' \in [Handlers -> HandlerState], HandlerKnows'
    PROVE  Consistent'
<1> USE DEF Consistent, orderVars, goodsVars, providerVars
<1>1. TypeOK'
  BY DEF TypeOK
<1>2. FulfilmentBacked' /\ SettledNotPayable' /\ TransactionsNotShared'
  BY OrdersFrame
<1>3. GoodsTakenOnce' /\ LedgerExplainsStock'
  BY GoodsFrame
<1>4. QED
  BY <1>1, <1>2, <1>3

LEMMA ReceiveCallbackStep ==
    ASSUME Consistent, NEW h \in Handlers, NEW g \in Gateways, NEW t \in Txns,
           NEW claim \in BOOLEAN, ReceiveCallback(h, g, t, claim)
    PROVE  Consistent'
<1>1. PICK o \in Orders :
          /\ payment[o].txn = t
          /\ handler' = [handler EXCEPT
                ![h] = [pc |-> IF payment[o].status = "success"
                               THEN "recheck" ELSE "verify",
                        order |-> o, gateway |-> g, txn |-> t, ok |-> claim]]
  BY DEF ReceiveCallback
<1> DEFINE request == [pc |-> IF payment[o].status = "success"
                              THEN "recheck" ELSE "verify",
                       order |-> o, gateway |-> g, txn |-> t, ok |-> claim]
<1>2. /\ request \in HandlerState /\ request.order = o /\ request.txn = t
      /\ request.pc \in {"recheck", "verify"}
  BY DEF HandlerState
<1>3. issued[t] = o
  BY <1>1, SettlementConstants DEF Consistent, TransactionsNotShared
<1>4. UNCHANGED <<orderVars, goodsVars, providerVars>>
  BY DEF ReceiveCallback
<1>5. handler' = [handler EXCEPT ![h] = request]
  BY <1>1
<1> HIDE DEF request
<1>6. handler' \in [Handlers -> HandlerState] /\ HandlerKnows'
  BY <1>2, <1>3, <1>4, <1>5
  DEF Consistent, TypeOK, HandlerKnows, providerVars
<1>7. QED
  BY <1>4, <1>6, RequestStep

LEMMA VerifyStep ==
    ASSUME Consistent, NEW h \in Handlers, Verify(h)
    PROVE  Consistent'
<1> DEFINE yes == handler[h].ok /\ handler[h].txn \in charged
<1> DEFINE answer == [handler[h] EXCEPT !.pc = "finalize", !.ok = yes]
<1>1. handler[h] \in HandlerState
  BY DEF Consistent, TypeOK
<1>2. yes \in BOOLEAN /\ (yes => handler[h].txn \in charged)
  OBVIOUS
<1>3. handler' = [handler EXCEPT ![h] = answer]
  BY DEF Verify
<1>4. UNCHANGED <<orderVars, goodsVars, providerVars>> /\ handler[h].pc # "idle"
  BY DEF Verify
<1> HIDE DEF yes
<1>5. /\ answer \in HandlerState
      /\ answer.order = handler[h].order /\ answer.txn = handler[h].txn
      /\ answer.ok = yes
  BY <1>1, <1>2 DEF HandlerState
<1> HIDE DEF answer
<1>6. handler' \in [Handlers -> HandlerState] /\ HandlerKnows'
  BY <1>2, <1>3, <1>4, <1>5
  DEF Consistent, TypeOK, HandlerKnows, providerVars
<1>7. QED
  BY <1>4, <1>6, RequestStep

LEMMA RecheckStep ==
    ASSUME Consistent, NEW h \in Handlers, Recheck(h)
    PROVE  Consistent'
<1> USE DEF Consistent
<1>1. UNCHANGED <<orderVars, goodsVars, providerVars>>
  BY DEF Recheck
<1>2. CASE handler[h].ok /\ handler[h].txn \in charged
  <2>1. handler' \in [Handlers -> HandlerState]
    <3>1. handler' = [handler EXCEPT ![h].pc = "reconcile"]
      BY <1>2 DEF Recheck
    <3>2. QED
      BY <3>1 DEF TypeOK, HandlerState
  <2>2. HandlerKnows'
    BY <1>1, <1>2 DEF Recheck, TypeOK, HandlerState, HandlerKnows, providerVars
  <2>3. QED
    BY <1>1, <2>1, <2>2, RequestStep
<1>3. CASE ~(handler[h].ok /\ handler[h].txn \in charged)
  <2>1. handler' = [handler EXCEPT ![h] = Idle]
    BY <1>3 DEF Recheck
  <2>2. QED
    BY <1>1, <2>1, HandlerEnds, RequestStep
<1>4. QED
  BY <1>2, <1>3

\* A request that gives up or is refused.
LEMMA EndingStep ==
    ASSUME Consistent, NEW h \in Handlers, Abandon(h) \/ RejectStale(h)
    PROVE  Consistent'
<1>1. /\ UNCHANGED <<orderVars, goodsVars, providerVars>>
      /\ handler' = [handler EXCEPT ![h] = Idle]
  BY DEF Abandon, RejectStale
<1>2. handler' \in [Handlers -> HandlerState] /\ HandlerKnows'
  BY <1>1, HandlerEnds DEF Consistent
<1>3. QED
  BY <1>1, <1>2, RequestStep

LEMMA AlreadySettledStep ==
    ASSUME Consistent, NEW h \in Handlers, AlreadySettled(h)
    PROVE  Consistent'
<1> DEFINE o == handler[h].order
<1>1. o \in Orders /\ payment[o].status = "success"
  BY DEF Consistent, HandlerKnows, AlreadySettled
<1>2. QuarantinedStatus(o) = status[o]
  BY <1>1 DEF Consistent, SettledNotPayable, QuarantinedStatus
<1>3. UNCHANGED <<orderVars, goodsVars, providerVars>>
      /\ handler' = [handler EXCEPT ![h] = Idle]
  BY <1>1, <1>2 DEF AlreadySettled, orderVars, Consistent, TypeOK
<1>4. QED
  BY <1>3, HandlerEnds, RequestStep DEF Consistent

\* A callback that decides a payment: what is known of the row it writes.
LEMMA DecidedRow ==
    ASSUME Consistent, NEW h \in Handlers, Current(h),
           NEW new \in {"success", "failed"},
           payment' = [payment EXCEPT ![handler[h].order] =
                          [@ EXCEPT !.status = new]]
    PROVE  LET o == handler[h].order IN
           /\ o \in Orders /\ payment' \in [Orders -> PaymentRow]
           /\ payment'[o].status = new
           /\ payment'[o].txn = payment[o].txn
           /\ payment[o].txn \in Txns /\ issued[payment[o].txn] = o
           /\ handler[h].ok => payment[o].txn \in charged
           /\ status[o] # "absent" /\ payment[o].status # "success"
           /\ \A x \in Orders : x # o => payment'[x] = payment[x]
<1> DEFINE o == handler[h].order
<1>1. o \in Orders /\ payment[o] \in PaymentRow
  BY DEF Consistent, HandlerKnows, TypeOK, Current
<1>2. [payment[o] EXCEPT !.status = new] \in PaymentRow
  BY <1>1 DEF PaymentRow, PaymentStatus
<1>3. /\ [payment[o] EXCEPT !.status = new].status = new
      /\ [payment[o] EXCEPT !.status = new].txn = payment[o].txn
  BY <1>1 DEF PaymentRow
<1>4. /\ payment[o].txn \in Txns /\ issued[payment[o].txn] = o
      /\ handler[h].ok => payment[o].txn \in charged
      /\ payment[o].status # "success"
  BY DEF Current, Consistent, HandlerKnows
<1>5. status[o] # "absent"
  BY <1>1, <1>4, SettlementConstants DEF Consistent, TransactionsNotShared
<1>6. QED
  BY <1>1, <1>2, <1>3, <1>4, <1>5 DEF Consistent, TypeOK

LEMMA RecordFailureStep ==
    ASSUME Consistent, NEW h \in Handlers, RecordFailure(h)
    PROVE  Consistent'
<1> DEFINE o == handler[h].order
<1> USE DEF RecordFailure, Consistent, goodsVars, providerVars
<1>1. /\ o \in Orders /\ payment' \in [Orders -> PaymentRow]
      /\ payment'[o].status = "failed" /\ payment'[o].txn = payment[o].txn
      /\ payment[o].status # "success"
      /\ \A x \in Orders : x # o => payment'[x] = payment[x]
  BY DecidedRow
<1>2. HandlerKnows' /\ handler' \in [Handlers -> HandlerState]
  BY HandlerEnds
<1>3. TypeOK'
  BY <1>1, <1>2 DEF TypeOK
<1>4. FulfilmentBacked' /\ SettledNotPayable' /\ TransactionsNotShared'
  BY <1>1 DEF FulfilmentBacked, SettledNotPayable, TransactionsNotShared
<1>5. GoodsTakenOnce' /\ LedgerExplainsStock'
  BY GoodsFrame
<1>6. QED
  BY <1>2, <1>3, <1>4, <1>5

LEMMA RecordUnfulfilledStep ==
    ASSUME Consistent, NEW h \in Handlers, RecordUnfulfilled(h)
    PROVE  Consistent'
<1> DEFINE o == handler[h].order
<1> USE DEF RecordUnfulfilled, Consistent, goodsVars, providerVars
<1>1. /\ o \in Orders /\ payment' \in [Orders -> PaymentRow]
      /\ payment'[o].status = "success" /\ payment'[o].txn = payment[o].txn
      /\ payment[o].txn \in charged /\ issued[payment[o].txn] = o
      /\ payment[o].status # "success" /\ status[o] # "absent"
      /\ \A x \in Orders : x # o => payment'[x] = payment[x]
  BY DecidedRow DEF SettledPayment
<1>2. HandlerKnows' /\ handler' \in [Handlers -> HandlerState]
  BY HandlerEnds
<1>3. ~stockReduced[o] /\ status[o] \notin Fulfilled
  BY <1>1 DEF FulfilmentBacked
<1>4. /\ status' = [status EXCEPT ![o] = "cancelled"]
      /\ UNCHANGED stockReduced
  <2>1. status \in [Orders -> OrderStatus] /\ stockReduced \in [Orders -> BOOLEAN]
    BY DEF TypeOK
  <2>2. /\ status' = [status EXCEPT ![o] = IF status[o] # "cancelled" THEN "cancelled" ELSE @]
        /\ \E b \in BOOLEAN : stockReduced' = [stockReduced EXCEPT ![o] = @ /\ b]
    BY <1>3
  <2> HIDE DEF RecordUnfulfilled, Consistent, goodsVars, providerVars, o
  <2>3. status' = [status EXCEPT ![o] = "cancelled"]
    BY <1>1, <2>1, <2>2
  <2>4. stockReduced' = stockReduced
    BY <1>1, <1>3, <2>1, <2>2
  <2>5. QED
    BY <2>3, <2>4
<1>5. TypeOK'
  BY <1>1, <1>2, <1>4 DEF TypeOK, OrderStatus
<1>6. FulfilmentBacked' /\ SettledNotPayable' /\ TransactionsNotShared'
  BY <1>1, <1>3, <1>4 DEF FulfilmentBacked, SettledNotPayable,
     TransactionsNotShared, TypeOK, Payable, Fulfilled
<1>7. GoodsTakenOnce' /\ LedgerExplainsStock'
  BY <1>4, GoodsFrame
<1>8. QED
  BY <1>2, <1>5, <1>6, <1>7

LEMMA TransitionStatusStep ==
    ASSUME Consistent, NEW o \in Orders, NEW new \in OrderStatus,
           TransitionStatus(o, new)
    PROVE  Consistent'
<1> USE DEF TransitionStatus, Consistent, goodsVars, providerVars
<1>1. TypeOK'
  BY DEF TypeOK
<1>2. FulfilmentBacked' /\ SettledNotPayable' /\ TransactionsNotShared'
  BY DEF FulfilmentBacked, SettledNotPayable, TransactionsNotShared, TypeOK,
         Payable, Fulfilled
<1>3. GoodsTakenOnce' /\ LedgerExplainsStock'
  BY GoodsFrame
<1>4. HandlerKnows'
  BY HandlersFrame
<1>5. QED
  BY <1>1, <1>2, <1>3, <1>4

LEMMA ListingStep ==
    ASSUME Consistent, NEW p \in Products, SetActive(p) \/ DeleteProduct(p)
    PROVE  Consistent'
<1> USE DEF SetActive, DeleteProduct, Consistent, orderVars, providerVars
<1>1. TypeOK'
  BY DEF TypeOK
<1>2. FulfilmentBacked' /\ SettledNotPayable' /\ TransactionsNotShared'
  BY OrdersFrame
<1>3. GoodsTakenOnce' /\ LedgerExplainsStock'
  BY GoodsFrame
<1>4. HandlerKnows'
  BY HandlersFrame
<1>5. QED
  BY <1>1, <1>2, <1>3, <1>4

-----------------------------------------------------------------------------
(* Movements of goods. *)

\* Appending a movement that starts from the current stock and sets the stock
\* to where it ends keeps the ledger explaining the stock.
LEMMA AppendExplains ==
    ASSUME NEW rows \in Seq(Movement), NEW units, NEW p \in Products,
           NEW row \in Movement, Explains(rows, units, p),
           row.before = units, row.after = row.before + row.delta
    PROVE  Explains(Append(rows, row), row.after, p)
<1> DEFINE new == Append(rows, row)
<1>1. /\ new \in Seq(Movement) /\ new # <<>> /\ Len(new) = Len(rows) + 1
      /\ DOMAIN new = 1..(Len(rows) + 1) /\ DOMAIN rows = 1..Len(rows)
      /\ \A i \in 1..Len(rows) : new[i] = rows[i]
      /\ new[Len(rows) + 1] = row
  OBVIOUS
<1>2. ASSUME NEW i \in DOMAIN new
      PROVE  /\ new[i].after = new[i].before + new[i].delta
             /\ new[i].before = IF i = 1 THEN InitialStock[p]
                                ELSE new[i - 1].after
  <2>1. CASE i \in 1..Len(rows)
    <3>1. i = 1 \/ i - 1 \in 1..Len(rows)
      BY <2>1
    <3>2. new[i] = rows[i] /\ (i # 1 => new[i - 1] = rows[i - 1])
      BY <1>1, <2>1, <3>1
    <3>3. QED
      BY <1>1, <2>1, <3>2 DEF Explains
  <2>2. CASE i = Len(rows) + 1
    <3>1. new[i] = row
      BY <1>1, <2>2
    <3>2. ASSUME rows # <<>>
          PROVE  i # 1 /\ new[i - 1] = rows[Len(rows)]
      <4>1. Len(rows) \in 1..Len(rows) /\ i - 1 = Len(rows)
        BY <2>2, <3>2
      <4>2. new[Len(rows)] = rows[Len(rows)]
        BY <1>1, <4>1
      <4>3. QED
        BY <4>1, <4>2
    <3>3. rows = <<>> => i = 1
      BY <2>2
    <3>4. QED
      BY <3>1, <3>2, <3>3 DEF Explains
  <2>3. QED
    BY <1>1, <1>2, <2>1, <2>2
<1>3. new[Len(new)] = row
  BY <1>1
<1>4. QED
  BY <1>1, <1>2, <1>3 DEF Explains

\* The rows of an order after one more movement.
LEMMA AppendDrawn ==
    ASSUME NEW rows \in Seq(Movement), NEW row \in Movement, NEW o
    PROVE  {i \in DOMAIN Append(rows, row) : Append(rows, row)[i].order = o} =
           {i \in DOMAIN rows : rows[i].order = o}
              \cup (IF row.order = o THEN {Len(rows) + 1} ELSE {})
<1> DEFINE new == Append(rows, row)
<1>1. /\ DOMAIN new = 1..(Len(rows) + 1) /\ DOMAIN rows = 1..Len(rows)
      /\ \A i \in 1..Len(rows) : new[i] = rows[i]
      /\ new[Len(rows) + 1] = row
  OBVIOUS
<1> HIDE DEF new
<1>2. \A i : i \in 1..(Len(rows) + 1) <=> i \in 1..Len(rows) \/ i = Len(rows) + 1
  OBVIOUS
<1>3. QED
  BY <1>1, <1>2 DEF new

\* The row _record_locked_inventory_movement writes.
LEMMA MovedRow ==
    ASSUME TypeOK, NEW p \in Products, NEW delta \in Int,
           NEW source \in {"manual_adjustment", "physical_count", "order_payment"},
           NEW x \in Orders \cup {None}
    PROVE  LET row == Moved(p, delta, source, x) IN
           /\ row \in Movement /\ row.before = stock[p] /\ row.delta = delta
           /\ row.after = stock[p] + delta /\ row.order = x
<1>1. stock[p] \in Int
  BY SettlementConstants DEF TypeOK
<1>2. QED
  BY <1>1 DEF Moved, Movement

LEMMA FulfilStep ==
    ASSUME Consistent, NEW h \in Handlers, Fulfil(h)
    PROVE  Consistent'
<1> DEFINE o == handler[h].order
<1> DEFINE row(p) == Moved(p, -Qty[o][p], "order_payment", o)
<1> USE SettlementConstants DEF Fulfil, Consistent, providerVars
<1>1. /\ o \in Orders /\ payment' \in [Orders -> PaymentRow]
      /\ payment'[o].status = "success" /\ payment'[o].txn = payment[o].txn
      /\ payment[o].txn \in charged /\ issued[payment[o].txn] = o
      /\ payment[o].status # "success" /\ status[o] # "absent"
      /\ \A x \in Orders : x # o => payment'[x] = payment[x]
  BY DecidedRow DEF SettledPayment
<1>2. HandlerKnows' /\ handler' \in [Handlers -> HandlerState]
  BY HandlerEnds
<1>3. ~stockReduced[o] /\ status[o] \in Payable
  BY <1>1 DEF FulfilmentBacked, TypeOK, OrderStatus
<1>4. /\ status' = [status EXCEPT ![o] = "paid"]
      /\ stockReduced' = [stockReduced EXCEPT ![o] = TRUE]
  BY <1>1, <1>3 DEF TypeOK
<1>5. \A p \in Lines(o) : /\ p \in Products /\ row(p) \in Movement
                          /\ row(p).before = stock[p] /\ row(p).order = o
                          /\ row(p).delta = -Qty[o][p]
                          /\ row(p).after = stock[p] - Qty[o][p]
                          /\ row(p).after \in 0..MaxStock
  <2> HIDE DEF o
  <2> SUFFICES ASSUME NEW p \in Lines(o)
               PROVE  /\ p \in Products /\ row(p) \in Movement
                      /\ row(p).before = stock[p] /\ row(p).order = o
                      /\ row(p).delta = -Qty[o][p]
                      /\ row(p).after = stock[p] - Qty[o][p]
                      /\ row(p).after \in 0..MaxStock
    OBVIOUS
  <2>1. p \in Products /\ Qty[o][p] \in Nat /\ stock[p] \in 0..MaxStock
    <3>1. o \in Orders /\ p \in Products
      BY <1>1 DEF Lines
    <3>2. Qty[o] \in [Products -> Nat]
      BY <3>1
    <3>3. QED
      BY <3>1, <3>2 DEF TypeOK
  <2>2. Qty[o][p] <= stock[p]
    BY DEF CanFulfil, o
  <2>3. /\ row(p) \in Movement /\ row(p).before = stock[p]
        /\ row(p).delta = -Qty[o][p] /\ row(p).order = o
        /\ row(p).after = stock[p] + (-Qty[o][p])
    BY <1>1, <2>1, MovedRow
  <2>4. QED
    BY <2>1, <2>2, <2>3
<1>6. \A p \in Products :
          /\ p \in Lines(o) => /\ stock'[p] = row(p).after
                               /\ ledger'[p] = Append(ledger[p], row(p))
          /\ p \notin Lines(o) => stock'[p] = stock[p] /\ ledger'[p] = ledger[p]
  BY <1>5 DEF ReducedStock, ReducedLedger
<1> HIDE DEF row
<1>7. TypeOK'
  <2>1. \A p \in Products : stock'[p] \in 0..MaxStock
    BY <1>5, <1>6 DEF TypeOK
  <2>2. ASSUME NEW p \in Products
        PROVE  ledger'[p] \in Seq(Movement)
    <3>1. ledger[p] \in Seq(Movement)
      BY DEF TypeOK
    <3>2. p \in Lines(o) => Append(ledger[p], row(p)) \in Seq(Movement)
      BY <1>5, <3>1
    <3>3. QED
      BY <1>6, <3>1, <3>2
  <2>3. stock' = [p \in Products |-> stock'[p]]
        /\ ledger' = [p \in Products |-> ledger'[p]]
    BY DEF ReducedStock, ReducedLedger
  <2>4. stock' \in [Products -> 0..MaxStock] /\ ledger' \in [Products -> Seq(Movement)]
    BY <2>1, <2>2, <2>3
  <2>5. QED
    BY <1>1, <1>2, <1>4, <2>4 DEF TypeOK, OrderStatus, Fulfilled
<1>8. FulfilmentBacked' /\ SettledNotPayable' /\ TransactionsNotShared'
  BY <1>1, <1>4 DEF FulfilmentBacked, SettledNotPayable,
     TransactionsNotShared, TypeOK, Payable, Fulfilled
<1>9. LedgerExplainsStock'
  <2> SUFFICES ASSUME NEW p \in Products
               PROVE  Explains(ledger'[p], stock'[p], p)
    BY DEF LedgerExplainsStock, Explains
  <2>1. ledger[p] \in Seq(Movement) /\ Explains(ledger[p], stock[p], p)
    BY DEF LedgerExplainsStock, TypeOK
  <2>2. CASE p \in Lines(o)
    <3>1. row(p).after = row(p).before + row(p).delta
      BY <1>1, <1>5, <2>2 DEF TypeOK
    <3>2. Explains(Append(ledger[p], row(p)), row(p).after, p)
      BY <1>5, <2>1, <2>2, <3>1, AppendExplains
    <3>3. QED
      BY <1>6, <2>2, <3>2
  <2>3. CASE p \notin Lines(o)
    BY <1>6, <2>1, <2>3
  <2>4. QED
    BY <2>2, <2>3
<1>10. GoodsTakenOnce'
  <2> SUFFICES ASSUME NEW x \in Orders, NEW p \in Products
               PROVE  IF stockReduced'[x] /\ p \in Lines(x)
                      THEN \E i \in Drawn(x, p)' :
                             /\ Drawn(x, p)' = {i}
                             /\ ledger'[p][i].delta = -Qty[x][p]
                      ELSE Drawn(x, p)' = {}
    BY DEF GoodsTakenOnce, Lines
  <2>1. ledger[p] \in Seq(Movement)
    BY DEF TypeOK
  <2>2. IF stockReduced[x] /\ p \in Lines(x)
        THEN \E i \in Drawn(x, p) : /\ Drawn(x, p) = {i}
                                    /\ ledger[p][i].delta = -Qty[x][p]
        ELSE Drawn(x, p) = {}
    BY DEF GoodsTakenOnce
  <2>3. x # o => stockReduced'[x] = stockReduced[x]
    BY <1>4 DEF TypeOK
  <2>4. CASE p \notin Lines(o)
    <3>1. Drawn(x, p)' = Drawn(x, p) /\ ledger'[p] = ledger[p]
      BY <1>6, <2>4 DEF Drawn
    <3>2. QED
      BY <1>3, <2>2, <2>3, <2>4, <3>1
  <2>5. CASE p \in Lines(o)
    <3>1. Drawn(x, p)' = Drawn(x, p) \cup
             (IF row(p).order = x THEN {Len(ledger[p]) + 1} ELSE {})
      <4>1. ledger'[p] = Append(ledger[p], row(p)) /\ row(p) \in Movement
        BY <1>5, <1>6, <2>5
      <4>2. {i \in DOMAIN Append(ledger[p], row(p)) :
               Append(ledger[p], row(p))[i].order = x} =
            {i \in DOMAIN ledger[p] : ledger[p][i].order = x}
               \cup (IF row(p).order = x THEN {Len(ledger[p]) + 1} ELSE {})
        BY <2>1, <4>1, AppendDrawn
      <4>3. QED
        BY <4>1, <4>2 DEF Drawn
    <3>2. CASE x = o
      <4>1. Drawn(x, p) = {}
        BY <1>3, <2>2, <3>2
      <4>2. Drawn(x, p)' = {Len(ledger[p]) + 1}
        BY <1>5, <2>5, <3>1, <3>2, <4>1
      <4>3. ledger'[p][Len(ledger[p]) + 1] = row(p)
        BY <1>5, <1>6, <2>1, <2>5
      <4>4. stockReduced'[x]
        BY <1>1, <1>4, <3>2 DEF TypeOK
      <4>5. QED
        BY <1>5, <2>5, <3>2, <4>2, <4>3, <4>4
    <3>3. CASE x # o
      <4>1. Drawn(x, p)' = Drawn(x, p)
        BY <1>5, <2>5, <3>1, <3>3
      <4>2. \A i \in Drawn(x, p) : ledger'[p][i] = ledger[p][i]
        <5>1. ledger'[p] = Append(ledger[p], row(p)) /\ row(p) \in Movement
          BY <1>5, <1>6, <2>5
        <5>2. \A i \in DOMAIN ledger[p] :
                 Append(ledger[p], row(p))[i] = ledger[p][i]
          BY <2>1, <5>1
        <5>3. QED
          BY <5>1, <5>2 DEF Drawn
      <4>3. QED
        BY <2>2, <2>3, <3>3, <4>1, <4>2
    <3>4. QED
      BY <3>2, <3>3
  <2>6. QED
    BY <2>4, <2>5
<1>11. QED
  BY <1>2, <1>7, <1>8, <1>9, <1>10

LEMMA ManualMovementStep ==
    ASSUME Consistent, NEW p \in Products, NEW delta \in Int,
           NEW source \in {"manual_adjustment", "physical_count"},
           ManualMovement(p, delta, source)
    PROVE  Consistent'
<1> DEFINE row == Moved(p, delta, source, None)
<1> USE SettlementConstants DEF ManualMovement, Consistent, orderVars, providerVars
<1>1. /\ row \in Movement /\ row.before = stock[p] /\ row.delta = delta
      /\ row.after = stock[p] + delta /\ row.order = None
  BY MovedRow
<1>2. /\ ledger \in [Products -> Seq(Movement)]
      /\ stock \in [Products -> 0..MaxStock]
      /\ ledger' = [ledger EXCEPT ![p] = Append(ledger[p], row)]
      /\ stock' = [stock EXCEPT ![p] = row.after]
      /\ row.after \in 0..MaxStock
  BY <1>1 DEF TypeOK
<1> HIDE DEF row
<1>3. Append(ledger[p], row) \in Seq(Movement)
  BY <1>1, <1>2
<1>4. TypeOK'
  BY <1>2, <1>3 DEF TypeOK
<1>5. FulfilmentBacked' /\ SettledNotPayable' /\ TransactionsNotShared'
  BY OrdersFrame
<1>6. HandlerKnows'
  BY HandlersFrame
<1>7. LedgerExplainsStock'
  <2>1. Explains(ledger[p], stock[p], p) /\ ledger[p] \in Seq(Movement)
    BY <1>2 DEF LedgerExplainsStock
  <2>2. row.after = row.before + row.delta
    BY <1>1
  <2>3. Explains(Append(ledger[p], row), row.after, p)
    BY <1>1, <2>1, <2>2, AppendExplains
  <2>4. ASSUME NEW x \in Products
        PROVE  Explains(ledger'[x], stock'[x], x)
    BY <1>2, <2>3 DEF LedgerExplainsStock
  <2>5. QED
    BY <2>4 DEF LedgerExplainsStock, Explains
<1>8. GoodsTakenOnce'
  <2> SUFFICES ASSUME NEW x \in Orders, NEW y \in Products
               PROVE  IF stockReduced[x] /\ y \in Lines(x)
                      THEN \E i \in Drawn(x, y)' :
                             /\ Drawn(x, y)' = {i}
                             /\ ledger'[y][i].delta = -Qty[x][y]
                      ELSE Drawn(x, y)' = {}
    BY DEF GoodsTakenOnce, Lines
  <2>1. IF stockReduced[x] /\ y \in Lines(x)
        THEN \E i \in Drawn(x, y) : /\ Drawn(x, y) = {i}
                                    /\ ledger[y][i].delta = -Qty[x][y]
        ELSE Drawn(x, y) = {}
    BY DEF GoodsTakenOnce
  <2>2. CASE y # p
    <3>1. ledger'[y] = ledger[y]
      BY <1>2, <2>2
    <3>2. QED
      BY <2>1, <3>1 DEF Drawn
  <2>3. CASE y = p
    <3>1. ledger'[y] = Append(ledger[y], row) /\ ledger[y] \in Seq(Movement)
      BY <1>2, <2>3
    <3>2. {i \in DOMAIN Append(ledger[y], row) : Append(ledger[y], row)[i].order = x}
          = {i \in DOMAIN ledger[y] : ledger[y][i].order = x}
            \cup (IF row.order = x THEN {Len(ledger[y]) + 1} ELSE {})
      BY <1>1, <3>1, AppendDrawn
    <3>3. Drawn(x, y)' = Drawn(x, y)
      BY <1>1, <3>1, <3>2 DEF Drawn
    <3>4. \A i \in Drawn(x, y) : ledger'[y][i] = ledger[y][i]
      <4>1. \A i \in DOMAIN ledger[y] : Append(ledger[y], row)[i] = ledger[y][i]
        BY <1>1, <3>1
      <4>2. QED
        BY <3>1, <4>1 DEF Drawn
    <3>5. QED
      BY <2>1, <3>3, <3>4
  <2>4. QED
    BY <2>2, <2>3
<1>9. QED
  BY <1>4, <1>5, <1>6, <1>7, <1>8

-----------------------------------------------------------------------------
(* The theorems. *)

LEMMA StepConsistent == Consistent /\ [Next]_vars => Consistent'
<1> SUFFICES ASSUME Consistent, [Next]_vars PROVE Consistent'
  OBVIOUS
<1>1. ASSUME NEW o \in Orders, CreateOrder(o) \/ Initiate(o)
      PROVE  Consistent'
  BY <1>1, CreateOrderStep, InitiateStep
<1>2. ASSUME NEW t \in Txns, CustomerPays(t)
      PROVE  Consistent'
  BY <1>2, CustomerPaysStep
<1>3. ASSUME NEW h \in Handlers, NEW g \in Gateways, NEW t \in Txns,
             NEW claim \in BOOLEAN, ReceiveCallback(h, g, t, claim)
      PROVE  Consistent'
  BY <1>3, ReceiveCallbackStep
<1>4. ASSUME NEW h \in Handlers,
             Verify(h) \/ Recheck(h) \/ Abandon(h) \/ Finalize(h)
      PROVE  Consistent'
  BY <1>4, VerifyStep, RecheckStep, EndingStep, AlreadySettledStep,
     RecordFailureStep, FulfilStep, RecordUnfulfilledStep DEF Finalize
<1>5. ASSUME BackOffice
      PROVE  Consistent'
  <2>1. ASSUME NEW o \in Orders, NEW new \in OrderStatus,
               TransitionStatus(o, new)
        PROVE  Consistent'
    BY <2>1, TransitionStatusStep
  <2>2. ASSUME NEW p \in Products, NEW n \in OperatorQty,
               AdjustStock(p, n) \/ PhysicalCount(p, n)
        PROVE  Consistent'
    <3>1. n \in Int /\ -n \in Int /\ n - stock[p] \in Int
      BY SettlementConstants DEF Consistent, TypeOK
    <3>2. QED
      BY <2>2, <3>1, ManualMovementStep DEF AdjustStock, PhysicalCount
  <2>3. ASSUME NEW p \in Products, SetActive(p) \/ DeleteProduct(p)
        PROVE  Consistent'
    BY <2>3, ListingStep
  <2>4. QED
    BY <1>5, <2>1, <2>2, <2>3 DEF BackOffice
<1>6. CASE UNCHANGED vars
  <2>1. TypeOK'
    BY <1>6 DEF Consistent, TypeOK, vars
  <2>2. FulfilmentBacked' /\ SettledNotPayable' /\ TransactionsNotShared'
    BY <1>6, OrdersFrame DEF Consistent, vars
  <2>3. GoodsTakenOnce' /\ LedgerExplainsStock'
    BY <1>6, GoodsFrame DEF Consistent, vars
  <2>4. HandlerKnows'
    BY <1>6, HandlersFrame DEF Consistent, vars
  <2>5. QED
    BY <2>1, <2>2, <2>3, <2>4 DEF Consistent
<1>7. QED
  BY <1>1, <1>2, <1>3, <1>4, <1>5, <1>6 DEF Next

\* Every reachable state satisfies all the invariants of Payments at once.
THEOREM AlwaysConsistent == Spec => []Consistent
BY InitConsistent, StepConsistent, PTL DEF Spec

\* Types, with stock between zero and the column's maximum in every state.
THEOREM TypeCorrect == Spec => []TypeOK
BY AlwaysConsistent, PTL DEF Consistent

\* Paid orders are exactly those whose goods were taken, and all of them are
\* backed by a transaction issued for them and paid by the customer.
THEOREM PaidOrdersAreBacked == Spec => []FulfilmentBacked
BY AlwaysConsistent, PTL DEF Consistent

\* A recorded payment never leaves its order payable.
THEOREM NeverChargedAgain == Spec => []SettledNotPayable
BY AlwaysConsistent, PTL DEF Consistent

\* The goods of an order leave the stock once, all of them or none.
THEOREM GoodsAreTakenOnce == Spec => []GoodsTakenOnce
BY AlwaysConsistent, PTL DEF Consistent

\* The movements of a product lead from its initial stock to its stock.
THEOREM LedgerIsComplete == Spec => []LedgerExplainsStock
BY AlwaysConsistent, PTL DEF Consistent

-----------------------------------------------------------------------------
(* Stock is conserved.                                                      *)

\* The ledger rows of p an operator entered, the quantities of all its rows,
\* and the orders whose goods of p were taken.
Entered(p) == {i \in DOMAIN ledger[p] : ledger[p][i].order = None}
Deltas(p) == [i \in DOMAIN ledger[p] |-> ledger[p][i].delta]
Sold(p) == {o \in Orders : stockReduced[o] /\ p \in Lines(o)}

\* Units of p sold, and units the operators brought in (less those they took).
UnitsSold(p) == SumFunctionOnSet([o \in Orders |-> Qty[o][p]], Sold(p))
UnitsEntered(p) == SumFunctionOnSet(Deltas(p), Entered(p))

\* What is in stock and what was sold is what there was at first and what the
\* operators brought in: no callback, retry or adjustment loses or makes a unit
\* (apply_stock_change's row and Product.stock, reduce_item_stock).
StockIsConserved ==
    \A p \in Products :
        stock[p] + UnitsSold(p) = InitialStock[p] + UnitsEntered(p)

\* No more is ever sold than there was to sell.
NothingOversold ==
    \A p \in Products : UnitsSold(p) <= InitialStock[p] + UnitsEntered(p)

\* The one row an order's goods left in the ledger of p.
LEMMA RowOfOrder ==
    ASSUME Consistent, NEW p \in Products, NEW o \in Sold(p)
    PROVE  LET r == CHOOSE i \in Drawn(o, p) : TRUE
           IN  /\ r \in DOMAIN ledger[p]
               /\ ledger[p][r].order = o
               /\ Drawn(o, p) = {r}
               /\ Deltas(p)[r] = -Qty[o][p]
<1>1. PICK i \in Drawn(o, p) : Drawn(o, p) = {i} /\ ledger[p][i].delta = -Qty[o][p]
  BY DEF Consistent, GoodsTakenOnce, Sold
<1>2. (CHOOSE j \in Drawn(o, p) : TRUE) = i
  BY <1>1
<1>3. i \in DOMAIN ledger[p] /\ ledger[p][i].order = o
  BY <1>1 DEF Drawn
<1>4. QED
  BY <1>1, <1>2, <1>3 DEF Deltas

\* Every row is an operator's or the one of a sold order.
LEMMA RowsOfOrders ==
    ASSUME Consistent, NEW p \in Products
    PROVE  DOMAIN ledger[p] \ Entered(p) =
               {CHOOSE i \in Drawn(o, p) : TRUE : o \in Sold(p)}
<1> DEFINE row(o) == CHOOSE i \in Drawn(o, p) : TRUE
<1>1. ASSUME NEW o \in Sold(p) PROVE row(o) \in DOMAIN ledger[p] \ Entered(p)
  <2>1. row(o) \in DOMAIN ledger[p] /\ ledger[p][row(o)].order = o
    BY RowOfOrder
  <2>2. o # None
    BY SettlementConstants DEF Sold
  <2>3. QED
    BY <2>1, <2>2 DEF Entered
<1>2. ASSUME NEW i \in DOMAIN ledger[p] \ Entered(p)
      PROVE  \E o \in Sold(p) : i = row(o)
  <2> DEFINE o == ledger[p][i].order
  <2>1. o \in Orders
    <3>1. ledger[p] \in Seq(Movement)
      BY DEF Consistent, TypeOK
    <3>2. ledger[p][i] \in Movement
      BY <3>1
    <3>3. QED
      BY <3>2 DEF Movement, Entered
  <2>2. i \in Drawn(o, p)
    BY DEF Drawn
  <2>3. o \in Sold(p)
    BY <2>1, <2>2 DEF Consistent, GoodsTakenOnce, Sold
  <2>4. i = row(o)
    BY <2>2, <2>3, RowOfOrder
  <2>5. QED
    BY <2>3, <2>4
<1>3. QED
  BY <1>1, <1>2

\* The rows of a product add up to the change of its stock.
LEMMA RowsAddUp ==
    ASSUME Consistent, NEW p \in Products
    PROVE  /\ \A i \in DOMAIN ledger[p] : Deltas(p)[i] \in Int
           /\ SumFunctionOnSet(Deltas(p), DOMAIN ledger[p]) = stock[p] - InitialStock[p]
<1> DEFINE rows == ledger[p]
           n == Len(rows)
           step == Deltas(p)
           at == [k \in 0..n |-> IF k = 0 THEN InitialStock[p] ELSE rows[k].after]
<1>1. n \in Nat /\ DOMAIN rows = 1..n /\ \A i \in 1..n : rows[i] \in Movement
  <2>1. rows \in Seq(Movement)
    BY DEF Consistent, TypeOK
  <2>2. QED
    BY <2>1
<1>2. InitialStock[p] \in Int
  BY SettlementConstants
<1>3. Explains(rows, stock[p], p)
  BY DEF Consistent, LedgerExplainsStock
<1>4. \A i \in 1..n : /\ step[i] = rows[i].delta
                      /\ rows[i].delta \in Int
                      /\ rows[i].after \in Int
  BY <1>1 DEF Deltas, Movement
<1>5. \A k \in 0..n : at[k] \in Int
  BY <1>2, <1>4
<1>6. ASSUME NEW k \in 1..n PROVE at[k] = at[k - 1] + step[k] /\ step[k] \in Int
  <2>1. /\ rows[k].after = rows[k].before + rows[k].delta
        /\ rows[k].before = IF k = 1 THEN InitialStock[p] ELSE rows[k - 1].after
    BY <1>1, <1>3 DEF Explains
  <2>2. at[k] = rows[k].after /\ at[k - 1] = rows[k].before
    BY <1>1, <2>1
  <2>3. QED
    BY <1>4, <2>1, <2>2
<1>7. at[n] = stock[p] /\ at[0] = InitialStock[p]
  <2>1. CASE n = 0
    <3>1. rows = <<>>
      BY <1>1, <2>1
    <3>2. QED
      BY <1>3, <2>1, <3>1 DEF Explains
  <2>2. CASE n # 0
    <3>1. rows # <<>>
      BY <1>1, <2>2
    <3>2. QED
      BY <1>1, <1>3, <2>2, <3>1 DEF Explains
  <2>3. QED
    BY <2>1, <2>2
<1>8. SumFunctionOnSet(step, 1..n) = at[n] - at[0]
  <2> HIDE DEF at, step, n
  <2>1. QED
    BY <1>1, <1>5, <1>6, Telescope
<1>9. QED
  BY <1>1, <1>4, <1>7, <1>8

LEMMA Conserved ==
    ASSUME Consistent, NEW p \in Products
    PROVE  /\ UnitsSold(p) \in Int /\ UnitsEntered(p) \in Int
           /\ stock[p] + UnitsSold(p) = InitialStock[p] + UnitsEntered(p)
<1> DEFINE rows == DOMAIN ledger[p]
           qty == [o \in Orders |-> Qty[o][p]]
           row == [o \in Sold(p) |-> CHOOSE i \in Drawn(o, p) : TRUE]
<1>1. IsFiniteSet(rows)
  <2>1. \E n \in Nat : rows = 1..n
    BY DEF Consistent, TypeOK
  <2>2. QED
    BY <2>1, FS_Interval
<1>2. \A o \in Sold(p) : /\ row[o] \in rows
                         /\ ledger[p][row[o]].order = o
                         /\ Deltas(p)[row[o]] = -Qty[o][p]
  BY RowOfOrder
<1>3. \A o, u \in Sold(p) : row[o] = row[u] => o = u
  BY <1>2
<1>4. IsFiniteSet(Sold(p))
  <2>1. row \in Injection(Sold(p), rows)
    BY <1>2, <1>3 DEF Injection, IsInjective
  <2>2. QED
    BY <1>1, <2>1, FS_Injection
<1>5. \A o \in Sold(p) : qty[o] = Qty[o][p] /\ qty[o] \in Int
  BY SettlementConstants DEF Sold
<1>6. \A o \in Sold(p) : Deltas(p)[row[o]] = -qty[o]
  BY <1>2, <1>5
<1>7. {row[o] : o \in Sold(p)} = rows \ Entered(p)
  BY RowsOfOrders
<1>8. SumFunctionOnSet(Deltas(p), {row[o] : o \in Sold(p)}) = -SumFunctionOnSet(qty, Sold(p))
  <2> HIDE DEF row, qty
  <2>1. QED
    BY <1>3, <1>4, <1>5, <1>6, SumOpposite
<1>9. rows \cap Entered(p) = Entered(p) /\ Entered(p) \subseteq rows
  BY DEF Entered
<1>10. /\ \A i \in rows : Deltas(p)[i] \in Int
       /\ SumFunctionOnSet(Deltas(p), rows) = stock[p] - InitialStock[p]
  BY RowsAddUp
<1>11. SumFunctionOnSet(Deltas(p), rows)
         = SumFunctionOnSet(Deltas(p), rows \cap Entered(p))
             + SumFunctionOnSet(Deltas(p), rows \ Entered(p))
  <2> HIDE DEF rows
  <2>1. QED
    BY <1>1, <1>10, SumSplit
<1>12. UnitsSold(p) \in Int
  <2> HIDE DEF qty
  <2>1. SumFunctionOnSet(qty, Sold(p)) \in Int
    BY <1>4, <1>5, SumIsInt
  <2>2. QED
    BY <2>1 DEF UnitsSold, qty
<1>13. UnitsEntered(p) \in Int
  <2>1. IsFiniteSet(Entered(p)) /\ \A i \in Entered(p) : Deltas(p)[i] \in Int
    BY <1>1, <1>9, <1>10, FS_Subset
  <2>2. QED
    BY <2>1, SumIsInt DEF UnitsEntered
<1>14. stock[p] - InitialStock[p] = UnitsEntered(p) + -UnitsSold(p)
  <2>1. SumFunctionOnSet(Deltas(p), rows \cap Entered(p)) = UnitsEntered(p)
    BY <1>9 DEF UnitsEntered
  <2>2. SumFunctionOnSet(Deltas(p), rows \ Entered(p)) = -UnitsSold(p)
    BY <1>7, <1>8 DEF UnitsSold
  <2>3. QED
    BY <1>10, <1>11, <2>1, <2>2
<1>15. stock[p] \in Int /\ InitialStock[p] \in Int
  BY SettlementConstants DEF Consistent, TypeOK
<1>16. QED
  BY <1>12, <1>13, <1>14, <1>15

\* Stock, sales and the operators' movements balance in every reachable state.
THEOREM StockConserved == Spec => []StockIsConserved
<1>1. Consistent => StockIsConserved
  BY Conserved DEF StockIsConserved
<1>2. QED
  BY <1>1, AlwaysConsistent, PTL

\* Concurrent callbacks never sell more than was ever put in stock.
THEOREM NeverOversold == Spec => []NothingOversold
<1>1. Consistent => NothingOversold
  <2>1. ASSUME Consistent, NEW p \in Products
        PROVE  UnitsSold(p) <= InitialStock[p] + UnitsEntered(p)
    <3>1. stock[p] \in Nat /\ InitialStock[p] \in Int
      BY SettlementConstants, <2>1 DEF Consistent, TypeOK
    <3>2. QED
      BY <2>1, <3>1, Conserved
  <2>2. QED
    BY <2>1 DEF NothingOversold
<1>2. QED
  BY <1>1, AlwaysConsistent, PTL

-----------------------------------------------------------------------------
(* What a step may never do. *)

\* No step changes a settled payment.
THEOREM SettlementFinal == Spec => SettlementIsFinal
<1>1. ASSUME Consistent, [Next]_vars, NEW o \in Orders,
             payment[o].status = "success"
      PROVE  payment'[o] = payment[o]
  <2>1. ASSUME NEW x \in Orders, CreateOrder(x) \/ Initiate(x)
        PROVE  payment'[o] = payment[o]
    <3>1. payment[o].txn # None
      BY <1>1, SettlementConstants DEF Consistent, TypeOK, FulfilmentBacked
    <3>2. status[o] # "absent"
      BY <1>1, <3>1 DEF Consistent, TransactionsNotShared
    <3>3. CASE CreateOrder(x)
      BY <1>1, <3>2, <3>3 DEF CreateOrder, Consistent, TypeOK
    <3>4. CASE Initiate(x)
      BY <1>1, <3>4 DEF Initiate, InitiateSettled, InitiateReuse, InitiateNew,
         Consistent, TypeOK
    <3>5. QED
      BY <2>1, <3>3, <3>4
  <2>2. ASSUME NEW h \in Handlers,
               Verify(h) \/ Recheck(h) \/ Abandon(h) \/ Finalize(h)
        PROVE  payment'[o] = payment[o]
    <3>1. CASE Current(h)
      <4>1. o # handler[h].order
        BY <1>1, <3>1 DEF Current
      <4>2. QED
        BY <1>1, <2>2, <4>1 DEF Finalize, RecordFailure, Fulfil, Verify, Recheck,
           Abandon, AlreadySettled, RejectStale, RecordUnfulfilled, orderVars,
           SettledPayment, Consistent, TypeOK
    <3>2. CASE ~Current(h)
      BY <2>2, <3>2 DEF Finalize, RecordFailure, Fulfil, RecordUnfulfilled,
         Verify, Recheck, Abandon, AlreadySettled, RejectStale, orderVars
    <3>3. QED
      BY <3>1, <3>2
  <2>3. CASE BackOffice
    BY <2>3 DEF BackOffice, TransitionStatus, AdjustStock, PhysicalCount,
       ManualMovement, SetActive, DeleteProduct, orderVars
  <2>4. ASSUME NEW h \in Handlers, NEW g \in Gateways, NEW t \in Txns,
               NEW claim \in BOOLEAN, ReceiveCallback(h, g, t, claim)
        PROVE  payment'[o] = payment[o]
    BY <2>4 DEF ReceiveCallback, orderVars
  <2>5. ASSUME NEW t \in Txns, CustomerPays(t)
        PROVE  payment'[o] = payment[o]
    BY <2>5 DEF CustomerPays, orderVars
  <2>6. CASE UNCHANGED vars
    BY <2>6 DEF vars
  <2>7. QED
    BY <1>1, <2>1, <2>2, <2>3, <2>4, <2>5, <2>6 DEF Next
<1>2. Consistent /\ [Next]_vars =>
        [\A o \in Orders :
           payment[o].status = "success" => payment'[o] = payment[o]]_vars
  BY <1>1
<1>3. QED
  BY <1>2, AlwaysConsistent, PTL DEF Spec, SettlementIsFinal

\* What the actions other than the finalization leave of a settled order.
LEMMA OutsideFinalize ==
    ASSUME Consistent, [Next]_vars,
           ~\E h \in Handlers : Finalize(h),
           ~\E o \in Orders : CreateOrder(o) \/ Initiate(o)
    PROVE  payment' = payment
<1>1. CASE \E t \in Txns : CustomerPays(t)
  BY <1>1 DEF CustomerPays, orderVars
<1>2. CASE \E h \in Handlers, g \in Gateways, t \in Txns, claim \in BOOLEAN :
              ReceiveCallback(h, g, t, claim)
  BY <1>2 DEF ReceiveCallback, orderVars
<1>3. CASE \E h \in Handlers : Verify(h) \/ Recheck(h) \/ Abandon(h)
  BY <1>3 DEF Verify, Recheck, Abandon, orderVars
<1>4. CASE BackOffice
  BY <1>4 DEF BackOffice, TransitionStatus, AdjustStock, PhysicalCount,
     ManualMovement, SetActive, DeleteProduct, orderVars
<1>5. CASE UNCHANGED vars
  BY <1>5 DEF vars
<1>6. QED
  BY <1>1, <1>2, <1>3, <1>4, <1>5 DEF Next

\* A new or reset payment is pending; nothing else of an initiation or a
\* checkout touches a payment, and a live transaction stays.
LEMMA InitiateKeeps ==
    ASSUME Consistent, NEW x \in Orders, CreateOrder(x) \/ Initiate(x),
           NEW o \in Orders
    PROVE  /\ payment'[o].status # payment[o].status =>
                 payment'[o].status = "pending"
           /\ payment[o].status = "pending" /\ payment[o].txn # None
              /\ payment'[o].gateway = payment[o].gateway =>
                 payment'[o].txn = payment[o].txn
<1>1. payment \in [Orders -> PaymentRow]
  BY DEF Consistent, TypeOK
<1>2. CASE o # x \/ UNCHANGED payment
  BY <1>1, <1>2 DEF CreateOrder, Initiate, InitiateSettled, InitiateReuse,
     InitiateNew
<1>3. CASE o = x /\ CreateOrder(x)
  <2>1. payment'[o] = FreshPayment
    BY <1>1, <1>3 DEF CreateOrder
  <2>2. payment[o].txn = None
    BY <1>3 DEF CreateOrder, Consistent, TransactionsNotShared
  <2>3. QED
    BY <2>1, <2>2 DEF FreshPayment
<1>4. ASSUME o = x, NEW g \in Gateways, NEW t \in Txns, InitiateNew(x, g, t)
      PROVE  /\ payment'[o].status = "pending"
             /\ payment'[o].gateway = g
             /\ ~LiveAt(o, g)
  BY <1>1, <1>4 DEF InitiateNew
<1>5. QED
  BY <1>2, <1>3, <1>4 DEF Initiate, InitiateSettled, InitiateReuse, LiveAt

\* What the finalization does to payments: only that of its order, only when
\* the verified transaction is still the current one, and only its status.
LEMMA FinalizeSettles ==
    ASSUME Consistent, NEW h \in Handlers, Finalize(h), NEW o \in Orders,
           payment'[o] # payment[o]
    PROVE  /\ o = handler[h].order /\ Current(h) /\ handler'[h] = Idle
           /\ payment'[o].txn = payment[o].txn
<1>1. /\ payment \in [Orders -> PaymentRow]
      /\ handler \in [Handlers -> HandlerState]
  BY DEF Consistent, TypeOK
<1>2. /\ Current(h)
      /\ handler' = [handler EXCEPT ![h] = Idle]
      /\ \E s \in {"failed", "success"} :
            payment' = [payment EXCEPT ![handler[h].order] = [@ EXCEPT !.status = s]]
  BY DEF Finalize, AlreadySettled, RecordFailure, Fulfil, RecordUnfulfilled,
     RejectStale, SettledPayment, orderVars
<1>3. o = handler[h].order
  BY <1>1, <1>2
<1>4. QED
  BY <1>1, <1>2, <1>3 DEF PaymentRow

\* A payment is settled, or found to have failed, only by a verification of
\* the transaction it still stands on.
THEOREM CurrentSettles == Spec => OnlyCurrentSettles
<1>1. ASSUME Consistent, [Next]_vars, NEW o \in Orders,
             payment'[o].status \in {"success", "failed"},
             payment'[o].status # payment[o].status
      PROVE  /\ payment'[o].txn = payment[o].txn
             /\ \E h \in Handlers : /\ handler[h].pc = "finalize"
                                    /\ handler[h].txn = payment[o].txn
                                    /\ handler'[h] = Idle
  <2>1. \E h \in Handlers : Finalize(h)
    BY <1>1, OutsideFinalize, InitiateKeeps
  <2>2. PICK h \in Handlers : Finalize(h)
    BY <2>1
  <2>3. /\ o = handler[h].order /\ Current(h) /\ handler'[h] = Idle
        /\ payment'[o].txn = payment[o].txn
    BY <1>1, <2>2, FinalizeSettles
  <2>4. QED
    BY <2>3 DEF Current
<1>2. Consistent /\ [Next]_vars =>
        [\A o \in Orders :
           payment'[o].status \in {"success", "failed"}
           /\ payment'[o].status # payment[o].status =>
              /\ payment'[o].txn = payment[o].txn
              /\ \E h \in Handlers : /\ handler[h].pc = "finalize"
                                     /\ handler[h].txn = payment[o].txn
                                     /\ handler'[h] = Idle]_vars
  BY <1>1
<1>3. QED
  BY <1>2, AlwaysConsistent, PTL DEF Spec, OnlyCurrentSettles

\* A transaction a customer may be paying is reused, not replaced, by another
\* initiation at its gateway.
THEOREM LiveTransactionReused == Spec => LiveTransactionKept
<1>1. ASSUME Consistent, [Next]_vars, NEW o \in Orders,
             payment[o].status = "pending", payment[o].txn # None,
             payment'[o].gateway = payment[o].gateway
      PROVE  payment'[o].txn = payment[o].txn
  <2>1. CASE \E x \in Orders : CreateOrder(x) \/ Initiate(x)
    BY <1>1, <2>1, InitiateKeeps
  <2>2. CASE \E h \in Handlers : Finalize(h)
    BY <1>1, <2>2, FinalizeSettles
  <2>3. QED
    BY <1>1, <2>1, <2>2, OutsideFinalize
<1>2. Consistent /\ [Next]_vars =>
        [\A o \in Orders :
           payment[o].status = "pending" /\ payment[o].txn # None
           /\ payment'[o].gateway = payment[o].gateway =>
              payment'[o].txn = payment[o].txn]_vars
  BY <1>1
<1>3. QED
  BY <1>2, AlwaysConsistent, PTL DEF Spec, LiveTransactionKept

\* A finalization moves a payable order to paid or cancelled, and no other.
LEMMA FinalizeMoves ==
    ASSUME Consistent, NEW h \in Handlers, Finalize(h), NEW o \in Orders,
           status'[o] # status[o]
    PROVE  status[o] \in Payable /\ status'[o] \in {"paid", "cancelled"}
<1>1. /\ status \in [Orders -> OrderStatus]
      /\ handler[h].pc # "idle" => handler[h].order \in Orders
      /\ \A x \in Orders : stockReduced[x] <=> status[x] \in Fulfilled
      /\ \A x \in Orders : status[x] = "absent" => payment[x].txn = None
  BY DEF Consistent, TypeOK, FulfilmentBacked, HandlerKnows,
     TransactionsNotShared
<1>2. CASE AlreadySettled(h)
  BY <1>1, <1>2 DEF AlreadySettled, QuarantinedStatus
<1>3. CASE Fulfil(h)
  BY <1>1, <1>3 DEF Fulfil
<1>4. CASE RecordUnfulfilled(h)
  <2>1. o = handler[h].order /\ status'[o] = "cancelled"
    BY <1>1, <1>4 DEF RecordUnfulfilled
  <2>2. status[o] # "cancelled" /\ (stockReduced[o] => status[o] \in Payable)
    BY <1>1, <1>4, <2>1 DEF RecordUnfulfilled
  <2>3. status[o] # "absent"
    <3>1. Current(h) /\ handler[h].txn \in Txns
      BY <1>4 DEF RecordUnfulfilled, Current, Consistent, HandlerKnows
    <3>2. payment[o].txn # None
      BY <2>1, <3>1, SettlementConstants DEF Current
    <3>3. QED
      BY <1>1, <3>2
  <2>4. QED
    BY <1>1, <2>1, <2>2, <2>3 DEF OrderStatus, Fulfilled, Payable
<1>5. QED
  BY <1>2, <1>3, <1>4 DEF Finalize, RecordFailure, RejectStale, orderVars

\* Cancelled and completed orders stay, and no order skips a stage of its life.
THEOREM OrdersKeepTheirLifeCycle == Spec => StatusLifeCycle
<1> DEFINE Stages == {<<"absent", "pending">>, <<"placed", "pending">>,
                      <<"pending", "paid">>, <<"placed", "paid">>,
                      <<"pending", "cancelled">>, <<"placed", "cancelled">>,
                      <<"paid", "processing">>, <<"processing", "completed">>}
<1>1. ASSUME Consistent, [Next]_vars, NEW o \in Orders, status'[o] # status[o]
      PROVE  <<status[o], status'[o]>> \in Stages
  <2> status \in [Orders -> OrderStatus]
    BY <1>1 DEF Consistent, TypeOK
  <2>1. CASE \E h \in Handlers : Finalize(h)
    BY <1>1, <2>1, FinalizeMoves DEF Payable
  <2>2. CASE \E x \in Orders : CreateOrder(x) \/ Initiate(x)
    <3>1. PICK x \in Orders : CreateOrder(x) \/ Initiate(x)
      BY <2>2
    <3>2. SettledNotPayable
      BY <1>1 DEF Consistent
    <3>3. QED
      BY <1>1, <3>1, <3>2 DEF CreateOrder, Initiate, InitiateSettled,
         InitiateReuse, InitiateNew, SettledNotPayable, Payable
  <2>3. CASE \E x \in Orders, new \in OrderStatus : TransitionStatus(x, new)
    BY <1>1, <2>3 DEF TransitionStatus, Payable
  <2>4. CASE \/ \E t \in Txns : CustomerPays(t)
             \/ \E h \in Handlers, g \in Gateways, t \in Txns,
                   claim \in BOOLEAN : ReceiveCallback(h, g, t, claim)
             \/ \E h \in Handlers : Verify(h) \/ Recheck(h) \/ Abandon(h)
    BY <1>1, <2>4 DEF CustomerPays, ReceiveCallback, Verify, Recheck, Abandon,
       orderVars
  <2>5. CASE \/ \E p \in Products, n \in OperatorQty :
                  AdjustStock(p, n) \/ PhysicalCount(p, n)
             \/ \E p \in Products : SetActive(p) \/ DeleteProduct(p)
    BY <1>1, <2>5 DEF AdjustStock, PhysicalCount, ManualMovement, SetActive,
       DeleteProduct, orderVars
  <2>6. CASE UNCHANGED vars
    BY <1>1, <2>6 DEF vars
  <2>7. QED
    BY <1>1, <2>1, <2>2, <2>3, <2>4, <2>5, <2>6 DEF Next, BackOffice
<1>2. Consistent /\ [Next]_vars =>
        [\A o \in Orders : status'[o] # status[o] =>
            <<status[o], status'[o]>> \in Stages]_vars
  BY <1>1
<1>3. QED
  BY <1>2, AlwaysConsistent, PTL DEF Spec, StatusLifeCycle

-----------------------------------------------------------------------------
(* Payments implements OrderSettlement: every step of the settlement code    *)
(* is, seen through Phase, one step of the abstract order or none.           *)


\* A step that changes neither status nor the success of a payment, nor the
\* stock, is not visible in the abstract state.
LEMMA Invisible ==
    ASSUME \A o \in Orders : Phase(o)' = Phase(o), UNCHANGED stock
    PROVE  [Settlement!Next]_(Settlement!vars)
<1>1. [o \in Orders |-> Phase(o)]' = [o \in Orders |-> Phase(o)]
  OBVIOUS
<1>2. QED
  BY <1>1 DEF Settlement!vars

\* The abstract order of one order changes alone.
LEMMA PhaseOf ==
    ASSUME NEW o \in Orders, NEW new, Phase(o)' = new,
           \A x \in Orders : x # o => Phase(x)' = Phase(x)
    PROVE  [x \in Orders |-> Phase(x)]' =
           [[x \in Orders |-> Phase(x)] EXCEPT ![o] = new]
OBVIOUS

LEMMA InitRefines == Init => Settlement!Init
<1> SUFFICES ASSUME Init PROVE Settlement!Init
  OBVIOUS
<1>1. \A o \in Orders : Phase(o) = IF o \in Legacy THEN "awaiting" ELSE "unplaced"
  BY DEF Init, Phase, Payable
<1>2. QED
  BY <1>1 DEF Init, Settlement!Init

\* create_order is the abstract Place.
LEMMA CreateOrderRefines ==
    ASSUME Consistent, NEW o \in Orders, CreateOrder(o)
    PROVE  Settlement!Place(o)
<1> USE SettlementConstants DEF CreateOrder, goodsVars
<1>1. \A p \in Products : Qty[o][p] <= stock[p]
  <2> SUFFICES ASSUME NEW p \in Products PROVE Qty[o][p] <= stock[p]
    OBVIOUS
  <2>1. Qty[o] \in [Products -> Nat]
    OBVIOUS
  <2>2. Qty[o][p] \in Nat /\ stock[p] \in Nat
    BY <2>1 DEF Consistent, TypeOK
  <2>3. p \in Lines(o) \/ Qty[o][p] = 0
    BY <2>2 DEF Lines
  <2>4. QED
    BY <2>2, <2>3
<1>2. Phase(o) = "unplaced" /\ Phase(o)' = "awaiting"
  BY DEF Phase, Payable, Consistent, TypeOK
<1>3. \A x \in Orders : x # o => Phase(x)' = Phase(x)
  BY DEF Phase, Consistent, TypeOK
<1>4. QED
  BY <1>1, <1>2, <1>3, PhaseOf DEF Settlement!Place

\* Opening a payment again changes pending, placed and the transaction; none
\* of it shows.
LEMMA InitiateRefines ==
    ASSUME Consistent, NEW o \in Orders, Initiate(o)
    PROVE  [Settlement!Next]_(Settlement!vars)
<1> USE DEF goodsVars, orderVars, providerVars
<1>1. CASE InitiateSettled(o)
  BY <1>1 DEF InitiateSettled, Consistent, SettledNotPayable
<1>2. ASSUME NEW g \in Gateways, InitiateReuse(o, g)
      PROVE  [Settlement!Next]_(Settlement!vars)
  <2>1. \A x \in Orders : Phase(x)' = Phase(x)
    BY <1>2 DEF InitiateReuse, Phase, Payable, Consistent, TypeOK
  <2>2. QED
    BY <1>2, <2>1, Invisible DEF InitiateReuse
<1>3. ASSUME NEW g \in Gateways, NEW t \in Txns, InitiateNew(o, g, t)
      PROVE  [Settlement!Next]_(Settlement!vars)
  <2>1. \A x \in Orders : Phase(x)' = Phase(x)
    BY <1>3 DEF InitiateNew, Phase, Payable, Consistent, TypeOK
  <2>2. QED
    BY <1>3, <2>1, Invisible DEF InitiateNew
<1>4. QED
  BY <1>1, <1>2, <1>3 DEF Initiate

\* A refusal is recorded on a payment that has not succeeded.
LEMMA RecordFailureRefines ==
    ASSUME Consistent, NEW h \in Handlers, RecordFailure(h)
    PROVE  [Settlement!Next]_(Settlement!vars)
<1> DEFINE o == handler[h].order
           row == [payment[o] EXCEPT !.status = "failed"]
<1>1. /\ payment' = [payment EXCEPT ![o] = row]
      /\ payment[o].status # "success"
      /\ UNCHANGED <<status, stock>>
  BY DEF RecordFailure, Current, goodsVars
<1>2. payment \in [Orders -> PaymentRow]
  BY DEF Consistent, TypeOK
<1>3. o \in Orders => row.status = "failed"
  BY <1>2 DEF PaymentRow
<1> HIDE DEF o, row
<1>4. \A x \in Orders : Phase(x)' = Phase(x)
  BY <1>1, <1>2, <1>3 DEF Phase
<1>5. QED
  BY <1>1, <1>4, Invisible

\* A verified success with goods to deliver is the abstract Fulfil.
LEMMA FulfilRefines ==
    ASSUME Consistent, NEW h \in Handlers, Fulfil(h),
           NEW o \in Orders, o = handler[h].order
    PROVE  Settlement!Fulfil(o)
<1> USE SettlementConstants
<1> DEFINE row == [payment[o] EXCEPT !.status = "success"]
<1>1. /\ payment' = [payment EXCEPT ![o] = row]
      /\ ~stockReduced[o]
      /\ status[o] # "cancelled"
      /\ stock' = ReducedStock(o)
      /\ status' = [status EXCEPT ![o] = IF status[o] \in Payable THEN "paid" ELSE @]
      /\ \A p \in Lines(o) : Qty[o][p] <= stock[p]
      /\ payment[o].txn = handler[h].txn
      /\ handler[h].txn \in Txns
  BY DEF Fulfil, SettledPayment, CanFulfil, Current, Consistent, HandlerKnows
<1>2. /\ payment \in [Orders -> PaymentRow]
      /\ status \in [Orders -> OrderStatus]
      /\ stock \in [Products -> 0..MaxStock]
  BY DEF Consistent, TypeOK
<1>3. status[o] # "absent"
  BY <1>1 DEF Consistent, TransactionsNotShared
<1>4. stockReduced[o] <=> status[o] \in Fulfilled
  BY DEF Consistent, FulfilmentBacked
<1>5. row.status = "success"
  BY <1>2 DEF PaymentRow
<1> HIDE DEF row
<1>6. status[o] \in Payable
  BY <1>1, <1>2, <1>3, <1>4 DEF OrderStatus
<1>7. Phase(o) = "awaiting" /\ Phase(o)' = "fulfilled"
  BY <1>1, <1>2, <1>5, <1>6 DEF Phase, Payable, Fulfilled
<1>8. \A x \in Orders : x # o => Phase(x)' = Phase(x)
  BY <1>1, <1>2 DEF Phase
<1>9. ASSUME NEW p \in Products
      PROVE  /\ Qty[o][p] <= stock[p]
             /\ ReducedStock(o)[p] = stock[p] - Qty[o][p]
  <2>1. Qty[o] \in [Products -> Nat]
    OBVIOUS
  <2>2. Qty[o][p] \in Nat /\ stock[p] \in Nat
    BY <2>1, <1>2
  <2>3. p \in Lines(o) \/ Qty[o][p] = 0
    BY <2>2 DEF Lines
  <2>4. QED
    BY <2>2, <2>3, <1>1 DEF ReducedStock
<1>10. ReducedStock(o) = [p \in Products |-> stock[p] - Qty[o][p]]
  <2>1. ReducedStock(o) = [p \in Products |-> ReducedStock(o)[p]]
    BY DEF ReducedStock
  <2>2. QED
    BY <2>1, <1>9
<1>11. QED
  BY <1>1, <1>7, <1>8, <1>9, <1>10, PhaseOf DEF Settlement!Fulfil

\* A verified success without goods to deliver is the abstract OweRefund.
LEMMA RecordUnfulfilledRefines ==
    ASSUME Consistent, NEW h \in Handlers, RecordUnfulfilled(h),
           NEW o \in Orders, o = handler[h].order
    PROVE  Settlement!OweRefund(o)
<1> DEFINE row == [payment[o] EXCEPT !.status = "success"]
<1>1. /\ payment \in [Orders -> PaymentRow]
      /\ status \in [Orders -> OrderStatus]
      /\ stockReduced[o] <=> status[o] \in Fulfilled
      /\ stockReduced[o] => payment[o].status = "success"
      /\ payment[o].status # "success"
      /\ payment[o].txn # None => status[o] # "absent"
      /\ payment[o].txn = handler[h].txn /\ handler[h].txn \in Txns
  BY DEF RecordUnfulfilled, Current, Consistent, TypeOK, FulfilmentBacked,
         TransactionsNotShared, HandlerKnows
<1>2. /\ payment' = [payment EXCEPT ![o] = row]
      /\ status' = [status EXCEPT ![o] = "cancelled"]
      /\ UNCHANGED stock
  BY <1>1 DEF RecordUnfulfilled, SettledPayment, goodsVars
<1>3. status[o] \in Payable \cup {"cancelled"}
  BY <1>1, SettlementConstants DEF OrderStatus
<1>4. row.status = "success"
  BY <1>1 DEF PaymentRow
<1> HIDE DEF row
<1>5. Phase(o) \in {"awaiting", "cancelled"} /\ Phase(o)' = "refund"
  BY <1>1, <1>2, <1>3, <1>4 DEF Phase, Payable, Fulfilled
<1>6. \A x \in Orders : x # o => Phase(x)' = Phase(x)
  BY <1>1, <1>2 DEF Phase
<1>7. QED
  BY <1>2, <1>5, <1>6, PhaseOf DEF Settlement!OweRefund

\* Of the status changes only a cancellation shows.
LEMMA TransitionStatusRefines ==
    ASSUME Consistent, NEW o \in Orders, NEW new \in OrderStatus,
           TransitionStatus(o, new)
    PROVE  [Settlement!Next]_(Settlement!vars)
<1> USE DEF goodsVars, Consistent, TypeOK
<1>1. CASE new = "cancelled"
  <2>1. Phase(o) = "awaiting" /\ Phase(o)' = "cancelled"
    BY <1>1 DEF TransitionStatus, Phase, Payable, Fulfilled
  <2>2. \A x \in Orders : x # o => Phase(x)' = Phase(x)
    BY DEF TransitionStatus, Phase
  <2>3. Settlement!Cancel(o)
    BY <2>1, <2>2, PhaseOf DEF TransitionStatus, Settlement!Cancel
  <2>4. QED
    BY <2>3 DEF Settlement!Next
<1>2. CASE new # "cancelled"
  <2>1. \A x \in Orders : Phase(x)' = Phase(x)
    BY <1>2 DEF TransitionStatus, Phase, Payable, Fulfilled
  <2>2. QED
    BY <2>1, Invisible DEF TransitionStatus
<1>3. QED
  BY <1>1, <1>2

\* A manual movement is a Restock within bounds.
LEMMA ManualMovementRefines ==
    ASSUME Consistent, NEW p \in Products, NEW delta, NEW source,
           ManualMovement(p, delta, source)
    PROVE  [Settlement!Next]_(Settlement!vars)
<1>1. stock[p] + delta \in 0..MaxStock
  BY DEF ManualMovement
<1>2. \A x \in Orders : Phase(x)' = Phase(x)
  BY DEF ManualMovement, orderVars, Phase
<1>3. Settlement!Restock(p, stock[p] + delta)
  BY <1>2 DEF ManualMovement, Settlement!Restock
<1>4. QED
  BY <1>1, <1>3 DEF Settlement!Next

\* The callback's own bookkeeping shows nothing.
LEMMA QuietSteps ==
    ASSUME UNCHANGED <<orderVars, stock>>
    PROVE  [Settlement!Next]_(Settlement!vars)
<1>1. \A x \in Orders : Phase(x)' = Phase(x)
  BY DEF orderVars, Phase
<1>2. QED
  BY <1>1, Invisible

LEMMA FinalizeRefines ==
    ASSUME Consistent, NEW h \in Handlers, Finalize(h)
    PROVE  [Settlement!Next]_(Settlement!vars)
<1>1. CASE AlreadySettled(h)
  <2>1. payment[handler[h].order].status = "success" /\ handler[h].order \in Orders
    BY <1>1 DEF AlreadySettled, Consistent, HandlerKnows
  <2>2. status' = status
    BY <1>1, <2>1 DEF AlreadySettled, QuarantinedStatus, Consistent,
                      SettledNotPayable, TypeOK
  <2>3. QED
    BY <1>1, <2>2, QuietSteps DEF AlreadySettled, orderVars, goodsVars
<1>2. CASE RecordFailure(h)
  BY <1>2, RecordFailureRefines
<1>3. CASE Fulfil(h)
  <2>1. handler[h].order \in Orders
    BY <1>3 DEF Fulfil, Current, Consistent, HandlerKnows
  <2>2. QED
    BY <1>3, <2>1, FulfilRefines DEF Settlement!Next
<1>4. CASE RecordUnfulfilled(h)
  <2>1. handler[h].order \in Orders
    BY <1>4 DEF RecordUnfulfilled, Current, Consistent, HandlerKnows
  <2>2. QED
    BY <1>4, <2>1, RecordUnfulfilledRefines DEF Settlement!Next
<1>5. CASE RejectStale(h)
  BY <1>5, QuietSteps DEF RejectStale, goodsVars
<1>6. QED
  BY <1>1, <1>2, <1>3, <1>4, <1>5 DEF Finalize

LEMMA BackOfficeRefines ==
    ASSUME Consistent, BackOffice
    PROVE  [Settlement!Next]_(Settlement!vars)
<1>1. CASE \E o \in Orders, new \in OrderStatus : TransitionStatus(o, new)
  BY <1>1, TransitionStatusRefines
<1>2. CASE \E p \in Products, n \in OperatorQty :
              AdjustStock(p, n) \/ PhysicalCount(p, n)
  BY <1>2, ManualMovementRefines DEF AdjustStock, PhysicalCount
<1>3. CASE \E p \in Products : SetActive(p) \/ DeleteProduct(p)
  BY <1>3, QuietSteps DEF SetActive, DeleteProduct
<1>4. QED
  BY <1>1, <1>2, <1>3 DEF BackOffice

LEMMA StepRefines ==
    ASSUME Consistent, [Next]_vars
    PROVE  [Settlement!Next]_(Settlement!vars)
<1>1. CASE \E o \in Orders : CreateOrder(o)
  BY <1>1, CreateOrderRefines DEF Settlement!Next
<1>2. CASE \E o \in Orders : Initiate(o)
  BY <1>2, InitiateRefines
<1>3. CASE \E t \in Txns : CustomerPays(t)
  BY <1>3, QuietSteps DEF CustomerPays, goodsVars
<1>4. CASE \E h \in Handlers, g \in Gateways, t \in Txns, claim \in BOOLEAN :
              ReceiveCallback(h, g, t, claim)
  BY <1>4, QuietSteps DEF ReceiveCallback, goodsVars
<1>5. CASE \E h \in Handlers : Verify(h) \/ Recheck(h) \/ Abandon(h)
  BY <1>5, QuietSteps DEF Verify, Recheck, Abandon, goodsVars
<1>6. CASE \E h \in Handlers : Finalize(h)
  BY <1>6, FinalizeRefines
<1>7. CASE BackOffice
  BY <1>7, BackOfficeRefines
<1>8. CASE UNCHANGED vars
  BY <1>8, QuietSteps DEF vars, orderVars
<1>9. QED
  BY <1>1, <1>2, <1>3, <1>4, <1>5, <1>6, <1>7, <1>8 DEF Next

\* The whole settlement code implements OrderSettlement: seen through Phase,
\* whatever callbacks, retries, cancellations and stock corrections interleave,
\* an order's goods leave the stock in one step, for an order nobody cancelled.
THEOREM SettlementImplemented == Spec => ImplementsSettlement
<1>1. Consistent /\ [Next]_vars => [Settlement!Next]_(Settlement!vars)
  BY StepRefines
<1>2. QED
  BY <1>1, InitRefines, AlwaysConsistent, PTL
     DEF Spec, ImplementsSettlement, Settlement!Spec
=============================================================================
