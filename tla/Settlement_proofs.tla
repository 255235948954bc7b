------------------------- MODULE Settlement_proofs --------------------------
(***************************************************************************)
(* Order settlement beside what the other actors do.  Module Gateway: each *)
(* step of the conversation with the gateway is shown to be a step of      *)
(* Payments or to leave its variables alone, and to keep GatewayConsistent;*)
(* both need the invariants of Payments, which hold because every step so  *)
(* far has been one of Payments.  Module OrderDesk: what survives an order *)
(* form that writes stale rows back.                                       *)
(***************************************************************************)
EXTENDS Gateway, OrderDesk, Payments_proofs

-----------------------------------------------------------------------------
(* The conversation with the gateway *)

\* Nothing has been asked for and nobody is waiting.
LEMMA GatewayInitConsistent == GatewayInit => GatewayConsistent
<1> SUFFICES ASSUME GatewayInit PROVE GatewayConsistent
  OBVIOUS
<1> USE SettlementConstants, GatewayConstants DEF GatewayInit, Init
<1>1. ASSUME NEW o \in Orders
      PROVE  payment[o].txn = None
  <2>1. payment[o] \in {NoPayment, FreshPayment}
    OBVIOUS
  <2>2. QED
    BY <2>1 DEF NoPayment, FreshPayment
<1>2. GatewayTypeOK
  BY DEF GatewayTypeOK, NotStarting, NoSession
<1>3. ProviderAgrees
  BY <1>1 DEF ProviderAgrees
<1>4. StartInv
  BY DEF StartInv, Unlocked
<1>5. SeenInv
  BY DEF SeenInv, Idle
<1>6. IssuedInv
  BY DEF IssuedInv
<1>7. QED
  BY <1>2, <1>3, <1>4, <1>5, <1>6 DEF GatewayConsistent

\* A session names its order, so it is not an unused one, and what was asked.
LEMMA SessionFacts ==
    ASSUME NEW o \in Orders, NEW n \in Nat
    PROVE  /\ Session(o, n).order = o
           /\ Session(o, n).asked = ApiAmount(n)
           /\ Session(o, n) # NoSession
           /\ Session(o, n) \in [order : Orders \cup {None}, asked : Nat]
BY SettlementConstants, GatewayConstants DEF Session, NoSession, ApiAmount

-----------------------------------------------------------------------------
(* Steps that leave parts of the state alone. *)

\* The rows, the sessions and the open initiations untouched, a request that
\* keeps what it knows or ends keeps everything consistent.
LEMMA CallbackFrame ==
    ASSUME GatewayConsistent, TypeOK, NEW h \in Handlers, NEW v,
           UNCHANGED <<orderVars, issued, due, amount, starting, session, seen>>,
           verified' \subseteq Txns,
           handler' = [handler EXCEPT ![h] = v],
           v.pc # "idle" => /\ handler[h].pc # "idle"
                            /\ v.order = handler[h].order
                            /\ v.txn = handler[h].txn
    PROVE  GatewayConsistent'
<1> USE DEF GatewayConsistent, orderVars
<1>1. GatewayTypeOK' /\ ProviderAgrees' /\ IssuedInv'
  BY DEF GatewayTypeOK, ProviderAgrees, IssuedInv
<1>2. StartInv'
  BY DEF StartInv, Open, Unlocked, LiveAt
<1>3. SeenInv'
  <2> SUFFICES ASSUME NEW x \in Handlers, handler'[x].pc # "idle"
               PROVE  /\ handler'[x].txn \in Txns
                      /\ handler'[x].order \in Orders
                      /\ session[handler'[x].txn] =
                            Session(handler'[x].order, seen[x])
    BY DEF SeenInv
  <2>1. CASE x = h
    BY <2>1 DEF SeenInv, TypeOK
  <2>2. CASE x # h
    BY <2>2 DEF SeenInv, TypeOK
  <2>3. QED
    BY <2>1, <2>2
<1>4. QED
  BY <1>1, <1>2, <1>3

\* The decision of a callback changes one payment's status, not what it is for,
\* and only where no initiation is open.
LEMMA DecisionFrame ==
    ASSUME GatewayConsistent, TypeOK, NEW o \in Orders, Unlocked(o),
           UNCHANGED <<issued, wireVars>>,
           \A x \in Orders : x # o => payment'[x] = payment[x] /\ status'[x] = status[x],
           payment'[o].txn = payment[o].txn,
           NEW h \in Handlers, handler' = [handler EXCEPT ![h] = Idle]
    PROVE  GatewayConsistent'
<1> USE DEF GatewayConsistent, wireVars
<1>1. GatewayTypeOK' /\ IssuedInv'
  BY DEF GatewayTypeOK, IssuedInv
<1>2. ProviderAgrees'
  BY DEF ProviderAgrees
<1>3. StartInv'
  BY DEF StartInv, Open, Unlocked, LiveAt
<1>4. SeenInv'
  BY DEF SeenInv, TypeOK, Idle
<1>5. QED
  BY <1>1, <1>2, <1>3, <1>4

\* Nothing that GatewayConsistent looks at has changed.
LEMMA UntouchedFrame ==
    ASSUME GatewayConsistent,
           UNCHANGED <<payment, status, issued, handler, amount, starting,
                       session, seen>>,
           due' \in [Orders -> Amounts], verified' \subseteq Txns
    PROVE  GatewayConsistent'
BY DEF GatewayConsistent, GatewayTypeOK, ProviderAgrees, StartInv, SeenInv,
   IssuedInv, Unlocked, Open, LiveAt

-----------------------------------------------------------------------------
(* The start of a payment. *)

\* Resetting the row, uncommitted.
LEMMA BeginPaymentStep ==
    ASSUME GatewayConsistent, NEW o \in Orders, NEW g \in Gateways,
           BeginPayment(o, g)
    PROVE  UNCHANGED vars /\ GatewayConsistent'
<1> USE DEF GatewayConsistent, BeginPayment, vars
<1>1. GatewayTypeOK' /\ ProviderAgrees' /\ SeenInv' /\ IssuedInv'
  BY GatewayConstants DEF GatewayTypeOK, ProviderAgrees, SeenInv, IssuedInv
<1>2. StartInv'
  <2> SUFFICES ASSUME NEW x \in Orders, ~Unlocked(x)' PROVE Open(x)'
    BY DEF StartInv
  <2>1. CASE x = o
    BY <2>1 DEF GatewayTypeOK, Open, LiveAt
  <2>2. CASE x # o
    BY <2>2 DEF GatewayTypeOK, StartInv, Unlocked, Open, LiveAt
  <2>3. QED
    BY <2>1, <2>2
<1>3. QED
  BY <1>1, <1>2

\* A fresh session is nobody's current transaction.
LEMMA ProviderIssuesStep ==
    ASSUME GatewayConsistent, NEW o \in Orders, NEW t \in Txns,
           ProviderIssues(o, t)
    PROVE  UNCHANGED vars /\ GatewayConsistent'
<1> USE DEF GatewayConsistent, ProviderIssues, vars
<1>1. /\ \A x \in Txns : x # t => session'[x] = session[x]
      /\ session'[t] = Session(o, starting[o].amount)
      /\ session[t] = NoSession
      /\ \A x \in Orders : x # o => starting'[x] = starting[x]
      /\ starting[o].amount \in Nat
  BY DEF GatewayTypeOK
<1>2. GatewayTypeOK'
  <2>1. session' \in [Txns -> [order : Orders \cup {None}, asked : Nat]]
    BY <1>1, SessionFacts DEF GatewayTypeOK
  <2>2. QED
    BY <2>1 DEF GatewayTypeOK
<1>3. ProviderAgrees'
  <2>1. ASSUME NEW x \in Orders, payment[x].txn # None
        PROVE  session'[payment[x].txn] = session[payment[x].txn]
    <3>1. session[payment[x].txn] = Session(x, amount[x]) /\ amount[x] \in Nat
      BY <2>1 DEF ProviderAgrees, GatewayTypeOK
    <3>2. payment[x].txn # t
      BY <1>1, <3>1, SessionFacts
    <3>3. QED
      BY <3>2 DEF GatewayTypeOK
  <2>2. QED
    BY <2>1 DEF ProviderAgrees
<1>4. SeenInv'
  <2>1. ASSUME NEW h \in Handlers, handler[h].pc # "idle"
        PROVE  handler[h].txn # t
    <3>1. /\ session[handler[h].txn] = Session(handler[h].order, seen[h])
          /\ handler[h].order \in Orders
          /\ seen[h] \in Nat
      BY <2>1 DEF SeenInv, GatewayTypeOK
    <3>2. QED
      BY <1>1, <3>1, SessionFacts
  <2>2. QED
    BY <1>1, <2>1 DEF SeenInv
<1>5. IssuedInv'
  BY <1>1, SessionFacts DEF IssuedInv
<1>6. issued[t] = None
  BY <1>1 DEF IssuedInv
<1>7. StartInv'
  <2> SUFFICES ASSUME NEW x \in Orders, ~Unlocked(x)' PROVE Open(x)'
    BY DEF StartInv
  <2>1. CASE x = o
    <3>1. Open(o)
      BY DEF StartInv, Unlocked, NotStarting
    <3>2. /\ starting'[o].pc = "answered"
          /\ starting'[o].gateway = starting[o].gateway
          /\ starting'[o].txn = t
          /\ starting'[o].amount = starting[o].amount
      BY DEF GatewayTypeOK
    <3>3. QED
      BY <1>1, <1>6, <2>1, <3>1, <3>2 DEF Open, LiveAt
  <2>2. CASE x # o
    <3>1. starting'[x] = starting[x] /\ Open(x) /\ starting[x].amount \in Nat
      BY <1>1, <2>2 DEF StartInv, Unlocked, GatewayTypeOK
    <3>2. starting[x].pc = "answered" => starting[x].txn # t
      BY <1>1, <3>1, SessionFacts DEF Open
    <3>3. QED
      BY <1>1, <3>1, <3>2 DEF Open, LiveAt
  <2>3. QED
    BY <2>1, <2>2
<1>8. QED
  BY <1>2, <1>3, <1>4, <1>5, <1>7

\* A rollback leaves the rows as they were.
LEMMA RollBackPaymentStep ==
    ASSUME GatewayConsistent, NEW o \in Orders, RollBackPayment(o)
    PROVE  UNCHANGED vars /\ GatewayConsistent'
<1> USE DEF GatewayConsistent, RollBackPayment, vars
<1>1. GatewayTypeOK' /\ ProviderAgrees' /\ SeenInv' /\ IssuedInv'
  BY DEF GatewayTypeOK, ProviderAgrees, SeenInv, IssuedInv, NotStarting
<1>2. StartInv'
  BY DEF StartInv, Open, GatewayTypeOK, Unlocked, LiveAt
<1>3. QED
  BY <1>1, <1>2

\* The commit is the one step of Payments, with a transaction nobody knows.
LEMMA CommitPaymentStep ==
    ASSUME GatewayConsistent, TypeOK, NEW o \in Orders, CommitPayment(o)
    PROVE  Next /\ GatewayConsistent'
<1> DEFINE t == starting[o].txn
           g == starting[o].gateway
<1> USE DEF GatewayConsistent, CommitPayment
<1>1. /\ g \in Gateways
      /\ t \in Txns
      /\ status[o] \in Payable
      /\ payment[o].status # "success"
      /\ ~LiveAt(o, g)
      /\ issued[t] = None
      /\ session[t] = Session(o, starting[o].amount)
      /\ starting[o].amount \in Nat
  BY DEF StartInv, Open, Unlocked, NotStarting, GatewayTypeOK
<1>2. InitiateNew(o, g, t)
  BY <1>1 DEF InitiateNew
<1>3. Next
  BY <1>1, <1>2 DEF Next, Initiate
<1>4. /\ payment'[o].txn = t
      /\ amount'[o] = starting[o].amount
      /\ issued'[t] = o
      /\ \A x \in Txns : x # t => issued'[x] = issued[x]
      /\ \A x \in Orders : x # o => /\ payment'[x] = payment[x]
                                    /\ amount'[x] = amount[x]
                                    /\ starting'[x] = starting[x]
                                    /\ status'[x] = status[x]
      /\ starting'[o] = NotStarting
  BY <1>1 DEF GatewayTypeOK, TypeOK
<1>5. GatewayTypeOK'
  BY DEF GatewayTypeOK, NotStarting
<1>6. ProviderAgrees'
  BY <1>1, <1>4 DEF ProviderAgrees
<1>7. SeenInv'
  BY DEF SeenInv
<1>8. IssuedInv'
  <2>1. session[t] # NoSession
    BY <1>1, SessionFacts
  <2>2. QED
    BY <1>4, <2>1 DEF IssuedInv
<1>9. StartInv'
  <2> SUFFICES ASSUME NEW x \in Orders, ~Unlocked(x)' PROVE Open(x)'
    BY DEF StartInv
  <2>1. x # o /\ ~Unlocked(x)
    BY <1>4 DEF Unlocked
  <2>2. ASSUME starting[x].pc = "answered" PROVE starting[x].txn # t
    <3>1. session[starting[x].txn] = Session(x, starting[x].amount)
          /\ starting[x].amount \in Nat
      BY <2>1, <2>2 DEF StartInv, Open, GatewayTypeOK
    <3>2. QED
      BY <1>1, <2>1, <3>1, SessionFacts
  <2>3. starting[x].pc = "answered" =>
           /\ starting[x].txn \in Txns
           /\ issued'[starting[x].txn] = issued[starting[x].txn]
    BY <1>4, <2>1, <2>2 DEF StartInv, Open
  <2>4. Open(x)
    BY <2>1 DEF StartInv
  <2>5. QED
    BY <1>4, <2>1, <2>3, <2>4 DEF Open, LiveAt
<1>10. QED
  BY <1>3, <1>5, <1>6, <1>7, <1>8, <1>9

\* Reuse and quarantine change the order's status alone, under its free lock.
LEMMA WithoutAskingStep ==
    ASSUME GatewayConsistent, TypeOK, NEW o \in Orders, WithoutAsking(o)
    PROVE  Next /\ GatewayConsistent'
<1> USE DEF GatewayConsistent, WithoutAsking, wireVars
<1>1. Next
  BY DEF Next, Initiate
<1>2. /\ UNCHANGED <<payment, issued, handler, wireVars>>
      /\ \A x \in Orders : x # o => status'[x] = status[x]
  BY DEF InitiateSettled, InitiateReuse, providerVars, TypeOK
<1>3. GatewayTypeOK' /\ ProviderAgrees' /\ SeenInv' /\ IssuedInv'
  BY <1>2 DEF GatewayTypeOK, ProviderAgrees, SeenInv, IssuedInv
<1>4. StartInv'
  BY <1>2 DEF StartInv, Open, Unlocked, LiveAt
<1>5. QED
  BY <1>1, <1>3, <1>4

-----------------------------------------------------------------------------
(* Callbacks. *)

\* What is read with the payment is what its transaction was issued for.
LEMMA LookUpStep ==
    ASSUME GatewayConsistent, TypeOK, NEW h \in Handlers, NEW g \in Gateways,
           NEW t \in Txns, NEW claim \in BOOLEAN, LookUp(h, g, t, claim)
    PROVE  Next /\ GatewayConsistent'
<1> USE DEF GatewayConsistent, LookUp
<1>1. Next
  BY DEF Next
<1>2. PICK o \in Orders :
         /\ payment[o].txn = t
         /\ handler' = [handler EXCEPT
               ![h] = [pc |-> IF payment[o].status = "success"
                              THEN "recheck" ELSE "verify",
                       order |-> o, gateway |-> g, txn |-> t, ok |-> claim]]
  BY DEF ReceiveCallback
<1>3. /\ handler'[h].order = o
      /\ handler'[h].txn = t
      /\ seen'[h] = amount[o]
      /\ \A x \in Handlers : x # h => handler'[x] = handler[x] /\ seen'[x] = seen[x]
  BY <1>2 DEF TypeOK, GatewayTypeOK
<1>4. UNCHANGED <<payment, status, issued>>
  BY DEF ReceiveCallback, orderVars, providerVars
<1>5. GatewayTypeOK'
  BY <1>2, <1>3 DEF GatewayTypeOK
<1>6. ProviderAgrees' /\ IssuedInv' /\ StartInv'
  BY <1>4 DEF ProviderAgrees, IssuedInv, StartInv, Open, Unlocked, LiveAt
<1>7. session[t] = Session(o, amount[o])
  BY <1>2, SettlementConstants DEF ProviderAgrees
<1>8. SeenInv'
  <2> SUFFICES ASSUME NEW x \in Handlers, handler'[x].pc # "idle"
               PROVE  /\ handler'[x].txn \in Txns
                      /\ handler'[x].order \in Orders
                      /\ session[handler'[x].txn] =
                            Session(handler'[x].order, seen'[x])
    BY DEF SeenInv
  <2>1. CASE x = h
    BY <1>2, <1>3, <1>7, <2>1
  <2>2. CASE x # h
    BY <1>3, <2>2 DEF SeenInv
  <2>3. QED
    BY <2>1, <2>2
<1>9. QED
  BY <1>1, <1>5, <1>6, <1>8

\* The provider confirms exactly the transactions that are paid: the amounts
\* it compares agree already.
LEMMA ProviderConfirms ==
    ASSUME GatewayConsistent, NEW h \in Handlers, handler[h].pc # "idle"
    PROVE  Confirms(h) <=> handler[h].txn \in charged
<1>1. session[handler[h].txn].asked = ApiAmount(seen[h])
  <2>1. /\ session[handler[h].txn] = Session(handler[h].order, seen[h])
        /\ handler[h].order \in Orders
        /\ seen[h] \in Nat
    BY DEF GatewayConsistent, SeenInv, GatewayTypeOK
  <2>2. QED
    BY <2>1, SessionFacts
<1>2. QED
  BY <1>1 DEF Confirms, Code

\* Going on with a verdict is the verification of Payments.
LEMMA VerdictStep ==
    ASSUME TypeOK, NEW h \in Handlers, Verifying(h), NEW ok \in BOOLEAN,
           ok = (handler[h].ok /\ handler[h].txn \in charged), GoOn(h, ok),
           UNCHANGED <<orderVars, goodsVars, providerVars>>
    PROVE  Verify(h) \/ Recheck(h)
<1>1. handler[h] \in HandlerState
  BY DEF TypeOK
<1>2. CASE handler[h].pc = "verify"
  <2>1. handler' = [handler EXCEPT ![h] = [handler[h] EXCEPT !.ok = ok,
                                                            !.pc = "finalize"]]
    BY <1>2 DEF GoOn
  <2>2. [handler[h] EXCEPT !.ok = ok, !.pc = "finalize"] =
        [handler[h] EXCEPT !.pc = "finalize", !.ok = ok]
    BY <1>1 DEF HandlerState
  <2>3. QED
    BY <1>2, <2>1, <2>2 DEF Verify
<1>3. CASE handler[h].pc = "recheck" /\ ok
  <2>1. handler' = [handler EXCEPT ![h] = [handler[h] EXCEPT !.ok = ok,
                                                            !.pc = "reconcile"]]
    BY <1>3 DEF GoOn
  <2>2. [handler[h] EXCEPT !.ok = ok, !.pc = "reconcile"] =
        [handler[h] EXCEPT !.pc = "reconcile"]
    BY <1>1, <1>3 DEF HandlerState
  <2>3. QED
    BY <1>3, <2>1, <2>2 DEF Recheck
<1>4. CASE handler[h].pc = "recheck" /\ ~ok
  BY <1>4 DEF GoOn, Recheck
<1>5. QED
  BY <1>2, <1>3, <1>4 DEF Verifying

\* A verification is one of Payments, or ends the request.
LEMMA VerificationStep ==
    ASSUME GatewayConsistent, TypeOK, NEW h \in Handlers,
           AskProvider(h) \/ BelieveRefusal(h) \/ CheckSignature(h)
    PROVE  Next /\ GatewayConsistent'
<1>1. /\ Verifying(h) /\ handler[h].pc # "idle"
      /\ UNCHANGED <<orderVars, goodsVars, providerVars, due, amount, starting,
                     session, seen>>
      /\ handler[h] \in HandlerState
      /\ handler[h].txn \in Txns
  BY DEF AskProvider, BelieveRefusal, CheckSignature, Verifying, wireVars,
     TypeOK, GatewayConsistent, SeenInv
<1>2. verified' \subseteq Txns
  <2>1. verified \subseteq Txns
    BY DEF GatewayConsistent, GatewayTypeOK
  <2>2. verified' \in {verified, verified \cup {handler[h].txn}}
    BY DEF AskProvider, BelieveRefusal, CheckSignature, wireVars
  <2>3. QED
    BY <1>1, <2>1, <2>2
<1>3. ASSUME NEW ok \in BOOLEAN, GoOn(h, ok) PROVE GatewayConsistent'
  <2> DEFINE v == IF handler[h].pc = "recheck" /\ ~ok THEN Idle
                  ELSE [handler[h] EXCEPT
                           !.ok = ok,
                           !.pc = IF handler[h].pc = "verify" THEN "finalize"
                                  ELSE "reconcile"]
  <2>1. handler' = [handler EXCEPT ![h] = v]
    BY <1>3 DEF GoOn
  <2>2. v.pc # "idle" => v.order = handler[h].order /\ v.txn = handler[h].txn
    BY <1>1 DEF HandlerState, Idle
  <2> HIDE DEF v
  <2>3. QED
    BY <1>1, <1>2, <2>1, <2>2, CallbackFrame DEF providerVars
<1>4. ASSUME handler' = [handler EXCEPT ![h] = Idle]
      PROVE  Abandon(h) /\ GatewayConsistent'
  <2>1. Idle.pc = "idle"
    BY DEF Idle
  <2>2. QED
    BY <1>1, <1>2, <1>4, <2>1, CallbackFrame DEF Abandon, providerVars
<1>5. ASSUME NEW ok \in BOOLEAN, GoOn(h, ok),
             ok = (handler[h].ok /\ handler[h].txn \in charged)
      PROVE  Next /\ GatewayConsistent'
  BY <1>1, <1>3, <1>5, VerdictStep DEF Next
<1>6. CASE AskProvider(h)
  <2>1. Confirms(h) \in BOOLEAN
    BY DEF Confirms
  <2>2. Confirms(h) = (handler[h].ok /\ handler[h].txn \in charged)
    BY <1>1, <1>6, <2>1, ProviderConfirms DEF AskProvider, HandlerState
  <2>3. QED
    BY <1>4, <1>5, <1>6, <2>1, <2>2 DEF AskProvider, Next
<1>7. CASE BelieveRefusal(h)
  <2>1. FALSE = (handler[h].ok /\ handler[h].txn \in charged)
    BY <1>7 DEF BelieveRefusal
  <2>2. QED
    BY <1>5, <1>7, <2>1 DEF BelieveRefusal
<1>8. CASE CheckSignature(h)
  <2>1. /\ handler[h].ok \in BOOLEAN
        /\ handler[h].ok = (handler[h].ok /\ handler[h].txn \in charged)
    BY <1>1, <1>8 DEF CheckSignature, HandlerState
  <2>2. QED
    BY <1>5, <1>8, <2>1 DEF CheckSignature
<1>9. QED
  BY <1>6, <1>7, <1>8

\* The decision under the locks is the one of Payments, and no initiation of
\* that order is open while it is made.
LEMMA FinalizePaymentStep ==
    ASSUME GatewayConsistent, TypeOK, NEW h \in Handlers, FinalizePayment(h)
    PROVE  Next /\ GatewayConsistent'
<1> DEFINE o == handler[h].order
<1> USE DEF FinalizePayment
<1>1. Next
  BY DEF Next, Finalize
<1>2. o \in Orders /\ Unlocked(o)
  BY DEF GatewayConsistent, SeenInv
<1>3. /\ UNCHANGED <<issued, wireVars>>
      /\ handler' = [handler EXCEPT ![h] = Idle]
  BY DEF AlreadySettled, RejectStale, RecordFailure, Fulfil, RecordUnfulfilled,
     providerVars
<1>4. /\ \A x \in Orders : x # o => payment'[x] = payment[x] /\ status'[x] = status[x]
      /\ payment'[o].txn = payment[o].txn
  <2>1. payment[o] \in PaymentRow
    BY <1>2 DEF TypeOK
  <2>2. CASE AlreadySettled(h) \/ RejectStale(h)
    BY <1>2, <2>2 DEF AlreadySettled, RejectStale, orderVars, TypeOK
  <2>3. CASE RecordFailure(h)
    BY <1>2, <2>1, <2>3 DEF RecordFailure, TypeOK, PaymentRow
  <2>4. CASE Fulfil(h)
    BY <1>2, <2>1, <2>4 DEF Fulfil, SettledPayment, TypeOK, PaymentRow
  <2>5. CASE RecordUnfulfilled(h)
    BY <1>2, <2>1, <2>5 DEF RecordUnfulfilled, SettledPayment, TypeOK, PaymentRow
  <2>6. QED
    BY <2>2, <2>3, <2>4, <2>5
<1>5. GatewayConsistent'
  BY <1>2, <1>3, <1>4, DecisionFrame
<1>6. QED
  BY <1>1, <1>5

\* A request that fails forgets what it knew.
LEMMA FailStep ==
    ASSUME GatewayConsistent, TypeOK, NEW h \in Handlers, Fail(h)
    PROVE  Next /\ GatewayConsistent'
<1>1. Next
  BY DEF Fail, Next
<1>2. /\ UNCHANGED <<orderVars, issued, wireVars>>
      /\ handler' = [handler EXCEPT ![h] = Idle]
      /\ Idle.pc = "idle"
  BY DEF Fail, Abandon, providerVars, Idle
<1>3. verified' \subseteq Txns
  BY <1>2 DEF wireVars, GatewayConsistent, GatewayTypeOK
<1>4. QED
  BY <1>1, <1>2, <1>3, CallbackFrame DEF wireVars

-----------------------------------------------------------------------------
(* The steps beside the conversation. *)

LEMMA PlaceOrderStep ==
    ASSUME Consistent, GatewayConsistent, NEW o \in Orders, PlaceOrder(o)
    PROVE  Next /\ GatewayConsistent'
<1> USE DEF GatewayConsistent, PlaceOrder
<1>1. Next
  BY DEF Next
<1>2. /\ status[o] = "absent"
      /\ payment' = [payment EXCEPT ![o] = FreshPayment]
      /\ status' = [status EXCEPT ![o] = "pending"]
      /\ UNCHANGED <<issued, handler, starting, session, seen, verified, due>>
  BY DEF CreateOrder, providerVars
<1>3. Unlocked(o)
  BY <1>2 DEF StartInv, Open, Payable
<1>4. /\ \A x \in Orders : x # o => /\ payment'[x] = payment[x]
                                    /\ amount'[x] = amount[x]
                                    /\ status'[x] = status[x]
      /\ payment'[o].txn = None
  BY <1>2 DEF Consistent, TypeOK, GatewayTypeOK, FreshPayment
<1>5. GatewayTypeOK'
  BY <1>2, GatewayConstants DEF GatewayTypeOK
<1>6. ProviderAgrees'
  BY <1>2, <1>4 DEF ProviderAgrees
<1>7. StartInv'
  BY <1>2, <1>3, <1>4 DEF StartInv, Open, Unlocked, LiveAt
<1>8. SeenInv' /\ IssuedInv'
  BY <1>2 DEF SeenInv, IssuedInv
<1>9. QED
  BY <1>1, <1>5, <1>6, <1>7, <1>8

LEMMA RecomputeStep ==
    ASSUME GatewayConsistent, NEW o \in Orders, Recompute(o)
    PROVE  UNCHANGED vars /\ GatewayConsistent'
<1>1. /\ UNCHANGED <<vars, amount, starting, session, verified, seen>>
      /\ due' \in [Orders -> Amounts]
  BY DEF Recompute
<1>2. verified' \subseteq Txns
  BY <1>1 DEF GatewayConsistent, GatewayTypeOK
<1>3. QED
  BY <1>1, <1>2, UntouchedFrame DEF vars

LEMMA TransitionStep ==
    ASSUME GatewayConsistent, TypeOK, NEW o \in Orders, NEW new \in OrderStatus,
           Transition(o, new)
    PROVE  Next /\ GatewayConsistent'
<1> USE DEF GatewayConsistent, Transition, wireVars
<1>1. Next
  BY DEF Next, BackOffice
<1>2. /\ UNCHANGED <<payment, issued, handler, wireVars>>
      /\ \A x \in Orders : x # o => status'[x] = status[x]
  BY DEF TransitionStatus, providerVars, TypeOK
<1>3. GatewayTypeOK' /\ ProviderAgrees' /\ SeenInv' /\ IssuedInv'
  BY <1>2 DEF GatewayTypeOK, ProviderAgrees, SeenInv, IssuedInv
<1>4. StartInv'
  BY <1>2 DEF StartInv, Open, Unlocked, LiveAt
<1>5. QED
  BY <1>1, <1>3, <1>4

LEMMA PayAtProviderStep ==
    ASSUME GatewayConsistent, NEW t \in Txns, PayAtProvider(t)
    PROVE  Next /\ GatewayConsistent'
<1>1. Next
  BY DEF PayAtProvider, Next
<1>2. UNCHANGED <<payment, status, issued, handler, wireVars>>
  BY DEF PayAtProvider, CustomerPays, orderVars
<1>3. due' \in [Orders -> Amounts] /\ verified' \subseteq Txns
  BY <1>2 DEF wireVars, GatewayConsistent, GatewayTypeOK
<1>4. QED
  BY <1>1, <1>2, <1>3, UntouchedFrame DEF wireVars

-----------------------------------------------------------------------------
(* The theorems. *)

LEMMA GatewayStep ==
    ASSUME Consistent, GatewayConsistent, [GatewayNext]_gatewayVars
    PROVE  [Next]_vars /\ Consistent' /\ GatewayConsistent'
<1>1. TypeOK
  BY DEF Consistent
<1>2. [Next]_vars /\ GatewayConsistent'
  <2>1. ASSUME NEW o \in Orders, PlaceOrder(o) \/ StartPayment(o) \/ Recompute(o)
        PROVE  [Next]_vars /\ GatewayConsistent'
    BY <1>1, <2>1, PlaceOrderStep, BeginPaymentStep, ProviderIssuesStep,
       RollBackPaymentStep, CommitPaymentStep, WithoutAskingStep, RecomputeStep
       DEF StartPayment
  <2>2. ASSUME NEW o \in Orders, NEW new \in OrderStatus, Transition(o, new)
        PROVE  [Next]_vars /\ GatewayConsistent'
    BY <1>1, <2>2, TransitionStep
  <2>3. ASSUME NEW t \in Txns, PayAtProvider(t)
        PROVE  [Next]_vars /\ GatewayConsistent'
    BY <2>3, PayAtProviderStep
  <2>4. ASSUME NEW h \in Handlers, Callback(h)
        PROVE  [Next]_vars /\ GatewayConsistent'
    BY <1>1, <2>4, LookUpStep, VerificationStep, FinalizePaymentStep, FailStep
       DEF Callback
  <2>5. CASE UNCHANGED gatewayVars
    <3>1. UNCHANGED <<vars, wireVars>>
      BY <2>5 DEF gatewayVars
    <3>2. due' \in [Orders -> Amounts] /\ verified' \subseteq Txns
      BY <3>1 DEF wireVars, GatewayConsistent, GatewayTypeOK
    <3>3. QED
      BY <3>1, <3>2, UntouchedFrame DEF vars, wireVars
  <2>6. QED
    BY <2>1, <2>2, <2>3, <2>4, <2>5 DEF GatewayNext
<1>3. QED
  BY <1>2, StepConsistent

\* The conversation keeps its own invariants and those of Payments.
THEOREM GatewayAlwaysConsistent == GatewaySpec => [](Consistent /\ GatewayConsistent)
<1>1. GatewayInit => Consistent /\ GatewayConsistent
  BY InitConsistent, GatewayInitConsistent DEF GatewayInit
<1>2. (Consistent /\ GatewayConsistent) /\ [GatewayNext]_gatewayVars
         => (Consistent /\ GatewayConsistent)'
  BY GatewayStep
<1>3. QED
  BY <1>1, <1>2, PTL DEF GatewaySpec

\* Shop and provider agree on what every recorded transaction is for.
THEOREM ProviderAlwaysAgrees == GatewaySpec => []ProviderAgrees
<1>1. GatewayConsistent => ProviderAgrees
  BY DEF GatewayConsistent
<1>2. QED
  BY <1>1, GatewayAlwaysConsistent, PTL

\* The conversation implements module Payments, so whatever is proved of
\* Payments holds with lost answers and orphaned transactions too.
THEOREM GatewayImplementsPayments == GatewaySpec => ImplementsPayments
<1>1. Consistent /\ GatewayConsistent /\ [GatewayNext]_gatewayVars => [Next]_vars
  BY GatewayStep
<1>2. GatewayInit => Init
  BY DEF GatewayInit
<1>3. QED
  BY <1>1, <1>2, GatewayAlwaysConsistent, PTL
     DEF GatewaySpec, ImplementsPayments, Spec

-----------------------------------------------------------------------------
(* The order form *)

LEMMA DeskInitConsistent == Init => DeskConsistent
<1> SUFFICES ASSUME Init PROVE DeskConsistent
  OBVIOUS
<1>1. Consistent
  BY InitConsistent
<1>2. DeskTypeOK
  BY <1>1 DEF Consistent, TypeOK, DeskTypeOK
<1>3. ASSUME NEW o \in Orders
      PROVE  OrderSound(o, status[o], stockReduced[o], payment[o])
  <2>1. \A p \in Products : Drawn(o, p) = {}
    BY DEF Init, Drawn
  <2>2. status[o] \notin Fulfilled
    BY DEF Init, Fulfilled
  <2>3. status[o] = "absent" => payment[o] = NoPayment
    BY DEF Init
  <2>4. QED
    BY <2>1, <2>2, <2>3 DEF OrderSound, NoPayment
<1>4. ASSUME NEW h \in Handlers PROVE RequestSound(handler[h])
  BY DEF Init, RequestSound, Idle
<1>5. QED
  BY <1>2, <1>3, <1>4 DEF DeskConsistent

-----------------------------------------------------------------------------
(* Frames *)

\* An order for which nothing was drawn, or nothing more, stays sound.
LEMMA SameLedger ==
    ASSUME UNCHANGED ledger
    PROVE  /\ \A o, p : Drawn(o, p)' = Drawn(o, p)
           /\ \A o, s, b, row : OrderSound(o, s, b, row) => OrderSound(o, s, b, row)'
BY DEF Drawn, OrderSound

\* Requests keep what they know while the ledger only grows; one may end.
LEMMA RequestsFrame ==
    ASSUME DeskConsistent,
           \/ handler' = handler
           \/ \E h \in Handlers : handler' = [handler EXCEPT ![h] = Idle],
           \A o \in Orders, p \in Products : Drawn(o, p) \subseteq Drawn(o, p)'
    PROVE  /\ handler' \in [Handlers -> HandlerState \cup FormState]
           /\ \A x \in Handlers : RequestSound(handler[x])'
<1>1. handler \in [Handlers -> HandlerState \cup FormState]
  BY DEF DeskConsistent, DeskTypeOK
<1>2. Idle \in HandlerState /\ Idle.pc = "idle"
  BY DEF Idle, HandlerState
<1>3. ASSUME NEW x \in Handlers PROVE RequestSound(handler[x])'
  <2>1. CASE handler'[x] = Idle
    BY <1>2, <2>1 DEF RequestSound
  <2>2. CASE handler'[x] = handler[x]
    <3>1. RequestSound(handler[x])
      BY DEF DeskConsistent
    <3>2. handler[x].pc = "form" =>
            /\ handler[x].order \in Orders
            /\ \A p \in Lines(handler[x].order) : p \in Products
      BY <1>1 DEF HandlerState, FormState, Lines
    <3>3. QED
      BY <2>2, <3>1, <3>2 DEF RequestSound
  <2>3. QED
    BY <1>1, <2>1, <2>2
<1>4. QED
  BY <1>1, <1>2, <1>3

\* A request's step that touches no row.
LEMMA QuietStep ==
    ASSUME DeskConsistent, UNCHANGED <<orderVars, stock, ledger>>,
           NEW h \in Handlers, NEW r \in HandlerState \cup FormState,
           handler' = [handler EXCEPT ![h] = r], RequestSound(r)
    PROVE  DeskConsistent'
<1>1. DeskTypeOK'
  BY DEF DeskConsistent, DeskTypeOK, orderVars
<1>2. ASSUME NEW o \in Orders
      PROVE  OrderSound(o, status[o], stockReduced[o], payment[o])'
  BY SameLedger DEF DeskConsistent, OrderSound, Drawn, orderVars
<1>3. ASSUME NEW x \in Handlers PROVE RequestSound(handler[x])'
  <2>1. handler'[x] = IF x = h THEN r ELSE handler[x]
    BY DEF DeskConsistent, DeskTypeOK
  <2>2. RequestSound(handler'[x])
    BY <2>1 DEF DeskConsistent
  <2>3. QED
    BY <2>2 DEF RequestSound, Drawn
<1>4. QED
  BY <1>1, <1>2, <1>3 DEF DeskConsistent

\* Steps of the customer, the provider and the back office that touch no row.
LEMMA StillStep ==
    ASSUME DeskConsistent, UNCHANGED <<orderVars, stock, ledger, handler>>
    PROVE  DeskConsistent'
<1>1. DeskTypeOK'
  BY DEF DeskConsistent, DeskTypeOK, orderVars
<1>2. ASSUME NEW o \in Orders
      PROVE  OrderSound(o, status[o], stockReduced[o], payment[o])'
  BY SameLedger DEF DeskConsistent, OrderSound, Drawn, orderVars
<1>3. ASSUME NEW x \in Handlers PROVE RequestSound(handler[x])'
  BY DEF DeskConsistent, RequestSound, Drawn
<1>4. QED
  BY <1>1, <1>2, <1>3 DEF DeskConsistent

\* A step that writes the rows of one order and moves no goods.
LEMMA OneOrderStep ==
    ASSUME DeskConsistent, NEW o \in Orders,
           NEW s \in OrderStatus, NEW b \in BOOLEAN, NEW row \in PaymentRow,
           status' = [status EXCEPT ![o] = s],
           stockReduced' = [stockReduced EXCEPT ![o] = b],
           payment' = [payment EXCEPT ![o] = row],
           UNCHANGED <<stock, ledger>>,
           \/ handler' = handler
           \/ \E h \in Handlers : handler' = [handler EXCEPT ![h] = Idle],
           OrderSound(o, s, b, row)
    PROVE  DeskConsistent'
<1>1. /\ handler' \in [Handlers -> HandlerState \cup FormState]
      /\ \A x \in Handlers : RequestSound(handler[x])'
  BY RequestsFrame, SameLedger
<1>2. DeskTypeOK'
  BY <1>1 DEF DeskConsistent, DeskTypeOK
<1>3. ASSUME NEW x \in Orders
      PROVE  OrderSound(x, status[x], stockReduced[x], payment[x])'
  <2>1. /\ status'[x] = IF x = o THEN s ELSE status[x]
        /\ stockReduced'[x] = IF x = o THEN b ELSE stockReduced[x]
        /\ payment'[x] = IF x = o THEN row ELSE payment[x]
    BY DEF DeskConsistent, DeskTypeOK
  <2>2. OrderSound(x, status'[x], stockReduced'[x], payment'[x])
    BY <2>1 DEF DeskConsistent
  <2>3. QED
    BY <2>2 DEF OrderSound, Drawn
<1>4. QED
  BY <1>1, <1>2, <1>3 DEF DeskConsistent

\* The rows of an order, for the steps below.
LEMMA OrderRows ==
    ASSUME DeskConsistent, NEW o \in Orders
    PROVE  /\ status[o] \in OrderStatus /\ stockReduced[o] \in BOOLEAN
           /\ payment[o] \in PaymentRow
           /\ status = [status EXCEPT ![o] = status[o]]
           /\ stockReduced = [stockReduced EXCEPT ![o] = stockReduced[o]]
           /\ payment = [payment EXCEPT ![o] = payment[o]]
           /\ OrderSound(o, status[o], stockReduced[o], payment[o])
BY DEF DeskConsistent, DeskTypeOK

\* An unpaid order has had nothing drawn for it.
LEMMA UnpaidUndrawn ==
    ASSUME DeskConsistent, NEW o \in Orders, payment[o].status # "success"
    PROVE  \A p \in Products : Drawn(o, p) = {}
BY OrderRows DEF OrderSound

-----------------------------------------------------------------------------
(* One lemma per action *)

LEMMA DeskCreateOrder ==
    ASSUME DeskConsistent, NEW o \in Orders, CreateOrder(o)
    PROVE  DeskConsistent'
<1>1. FreshPayment \in PaymentRow /\ FreshPayment.status = "pending"
  BY DEF FreshPayment, PaymentRow, PaymentStatus
<1>2. payment[o].status # "success"
  BY OrderRows DEF CreateOrder, OrderSound
<1>3. OrderSound(o, "pending", stockReduced[o], FreshPayment)
  BY <1>1, <1>2, UnpaidUndrawn DEF OrderSound, Fulfilled
<1>4. "pending" \in OrderStatus
  BY DEF OrderStatus, Payable
<1>5. /\ status' = [status EXCEPT ![o] = "pending"]
      /\ stockReduced' = [stockReduced EXCEPT ![o] = stockReduced[o]]
      /\ payment' = [payment EXCEPT ![o] = FreshPayment]
      /\ UNCHANGED <<stock, ledger>>
      /\ stockReduced[o] \in BOOLEAN /\ payment[o] \in PaymentRow
      /\ UNCHANGED handler
  BY <1>1, <1>3, <1>4, OrderRows DEF CreateOrder, goodsVars
<1>6. QED
  BY <1>1, <1>3, <1>4, <1>5, OneOrderStep

LEMMA DeskInitiate ==
    ASSUME DeskConsistent, NEW o \in Orders, Initiate(o)
    PROVE  DeskConsistent'
<1>1. {"pending", "cancelled"} \subseteq OrderStatus
  BY DEF OrderStatus, Payable
<1>2. CASE InitiateSettled(o)
  <2>1. OrderSound(o, "cancelled", stockReduced[o], payment[o])
    BY OrderRows DEF OrderSound, Fulfilled
  <2>2. /\ status' = [status EXCEPT ![o] = "cancelled"]
        /\ stockReduced' = [stockReduced EXCEPT ![o] = stockReduced[o]]
        /\ payment' = [payment EXCEPT ![o] = payment[o]]
        /\ UNCHANGED <<stock, ledger>>
        /\ stockReduced[o] \in BOOLEAN /\ payment[o] \in PaymentRow
        /\ UNCHANGED handler
    BY <1>1, <1>2, <2>1, OrderRows DEF InitiateSettled, QuarantinedStatus, goodsVars
  <2>3. QED
    BY <1>1, <1>2, <2>1, <2>2, OneOrderStep
<1>3. ASSUME NEW g \in Gateways, InitiateReuse(o, g)
      PROVE  DeskConsistent'
  <2>1. OrderSound(o, "pending", stockReduced[o], payment[o])
    BY OrderRows DEF OrderSound, Fulfilled
  <2>2. /\ status' = [status EXCEPT ![o] = "pending"]
        /\ stockReduced' = [stockReduced EXCEPT ![o] = stockReduced[o]]
        /\ payment' = [payment EXCEPT ![o] = payment[o]]
        /\ UNCHANGED <<stock, ledger>>
        /\ stockReduced[o] \in BOOLEAN /\ payment[o] \in PaymentRow
        /\ UNCHANGED handler
    BY <1>1, <1>3, <2>1, OrderRows DEF InitiateReuse, goodsVars
  <2>3. QED
    BY <1>1, <1>3, <2>1, <2>2, OneOrderStep
<1>4. ASSUME NEW g \in Gateways, NEW t \in Txns, InitiateNew(o, g, t)
      PROVE  DeskConsistent'
  <2> DEFINE row == [status |-> "pending", gateway |-> g, txn |-> t]
  <2>1. row \in PaymentRow
    BY DEF PaymentRow, PaymentStatus
  <2>2. OrderSound(o, "pending", stockReduced[o], row)
    BY <1>4, UnpaidUndrawn DEF InitiateNew, OrderSound, Fulfilled
  <2>3. payment' = [payment EXCEPT ![o] = row]
    BY <1>4 DEF InitiateNew
  <2> HIDE DEF row
  <2>4. /\ status' = [status EXCEPT ![o] = "pending"]
        /\ stockReduced' = [stockReduced EXCEPT ![o] = stockReduced[o]]
        /\ payment' = [payment EXCEPT ![o] = row]
        /\ UNCHANGED <<stock, ledger>>
        /\ stockReduced[o] \in BOOLEAN /\ payment[o] \in PaymentRow
        /\ UNCHANGED handler
    BY <1>4, <2>3, OrderRows DEF InitiateNew, goodsVars
  <2>5. QED
    BY <1>1, <2>1, <2>2, <2>4, OneOrderStep
<1>5. QED
  BY <1>2, <1>3, <1>4 DEF Initiate

LEMMA DeskReceive ==
    ASSUME DeskConsistent, NEW h \in Handlers, NEW g \in Gateways,
           NEW t \in Txns, NEW claim \in BOOLEAN, ReceiveCallback(h, g, t, claim)
    PROVE  DeskConsistent'
<1>1. PICK o \in Orders, pc \in {"recheck", "verify"} :
        handler' = [handler EXCEPT
           ![h] = [pc |-> pc, order |-> o, gateway |-> g, txn |-> t, ok |-> claim]]
  BY DEF ReceiveCallback
<1> DEFINE r == [pc |-> pc, order |-> o, gateway |-> g, txn |-> t, ok |-> claim]
<1>2. r \in HandlerState
  BY DEF HandlerState
<1>3. RequestSound(r)
  BY DEF RequestSound
<1> HIDE DEF r
<1>4. QED
  BY <1>1, <1>2, <1>3, QuietStep DEF ReceiveCallback, r, goodsVars

LEMMA DeskVerify ==
    ASSUME DeskConsistent, NEW h \in Handlers,
           Verify(h) \/ Recheck(h) \/ Abandon(h) \/ RejectStale(h)
    PROVE  DeskConsistent'
<1>1. UNCHANGED <<orderVars, stock, ledger>>
  BY DEF Verify, Recheck, Abandon, RejectStale, goodsVars
<1>2. /\ handler[h] \in HandlerState \cup FormState /\ RequestSound(handler[h])
      /\ handler[h].pc \in {"verify", "recheck"} => handler[h] \in HandlerState
  BY DEF DeskConsistent, DeskTypeOK, FormState
<1>3. CASE handler' = [handler EXCEPT ![h] = Idle]
  <2>1. Idle \in HandlerState /\ RequestSound(Idle)
    BY DEF Idle, HandlerState, RequestSound
  <2>2. QED
    BY <1>1, <1>3, <2>1, QuietStep
<1>4. CASE Verify(h)
  <2> DEFINE old == handler[h]
             r == [old EXCEPT !.pc = "finalize",
                              !.ok = handler[h].ok /\ handler[h].txn \in charged]
  <2>1. handler' = [handler EXCEPT ![h] = r]
    BY <1>4 DEF Verify
  <2>2. r \in HandlerState /\ RequestSound(r)
    BY <1>2, <1>4 DEF Verify, HandlerState, RequestSound
  <2> HIDE DEF r
  <2>3. QED
    BY <1>1, <2>1, <2>2, QuietStep
<1>5. CASE Recheck(h) /\ handler' # [handler EXCEPT ![h] = Idle]
  <2> DEFINE old == handler[h]
             r == [old EXCEPT !.pc = "reconcile"]
  <2>1. handler' = [handler EXCEPT ![h] = r]
    BY <1>5 DEF Recheck
  <2>2. r \in HandlerState /\ RequestSound(r)
    BY <1>2, <1>5 DEF Recheck, HandlerState, RequestSound
  <2> HIDE DEF r
  <2>3. QED
    BY <1>1, <2>1, <2>2, QuietStep
<1>6. QED
  BY <1>3, <1>4, <1>5 DEF Abandon, RejectStale

\* The order and the transaction of a request that finalizes.
LEMMA FinalizingRequest ==
    ASSUME DeskConsistent, NEW h \in Handlers,
           handler[h].pc \in {"finalize", "reconcile"}
    PROVE  /\ handler[h].order \in Orders /\ handler[h].txn \in Txns
           /\ Current(h) => /\ payment[handler[h].order].status # "success"
                            /\ status[handler[h].order] # "absent"
                            /\ \A p \in Products : Drawn(handler[h].order, p) = {}
<1>1. handler[h].order \in Orders /\ handler[h].txn \in Txns
  BY DEF DeskConsistent, RequestSound
<1>2. handler[h].txn # None
  BY <1>1, SettlementConstants
<1>3. QED
  BY <1>1, <1>2, OrderRows, UnpaidUndrawn DEF Current, OrderSound

LEMMA DeskAlreadySettled ==
    ASSUME DeskConsistent, NEW h \in Handlers, AlreadySettled(h)
    PROVE  DeskConsistent'
<1> DEFINE o == handler[h].order
<1>1. o \in Orders
  BY FinalizingRequest DEF AlreadySettled
<1>2. QuarantinedStatus(o) \in OrderStatus
  BY <1>1, OrderRows DEF QuarantinedStatus, OrderStatus
<1>3. OrderSound(o, QuarantinedStatus(o), stockReduced[o], payment[o])
  BY <1>1, OrderRows DEF OrderSound, QuarantinedStatus, Fulfilled
<1>4. /\ status' = [status EXCEPT ![o] = QuarantinedStatus(o)]
      /\ handler' = [handler EXCEPT ![h] = Idle]
      /\ UNCHANGED <<stockReduced, payment, stock, ledger>>
  BY DEF AlreadySettled, goodsVars
<1> DEFINE s == QuarantinedStatus(o)
<1> HIDE DEF o, s
<1>5. /\ status' = [status EXCEPT ![o] = s]
      /\ stockReduced' = [stockReduced EXCEPT ![o] = stockReduced[o]]
      /\ payment' = [payment EXCEPT ![o] = payment[o]]
      /\ UNCHANGED <<stock, ledger>>
      /\ stockReduced[o] \in BOOLEAN /\ payment[o] \in PaymentRow
      /\ handler' = [handler EXCEPT ![h] = Idle]
      /\ s \in OrderStatus
      /\ OrderSound(o, s, stockReduced[o], payment[o])
  BY <1>1, <1>2, <1>3, <1>4, OrderRows DEF s
<1>6. QED
  BY <1>1, <1>5, OneOrderStep

LEMMA DeskRecordFailure ==
    ASSUME DeskConsistent, NEW h \in Handlers, RecordFailure(h)
    PROVE  DeskConsistent'
<1> DEFINE o == handler[h].order
           row == [payment[o] EXCEPT !.status = "failed"]
<1>1. /\ o \in Orders /\ status[o] # "absent"
      /\ \A p \in Products : Drawn(o, p) = {}
  BY FinalizingRequest DEF RecordFailure, Current
<1>2. row \in PaymentRow /\ row.status = "failed"
  BY <1>1, OrderRows DEF PaymentRow, PaymentStatus
<1>3. OrderSound(o, status[o], stockReduced[o], row)
  BY <1>1, OrderRows DEF OrderSound
<1>4. /\ payment' = [payment EXCEPT ![o] = row]
      /\ handler' = [handler EXCEPT ![h] = Idle]
      /\ UNCHANGED <<status, stockReduced, stock, ledger>>
  BY DEF RecordFailure, goodsVars
<1> HIDE DEF o, row
<1>5. /\ status' = [status EXCEPT ![o] = status[o]]
      /\ stockReduced' = [stockReduced EXCEPT ![o] = stockReduced[o]]
      /\ payment' = [payment EXCEPT ![o] = row]
      /\ UNCHANGED <<stock, ledger>>
      /\ stockReduced[o] \in BOOLEAN /\ payment[o] \in PaymentRow
      /\ handler' = [handler EXCEPT ![h] = Idle]
      /\ status[o] \in OrderStatus /\ row \in PaymentRow
  BY <1>1, <1>2, <1>4, OrderRows
<1>6. QED
  BY <1>1, <1>3, <1>5, OneOrderStep

LEMMA DeskRecordUnfulfilled ==
    ASSUME DeskConsistent, NEW h \in Handlers, RecordUnfulfilled(h)
    PROVE  DeskConsistent'
<1> DEFINE o == handler[h].order
           row == [payment[o] EXCEPT !.status = "success"]
           shortfall == /\ status[o] # "cancelled"
                        /\ stockReduced[o] => status[o] \in Payable
           s == IF shortfall THEN "cancelled" ELSE status[o]
           b == stockReduced[o] /\ (shortfall => Lines(o) # {})
<1>1. /\ o \in Orders /\ status[o] # "absent"
      /\ \A p \in Products : Drawn(o, p) = {}
  BY FinalizingRequest DEF RecordUnfulfilled, Current
<1>2. row \in PaymentRow /\ s \in OrderStatus /\ b \in BOOLEAN
  BY <1>1, OrderRows DEF PaymentRow, PaymentStatus, OrderStatus
<1>3. s \in Fulfilled => s = status[o] /\ ~shortfall
  BY DEF Fulfilled
<1>4. OrderSound(o, s, b, row)
  BY <1>1, <1>3, OrderRows DEF OrderSound
<1>5. /\ status' = [status EXCEPT ![o] = s]
      /\ stockReduced' = [stockReduced EXCEPT ![o] = b]
      /\ payment' = [payment EXCEPT ![o] = row]
      /\ handler' = [handler EXCEPT ![h] = Idle]
      /\ UNCHANGED <<stock, ledger>>
  BY <1>1, OrderRows DEF RecordUnfulfilled, SettledPayment, goodsVars
<1> HIDE DEF o, row, s, b
<1>6. QED
  BY <1>1, <1>2, <1>4, <1>5, OneOrderStep

LEMMA DeskTransition ==
    ASSUME DeskConsistent, NEW o \in Orders,
           NEW new \in OrderStatus, TransitionStatus(o, new)
    PROVE  DeskConsistent'
<1>1. OrderSound(o, new, stockReduced[o], payment[o])
  BY OrderRows DEF TransitionStatus, OrderSound, Fulfilled, Payable
<1>2. /\ status' = [status EXCEPT ![o] = new]
      /\ stockReduced' = [stockReduced EXCEPT ![o] = stockReduced[o]]
      /\ payment' = [payment EXCEPT ![o] = payment[o]]
      /\ UNCHANGED <<stock, ledger>>
      /\ stockReduced[o] \in BOOLEAN /\ payment[o] \in PaymentRow
      /\ UNCHANGED handler
  BY OrderRows DEF TransitionStatus, goodsVars
<1>3. QED
  BY <1>1, <1>2, OneOrderStep

LEMMA DeskLoadForm ==
    ASSUME DeskConsistent, NEW h \in Handlers, NEW o \in Orders, LoadForm(h, o)
    PROVE  DeskConsistent'
<1> DEFINE r == [pc |-> "form", order |-> o, status |-> status[o],
                 stockReduced |-> stockReduced[o]]
<1>1. r \in FormState
  BY OrderRows DEF FormState
<1>2. RequestSound(r)
  BY OrderRows DEF LoadForm, RequestSound, OrderSound
<1>3. handler' = [handler EXCEPT ![h] = r]
  BY DEF LoadForm
<1> HIDE DEF r
<1>4. QED
  BY <1>1, <1>2, <1>3, QuietStep DEF LoadForm, goodsVars

\* The stale row is written over the current one.
LEMMA DeskSaveForm ==
    ASSUME DeskConsistent, NEW h \in Handlers, SaveForm(h)
    PROVE  DeskConsistent'
<1> DEFINE r == handler[h]
<1>1. r \in FormState /\ RequestSound(r)
  BY DEF SaveForm, DeskConsistent, DeskTypeOK, HandlerState
<1>2. /\ r.order \in Orders /\ r.status \in OrderStatus
      /\ r.stockReduced \in BOOLEAN
  BY <1>1 DEF FormState
<1>3. OrderSound(r.order, r.status, r.stockReduced, payment[r.order])
  BY <1>1, <1>2, OrderRows DEF OrderSound, RequestSound, SaveForm
<1>4. /\ status' = [status EXCEPT ![r.order] = r.status]
      /\ stockReduced' = [stockReduced EXCEPT ![r.order] = r.stockReduced]
      /\ handler' = [handler EXCEPT ![h] = Idle]
      /\ UNCHANGED <<payment, stock, ledger>>
  BY DEF SaveForm, goodsVars
<1> HIDE DEF r
<1>5. /\ status' = [status EXCEPT ![r.order] = r.status]
      /\ stockReduced' = [stockReduced EXCEPT ![r.order] = r.stockReduced]
      /\ payment' = [payment EXCEPT ![r.order] = payment[r.order]]
      /\ UNCHANGED <<stock, ledger>>
      /\ stockReduced[r.order] \in BOOLEAN /\ payment[r.order] \in PaymentRow
      /\ handler' = [handler EXCEPT ![h] = Idle]
  BY <1>2, <1>4, OrderRows
<1>6. QED
  BY <1>2, <1>3, <1>5, OneOrderStep

-----------------------------------------------------------------------------
(* The two actions that move goods *)

\* The row _record_locked_inventory_movement writes, and the rows after it.
LEMMA DeskMovement ==
    ASSUME DeskTypeOK, NEW p \in Products, NEW delta \in Int,
           NEW source \in {"manual_adjustment", "physical_count", "order_payment"},
           NEW owner \in Orders \cup {None},
           stock[p] + delta \in 0..MaxStock,
           stock'[p] = stock[p] + delta,
           ledger'[p] = Append(ledger[p], Moved(p, delta, source, owner))
    PROVE  /\ stock'[p] \in 0..MaxStock /\ ledger'[p] \in Seq(Movement)
           /\ \A o : Drawn(o, p)' = Drawn(o, p)
                        \cup (IF owner = o THEN {Len(ledger[p]) + 1} ELSE {})
<1> DEFINE row == Moved(p, delta, source, owner)
<1>1. stock[p] \in Int /\ ledger[p] \in Seq(Movement)
  BY SettlementConstants DEF DeskTypeOK
<1>2. row \in Movement /\ row.order = owner
  BY <1>1 DEF Moved, Movement
<1> HIDE DEF row
<1>3. ledger'[p] \in Seq(Movement)
  BY <1>1, <1>2 DEF row
<1>4. ASSUME NEW o
      PROVE  Drawn(o, p)' = Drawn(o, p)
                \cup (IF owner = o THEN {Len(ledger[p]) + 1} ELSE {})
  <2>1. {i \in DOMAIN Append(ledger[p], row) : Append(ledger[p], row)[i].order = o} =
        {i \in DOMAIN ledger[p] : ledger[p][i].order = o}
           \cup (IF row.order = o THEN {Len(ledger[p]) + 1} ELSE {})
    BY <1>1, <1>2, AppendDrawn
  <2>2. ledger'[p] = Append(ledger[p], row)
    BY DEF row
  <2>3. QED
    BY <1>2, <2>1, <2>2 DEF Drawn
<1>5. QED
  BY <1>3, <1>4

\* Movements of operators are no order's.
LEMMA DeskManualMovement ==
    ASSUME DeskConsistent, NEW p \in Products, NEW delta \in Int,
           NEW source \in {"manual_adjustment", "physical_count"},
           ManualMovement(p, delta, source)
    PROVE  DeskConsistent'
<1>1. DeskTypeOK
  BY DEF DeskConsistent
<1>2. /\ stock' = [stock EXCEPT ![p] = stock[p] + delta]
      /\ stock[p] + delta \in 0..MaxStock
      /\ ledger' = [ledger EXCEPT
                       ![p] = Append(ledger[p], Moved(p, delta, source, None))]
      /\ UNCHANGED <<orderVars, handler>>
  BY DEF ManualMovement
<1>3. /\ stock'[p] = stock[p] + delta
      /\ ledger'[p] = Append(ledger[p], Moved(p, delta, source, None))
      /\ \A q \in Products : q # p => ledger'[q] = ledger[q]
  BY <1>1, <1>2 DEF DeskTypeOK
<1>4. /\ stock'[p] \in 0..MaxStock /\ ledger'[p] \in Seq(Movement)
      /\ \A o : Drawn(o, p)' = Drawn(o, p)
                   \cup (IF None = o THEN {Len(ledger[p]) + 1} ELSE {})
  BY <1>1, <1>2, <1>3, DeskMovement
<1>5. \A o \in Orders, q \in Products : Drawn(o, q)' = Drawn(o, q)
  <2>1. \A o \in Orders : Drawn(o, p)' = Drawn(o, p)
    BY <1>4, SettlementConstants
  <2>2. \A o, q : q \in Products /\ q # p => Drawn(o, q)' = Drawn(o, q)
    BY <1>3 DEF Drawn
  <2>3. QED
    BY <2>1, <2>2
<1>6. DeskTypeOK'
  BY <1>1, <1>2, <1>4 DEF DeskTypeOK, orderVars
<1>7. ASSUME NEW o \in Orders
      PROVE  OrderSound(o, status[o], stockReduced[o], payment[o])'
  <2>1. OrderSound(o, status[o], stockReduced[o], payment[o])
    BY OrderRows
  <2>2. QED
    BY <1>2, <1>5, <2>1 DEF OrderSound, orderVars, Lines
<1>8. ASSUME NEW x \in Handlers PROVE RequestSound(handler[x])'
  BY <1>2, <1>5, <1>8, RequestsFrame
<1>9. QED
  BY <1>6, <1>7, <1>8 DEF DeskConsistent

\* The goods of an unpaid order leave once, with its payment.
LEMMA DeskFulfil ==
    ASSUME DeskConsistent, NEW h \in Handlers, Fulfil(h)
    PROVE  DeskConsistent'
<1>0. PICK o \in Orders : o = handler[h].order
  BY FinalizingRequest DEF Fulfil, Current
<1> DEFINE row == [payment[o] EXCEPT !.status = "success"]
           s == IF status[o] \in Payable THEN "paid" ELSE status[o]
<1>1. /\ o \in Orders /\ status[o] # "absent"
      /\ \A p \in Products : Drawn(o, p) = {}
  BY <1>0, FinalizingRequest DEF Fulfil, Current
<1>2. DeskTypeOK
  BY DEF DeskConsistent
<1>3. /\ status' = [status EXCEPT ![o] = s]
      /\ stockReduced' = [stockReduced EXCEPT ![o] = TRUE]
      /\ payment' = [payment EXCEPT ![o] = row]
      /\ handler' = [handler EXCEPT ![h] = Idle]
      /\ stock' = ReducedStock(o) /\ ledger' = ReducedLedger(o)
      /\ CanFulfil(o)
  BY <1>0 DEF Fulfil, SettledPayment
<1>4. row \in PaymentRow /\ row.status = "success" /\ s \in OrderStatus
      /\ s # "absent"
  BY <1>1, OrderRows DEF PaymentRow, PaymentStatus, OrderStatus, Fulfilled
<1> HIDE DEF row, s
<1>5. ASSUME NEW p \in Products
      PROVE  /\ stock'[p] \in 0..MaxStock /\ ledger'[p] \in Seq(Movement)
             /\ \A x : Drawn(x, p)' = Drawn(x, p)
                   \cup (IF p \in Lines(o) /\ x = o
                         THEN {Len(ledger[p]) + 1} ELSE {})
  <2>1. CASE p \notin Lines(o)
    <3>1. stock'[p] = stock[p] /\ ledger'[p] = ledger[p]
      BY <1>3, <2>1 DEF ReducedStock, ReducedLedger
    <3>2. QED
      BY <1>2, <2>1, <3>1 DEF DeskTypeOK, Drawn
  <2>2. CASE p \in Lines(o)
    <3>1. Qty[o][p] \in Nat /\ stock[p] \in 0..MaxStock
      <4>1. Qty[o] \in [Products -> Nat]
        BY <1>1, SettlementConstants
      <4>2. QED
        BY <1>2, <4>1 DEF DeskTypeOK
    <3>2. Qty[o][p] <= stock[p]
      BY <1>3, <2>2 DEF CanFulfil
    <3>3. PICK delta \in Int : /\ delta = -Qty[o][p]
                               /\ stock[p] + delta \in 0..MaxStock
                               /\ stock[p] + delta = stock[p] - Qty[o][p]
      BY <3>1, <3>2, SettlementConstants
    <3>4. stock'[p] = stock[p] - Qty[o][p]
      BY <1>3, <2>2 DEF ReducedStock
    <3>5. ledger'[p] = Append(ledger[p], Moved(p, delta, "order_payment", o))
      BY <1>3, <2>2, <3>3 DEF ReducedLedger
    <3>6. /\ stock'[p] \in 0..MaxStock /\ ledger'[p] \in Seq(Movement)
      BY <1>2, <3>3, <3>4, <3>5, DeskMovement
    <3>7. ASSUME NEW x
          PROVE  Drawn(x, p)' = Drawn(x, p)
                    \cup (IF o = x THEN {Len(ledger[p]) + 1} ELSE {})
      BY <1>2, <3>3, <3>4, <3>5, DeskMovement
    <3>8. QED
      BY <2>2, <3>6, <3>7
  <2>3. QED
    BY <2>1, <2>2
<1>6. /\ handler' \in [Handlers -> HandlerState \cup FormState]
      /\ \A x \in Handlers : RequestSound(handler[x])'
  BY <1>3, <1>5, RequestsFrame
<1>7. DeskTypeOK'
  <2>1. /\ stock' = [p \in Products |-> stock'[p]]
        /\ ledger' = [p \in Products |-> ledger'[p]]
    BY <1>3 DEF ReducedStock, ReducedLedger
  <2>2. stock' \in [Products -> 0..MaxStock] /\ ledger' \in [Products -> Seq(Movement)]
    BY <1>5, <2>1
  <2>3. QED
    BY <1>2, <1>3, <1>4, <1>6, <2>2 DEF DeskTypeOK
<1>8. ASSUME NEW x \in Orders
      PROVE  OrderSound(x, status[x], stockReduced[x], payment[x])'
  <2>1. CASE x # o
    <3>1. /\ status'[x] = status[x] /\ stockReduced'[x] = stockReduced[x]
          /\ payment'[x] = payment[x]
          /\ \A p \in Products : Drawn(x, p)' = Drawn(x, p)
      BY <1>2, <1>3, <1>5, <2>1 DEF DeskTypeOK
    <3>2. OrderSound(x, status[x], stockReduced[x], payment[x])
      BY OrderRows
    <3>3. QED
      BY <3>1, <3>2 DEF OrderSound, Lines
  <2>2. CASE x = o
    <3>1. /\ status'[o] = s /\ stockReduced'[o] = TRUE /\ payment'[o] = row
      BY <1>1, <1>2, <1>3 DEF DeskTypeOK
    <3>2. ASSUME NEW p \in Lines(o)
          PROVE  Drawn(o, p)' = {Len(ledger[p]) + 1}
      <4>1. p \in Products
        BY DEF Lines
      <4>2. QED
        BY <1>1, <1>5, <4>1
    <3>3. /\ \A p \in Lines(o) : Drawn(o, p)' # {}
          /\ \A p \in Lines(o) : \E i \in Drawn(o, p)' : Drawn(o, p)' = {i}
      BY <3>2
    <3>4. QED
      BY <1>4, <2>2, <3>1, <3>3 DEF OrderSound
  <2>3. QED
    BY <2>1, <2>2
<1>9. QED
  BY <1>6, <1>7, <1>8 DEF DeskConsistent

-----------------------------------------------------------------------------
(* The theorems *)

LEMMA DeskStep == DeskConsistent /\ [DeskNext]_vars => DeskConsistent'
<1> SUFFICES ASSUME DeskConsistent, [DeskNext]_vars PROVE DeskConsistent'
  OBVIOUS
<1>1. ASSUME NEW h \in Handlers,
             Verify(h) \/ Recheck(h) \/ Abandon(h) \/ Finalize(h)
      PROVE  DeskConsistent'
  BY <1>1, DeskVerify, DeskAlreadySettled, DeskRecordFailure,
     DeskRecordUnfulfilled, DeskFulfil DEF Finalize
<1>2. CASE BackOffice
  <2>1. ASSUME NEW o \in Orders, NEW new \in OrderStatus, TransitionStatus(o, new)
        PROVE  DeskConsistent'
    BY <2>1, DeskTransition
  <2>2. ASSUME NEW p \in Products, NEW n \in OperatorQty,
               AdjustStock(p, n) \/ PhysicalCount(p, n)
        PROVE  DeskConsistent'
    <3>1. n \in Int /\ -n \in Int /\ n - stock[p] \in Int
      BY SettlementConstants DEF DeskConsistent, DeskTypeOK
    <3>2. QED
      BY <2>2, <3>1, DeskManualMovement DEF AdjustStock, PhysicalCount
  <2>3. ASSUME NEW p \in Products, SetActive(p) \/ DeleteProduct(p)
        PROVE  DeskConsistent'
    BY <2>3, StillStep DEF SetActive, DeleteProduct
  <2>4. QED
    BY <1>2, <2>1, <2>2, <2>3 DEF BackOffice
<1>3. ASSUME NEW t \in Txns, CustomerPays(t) PROVE DeskConsistent'
  BY <1>3, StillStep DEF CustomerPays, goodsVars
<1>4. CASE UNCHANGED vars
  BY <1>4, StillStep DEF vars, orderVars
<1>5. QED
  BY <1>1, <1>2, <1>3, <1>4, DeskReceive, DeskLoadForm, DeskSaveForm,
     DeskCreateOrder, DeskInitiate DEF DeskNext, Next

\* The invariant of the order desk holds for any orders, products, workers
\* and transactions, whatever the forms write back.
THEOREM DeskAlwaysConsistent == DeskSpec => []DeskConsistent
<1>1. QED
  BY DeskInitConsistent, DeskStep, PTL DEF DeskSpec

\* Goods are drawn once per order, and only for a recorded payment, in spite
\* of the stale writes of the order form.
THEOREM GoodsDrawnOnce == DeskSpec => []DrawnOnceForMoney
<1>1. DeskConsistent => DrawnOnceForMoney
  BY DEF DeskConsistent, OrderSound, DrawnOnceForMoney
<1>2. QED
  BY <1>1, DeskAlwaysConsistent, PTL

\* No stale write makes an order read as paid whose goods were not taken.
THEOREM FulfilmentNeverFaked == DeskSpec => []NeverFaked
<1>1. DeskConsistent => NeverFaked
  BY DEF DeskConsistent, OrderSound, NeverFaked
<1>2. QED
  BY <1>1, DeskAlwaysConsistent, PTL

\* Only an initiation asks for a transaction, and never for a settled payment.
LEMMA IssuedForUnsettled ==
    ASSUME [DeskNext]_vars, issued \in [Txns -> Orders \cup {None}],
           NEW t \in Txns, issued'[t] # issued[t]
    PROVE  payment[issued'[t]].status # "success"
<1>1. PICK o \in Orders, g \in Gateways, x \in Txns : InitiateNew(o, g, x)
  BY DEF DeskNext, Next, vars, CreateOrder, Initiate, InitiateSettled,
     InitiateReuse, CustomerPays, ReceiveCallback, Verify, Recheck, Abandon,
     Finalize, AlreadySettled, RecordFailure, Fulfil, RecordUnfulfilled,
     RejectStale, BackOffice, TransitionStatus, AdjustStock, PhysicalCount,
     ManualMovement, SetActive, DeleteProduct, LoadForm, SaveForm, providerVars
<1>2. issued' = [issued EXCEPT ![x] = o] /\ payment[o].status # "success"
  BY <1>1 DEF InitiateNew
<1>3. QED
  BY <1>2

LEMMA DeskIssued == DeskSpec => [](issued \in [Txns -> Orders \cup {None}])
<1> DEFINE T == issued \in [Txns -> Orders \cup {None}]
<1>1. Init => T
  BY DEF Init
<1>2. T /\ [DeskNext]_vars => T'
  BY DEF DeskNext, Next, vars, CreateOrder, Initiate, InitiateSettled,
     InitiateReuse, InitiateNew, CustomerPays, ReceiveCallback, Verify, Recheck,
     Abandon, Finalize, AlreadySettled, RecordFailure, Fulfil, RecordUnfulfilled,
     RejectStale, BackOffice, TransitionStatus, AdjustStock, PhysicalCount,
     ManualMovement, SetActive, DeleteProduct, LoadForm, SaveForm, providerVars
<1>3. QED
  BY <1>1, <1>2, PTL DEF DeskSpec

\* A customer whose payment is recorded is not sent to a gateway again.
THEOREM NeverSentAgain == DeskSpec => NoSecondCharge
<1>1. issued \in [Txns -> Orders \cup {None}] /\ [DeskNext]_vars =>
        [\A t \in Txns : issued'[t] # issued[t] =>
            payment[issued'[t]].status # "success"]_vars
  BY IssuedForUnsettled
<1>2. QED
  BY <1>1, DeskIssued, PTL DEF DeskSpec, NoSecondCharge
=============================================================================
