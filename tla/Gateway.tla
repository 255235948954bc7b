------------------------------ MODULE Gateway ------------------------------
(***************************************************************************)
(* The conversation with the payment provider behind module Payments: what *)
(* orders/payment/gateways.py sends, what the provider answers, and the    *)
(* amounts both sides keep.                                                *)
(*                                                                         *)
(* Payments takes the start of a payment as one step.  Here it is what the *)
(* code does: under the order's row lock and inside one database           *)
(* transaction, the payment is reset, the provider is asked, and only then *)
(* is the transaction code saved.  The request or its answer may be lost,  *)
(* or the process die, at each point; the database then rolls back and the *)
(* provider does not.  A verification may be answered and the answer lost, *)
(* and the next one gets code 101 instead of 100.  The money columns that  *)
(* Payments leaves out are kept here: Order.final_amount, Payment.amount,  *)
(* the amount a callback read, and the one the provider was asked for.     *)
(*                                                                         *)
(* ImplementsPayments says that none of this shows: the shop's rows and    *)
(* the customer's payments still behave as Payments says.                  *)
(***************************************************************************)
EXTENDS Payments

CONSTANTS
    Remote,         \* gateways asked over the network (zarinpal); the mock
                    \* gateway checks a signature of its own instead
    Amounts,        \* what an order may come to, in toman
    Unit            \* API units in a toman: 1 for IRT, 10 for IRR

ASSUME GatewayConstants ==
    /\ Remote \subseteq Gateways
    /\ Amounts \subseteq Nat
    /\ Unit \in {1, 10}

VARIABLES
    due,            \* Order.final_amount
    amount,         \* Payment.amount; 0 without a row
    starting,       \* the open transaction of an initiation, per order
    session,        \* provider: what each transaction was issued for
    verified,       \* provider: the transactions it has confirmed
    seen            \* Payment.amount as each callback request read it

wireVars == <<due, amount, starting, session, verified, seen>>
gatewayVars == <<vars, wireVars>>

NotStarting == [pc |-> "none", gateway |-> None, txn |-> None, amount |-> 0]
NoSession == [order |-> None, asked |-> 0]

GatewayInit ==
    /\ Init
    /\ due \in [Orders -> Amounts]
    /\ amount = [o \in Orders |-> IF payment[o] = NoPayment THEN 0 ELSE due[o]]
    /\ starting = [o \in Orders |-> NotStarting]
    /\ session = [t \in Txns |-> NoSession]
    /\ verified = {}
    /\ seen = [h \in Handlers |-> 0]

\* The order's row lock is free: no initiation holds it.
Unlocked(o) == starting[o] = NotStarting

-----------------------------------------------------------------------------
(* PaymentService.initiate around PaymentGateway.initiate *)

\* ZarinPalGateway._amount_for_api: toman to API units.  It refuses zero.
ApiAmount(toman) == toman * Unit
Chargeable(g, toman) == g \in Remote => toman > 0

\* What the provider keeps of a request for this order and this amount.
Session(o, toman) == [order |-> o, asked |-> ApiAmount(toman)]

\* The order is locked and no transaction can be reused: the row is created or
\* reset, uncommitted.
BeginPayment(o, g) ==
    /\ Unlocked(o)
    /\ status[o] \in Payable
    /\ payment[o].status # "success"
    /\ ~LiveAt(o, g)
    /\ starting' = [starting EXCEPT
          ![o] = [pc |-> "asking", gateway |-> g, txn |-> None,
                  amount |-> due[o]]]
    /\ UNCHANGED <<vars, due, amount, session, verified, seen>>

\* External: the provider answers code 100 with an authority it has not used.
\* (The mock gateway makes its own, uuid4.)
ProviderIssues(o, t) ==
    /\ starting[o].pc = "asking"
    /\ Chargeable(starting[o].gateway, starting[o].amount)
    /\ session[t] = NoSession
    /\ session' = [session EXCEPT ![t] = Session(o, starting[o].amount)]
    /\ starting' = [starting EXCEPT ![o] = [@ EXCEPT !.pc = "answered", !.txn = t]]
    /\ UNCHANGED <<vars, due, amount, verified, seen>>

\* The provider refuses or is not reached, its answer is lost or malformed, or
\* the request dies: GatewayInitiationError, and a rollback of everything.
\* What the provider has issued stays issued.
RollBackPayment(o) ==
    /\ starting[o].pc \in {"asking", "answered"}
    /\ starting' = [starting EXCEPT ![o] = NotStarting]
    /\ UNCHANGED <<vars, due, amount, session, verified, seen>>

\* Mutant of CommitPayment: "amount" missing from the saved fields.
CommitCodeOnly(o) ==
    /\ starting[o].pc = "answered"
    /\ status' = [status EXCEPT ![o] = "pending"]
    /\ payment' = [payment EXCEPT
          ![o] = [status |-> "pending", gateway |-> starting[o].gateway,
                  txn |-> starting[o].txn]]
    /\ issued' = [issued EXCEPT ![starting[o].txn] = o]
    /\ starting' = [starting EXCEPT ![o] = NotStarting]
    /\ UNCHANGED <<stockReduced, goodsVars, charged, handler, due, amount,
                   session, verified, seen>>

\* The code is saved, the transaction commits, and only then is the customer
\* sent to the provider: this is where Payments counts it as issued.
CommitPayment(o) ==
    /\ starting[o].pc = "answered"
    /\ status' = [status EXCEPT ![o] = "pending"]
    /\ payment' = [payment EXCEPT
          ![o] = [status |-> "pending", gateway |-> starting[o].gateway,
                  txn |-> starting[o].txn]]
    /\ amount' = [amount EXCEPT ![o] = starting[o].amount]
    /\ issued' = [issued EXCEPT ![starting[o].txn] = o]
    /\ starting' = [starting EXCEPT ![o] = NotStarting]
    /\ UNCHANGED <<stockReduced, goodsVars, charged, handler, due, session,
                   verified, seen>>

\* The ends of initiate that ask nobody, under the same lock.
WithoutAsking(o) ==
    /\ Unlocked(o)
    /\ InitiateSettled(o) \/ \E g \in Gateways : InitiateReuse(o, g)
    /\ UNCHANGED wireVars

\* External: the customer pays where the shop has sent him.  The mock gateway
\* shows (and signs) only a pending payment of a payable order, and what it
\* has signed counts as paid.
PayAtProvider(t) ==
    /\ \A o \in Orders :
          payment[o].txn = t /\ payment[o].gateway \notin Remote =>
             payment[o].status = "pending" /\ status[o] \in Payable
    /\ CustomerPays(t)
    /\ UNCHANGED wireVars

-----------------------------------------------------------------------------
(* PaymentGateway.verify_callback *)

\* The amount is read with the payment, before the provider is asked.
LookUp(h, g, t, claim) ==
    /\ ReceiveCallback(h, g, t, claim)
    /\ seen' = [seen EXCEPT ![h] = amount[handler'[h].order]]
    /\ UNCHANGED <<due, amount, starting, session, verified>>

\* External: verify.json.  Code 100, or 101 when it was confirmed before, if the
\* transaction is paid and the amount sent is the one it was issued for.
Code(h) ==
    LET t == handler[h].txn IN
    IF t \notin charged \/ session[t].asked # ApiAmount(seen[h]) THEN 0
    ELSE IF t \in verified THEN 101 ELSE 100

\* Mutant of Confirms: a repeated verification is taken for a refusal.
ConfirmsOnce(h) == Code(h) = 100

Confirms(h) == Code(h) \in {100, 101}

\* The callback goes on with the verdict: to the locks, or, for a payment found
\* settled under a payable order, to the quarantine only if it was confirmed.
GoOn(h, ok) ==
    LET r == handler[h] IN
    handler' = [handler EXCEPT
        ![h] = IF r.pc = "recheck" /\ ~ok THEN Idle
               ELSE [r EXCEPT !.ok = ok,
                              !.pc = IF r.pc = "verify" THEN "finalize"
                                     ELSE "reconcile"]]

Verifying(h) == handler[h].pc \in {"verify", "recheck"}

\* ZarinPal, Status=OK: the provider decides.  It remembers what it confirmed,
\* even if its answer is lost or lacks the reference (an error response then).
AskProvider(h) ==
    /\ Verifying(h)
    /\ handler[h].gateway \in Remote
    /\ handler[h].ok
    /\ verified' = IF Code(h) = 100 THEN verified \cup {handler[h].txn} ELSE verified
    /\ GoOn(h, Confirms(h)) \/ handler' = [handler EXCEPT ![h] = Idle]
    /\ UNCHANGED <<orderVars, goodsVars, providerVars, due, amount, starting,
                   session, seen>>

\* ZarinPal, any other Status: a failure, without asking.
BelieveRefusal(h) ==
    /\ Verifying(h)
    /\ handler[h].gateway \in Remote
    /\ ~handler[h].ok
    /\ GoOn(h, FALSE)
    /\ UNCHANGED <<orderVars, goodsVars, providerVars, wireVars>>

\* The mock gateway believes either claim if its page signed the transaction
\* and its amount; an unsigned one is an error.
CheckSignature(h) ==
    /\ Verifying(h)
    /\ handler[h].gateway \notin Remote
    /\ handler[h].txn \in charged
    /\ GoOn(h, handler[h].ok)
    /\ UNCHANGED <<orderVars, goodsVars, providerVars, wireVars>>

\* Under the locks of order and payment.  A verified amount that is not the
\* payment's is an error, like a request that dies.
FinalizePayment(h) ==
    /\ handler[h].pc \in {"finalize", "reconcile"}
    /\ Unlocked(handler[h].order)
    /\ \/ AlreadySettled(h)
       \/ RejectStale(h)
       \/ /\ seen[h] = amount[handler[h].order]
          /\ RecordFailure(h) \/ Fulfil(h) \/ RecordUnfulfilled(h)
    /\ UNCHANGED wireVars

Fail(h) == Abandon(h) /\ UNCHANGED wireVars

-----------------------------------------------------------------------------
(* Beside it *)

\* create_order records what is due with the new payment.
PlaceOrder(o) ==
    /\ CreateOrder(o)
    /\ amount' = [amount EXCEPT ![o] = due[o]]
    /\ UNCHANGED <<due, starting, session, verified, seen>>

\* Order.save recomputes final_amount, a toman up or down (Pricing).
Recompute(o) ==
    /\ Unlocked(o)
    /\ status[o] # "absent"
    /\ due' \in [Orders -> Amounts]
    /\ \A x \in Orders : due'[x] # due[x] => x = o /\ due'[x] - due[x] \in {-1, 1}
    /\ UNCHANGED <<vars, amount, starting, session, verified, seen>>

\* A status action of the back office takes the order's lock too.
Transition(o, new) ==
    Unlocked(o) /\ TransitionStatus(o, new) /\ UNCHANGED wireVars

StartPayment(o) ==
    \/ \E g \in Gateways : BeginPayment(o, g)
    \/ \E t \in Txns : ProviderIssues(o, t)
    \/ RollBackPayment(o)
    \/ CommitPayment(o)
    \/ WithoutAsking(o)

Callback(h) ==
    \/ \E g \in Gateways, t \in Txns, claim \in BOOLEAN : LookUp(h, g, t, claim)
    \/ AskProvider(h)
    \/ BelieveRefusal(h)
    \/ CheckSignature(h)
    \/ FinalizePayment(h)
    \/ Fail(h)

GatewayNext ==
    \/ \E o \in Orders : PlaceOrder(o) \/ StartPayment(o) \/ Recompute(o)
    \/ \E o \in Orders, new \in OrderStatus : Transition(o, new)
    \/ \E t \in Txns : PayAtProvider(t)
    \/ \E h \in Handlers : Callback(h)

GatewaySpec == GatewayInit /\ [][GatewayNext]_gatewayVars

-----------------------------------------------------------------------------
(* Properties *)

\* Every variable of the conversation keeps its type.
GatewayTypeOK ==
    /\ due \in [Orders -> Amounts]
    /\ amount \in [Orders -> Nat]
    /\ starting \in [Orders -> [pc : {"none", "asking", "answered"},
                                gateway : Gateways \cup {None},
                                txn : Txns \cup {None}, amount : Nat]]
    /\ session \in [Txns -> [order : Orders \cup {None}, asked : Nat]]
    /\ verified \subseteq Txns
    /\ seen \in [Handlers -> Nat]

\* The shop and the provider never disagree about what the transaction of a
\* payment is for: it was issued for that order and for the recorded amount,
\* whatever was lost, retried or recomputed on the way (PaymentService.initiate).
ProviderAgrees ==
    \A o \in Orders : payment[o].txn # None =>
        session[payment[o].txn] = Session(o, amount[o])

\* What the row lock protects while the provider is being asked: the order is
\* payable and unpaid, and the new transaction is known to nobody else.
Open(o) ==
    LET s == starting[o] IN
    /\ s.pc \in {"asking", "answered"}
    /\ s.gateway \in Gateways
    /\ status[o] \in Payable
    /\ payment[o].status # "success"
    /\ ~LiveAt(o, s.gateway)
    /\ s.pc = "answered" =>
          /\ s.txn \in Txns
          /\ issued[s.txn] = None
          /\ session[s.txn] = Session(o, s.amount)

StartInv == \A o \in Orders : Unlocked(o) \/ Open(o)

\* Requests know only transactions the shop has recorded, with the amount they
\* were issued for.
SeenInv ==
    \A h \in Handlers : handler[h].pc # "idle" =>
        /\ handler[h].txn \in Txns
        /\ handler[h].order \in Orders
        /\ session[handler[h].txn] = Session(handler[h].order, seen[h])

\* A transaction the shop has sent somebody to has a session at the provider.
IssuedInv == \A t \in Txns : issued[t] # None => session[t] # NoSession

\* The conjunction that is inductive, beside the invariants of Payments.
GatewayConsistent ==
    /\ GatewayTypeOK
    /\ ProviderAgrees
    /\ StartInv
    /\ SeenInv
    /\ IssuedInv

\* With the conversation spelled out, the shop still does what Payments says:
\* orphaned transactions, lost answers, repeated confirmations and amounts
\* never lead it to a step Payments does not have.
ImplementsPayments == Spec
=============================================================================
