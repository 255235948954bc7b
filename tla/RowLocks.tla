------------------------------ MODULE RowLocks ------------------------------
(***************************************************************************)
(* The row locks of the transactions that share users, orders, carts and   *)
(* products, in the order in which the code takes them: select_for_update, *)
(* and at commit the key-share locks of the foreign keys a transaction has  *)
(* written (PostgreSQL checks them there).  A transaction keeps its locks   *)
(* until it ends.  What it does with the rows is in Payments and Carts,     *)
(* which rely on these locks for the atomicity of their actions.            *)
(***************************************************************************)
EXTENDS Integers, Sequences, FiniteSets, SequencesExt

CONSTANTS
    Orders, Users, Staff, Carts, Guests,
    Products,                   \* product ids
    LineIds,                    \* ids of order lines
    LineOrder, LineProduct,     \* the order and the product of a line
    CartRows,                   \* ids of cart rows
    RowCart, RowProduct,        \* the cart and the product of a row
    Customer, OrderCart,        \* the user of an order, the cart it was made from
    CartOf,                     \* CartOf[u]: the active cart of a user
    Workers,
    None                        \* no transaction

ASSUME LockConstants ==
    /\ IsFiniteSet(Workers)
    /\ IsFiniteSet(Products) /\ Products \subseteq Nat
    /\ IsFiniteSet(LineIds) /\ LineIds \subseteq Nat
    /\ IsFiniteSet(CartRows) /\ CartRows \subseteq Nat
    /\ Staff \subseteq Users
    /\ Guests \subseteq Carts
    /\ LineOrder \in [LineIds -> Orders] /\ LineProduct \in [LineIds -> Products]
    /\ RowCart \in [CartRows -> Carts] /\ RowProduct \in [CartRows -> Products]
    /\ Customer \in [Orders -> Users] /\ OrderCart \in [Orders -> Carts]
    /\ CartOf \in [Users -> Carts \ Guests]

VARIABLES
    job,    \* the transaction a worker runs, or None
    held,   \* the locks it has
    todo    \* the locks it still needs, in order

vars == <<job, held, todo>>

-----------------------------------------------------------------------------
\* The transactions: who runs what on which rows, "by" the one whose row its
\* records name.  "transition" stands for a save of the order form too, "stock"
\* for both inventory operations and the product form, "saveRow" for the
\* deletion of a row by staff, "relate" for a product form that adds a related
\* product, "list" for an address list that changes two customers' addresses.
Jobs ==
    [op : {"initiate", "callback"}, order : Orders]
    \cup [op : {"transition", "deleteOrdered"}, order : Orders, by : Staff]
    \cup [op : {"add", "change", "remove"}, row : CartRows]
    \cup [op : {"merge"}, user : Users, guest : Guests]
    \cup [op : {"checkout", "address", "dropAddress"}, user : Users]
    \cup [op : {"visit"}, by : Users]
    \cup [op : {"review"}, product : Products, by : Users]
    \cup [op : {"stock", "deleteProduct"}, product : Products, by : Staff]
    \cup [op : {"saveCart", "deleteCart"}, cart : Carts, by : Staff]
    \cup [op : {"saveRow", "restore"}, row : CartRows, by : Staff]
    \cup [op : {"place", "account"}, user : Users, by : Staff]
    \cup {j \in [op : {"relate"}, product : Products, other : Products, by : Staff]
                \cup [op : {"move", "list"}, user : Users, other : Users, by : Staff] :
             j.op = "relate" \/ j.user # j.other}

ASSUME NoneIsNoJob == None \notin Jobs

Lock(kind, id) == [row |-> <<kind, id>>, mode |-> "update"]
Share(kind, id) == [row |-> <<kind, id>>, mode |-> "share"]

\* sorted(...), order_by("id"), order_by("pk"): by ascending id.
InOrder(ids) ==
    CHOOSE s \in [1..Cardinality(ids) -> ids] : \A i, k \in DOMAIN s : i < k => s[i] < s[k]

InTurn(kind, ids) == [k \in DOMAIN InOrder(ids) |-> Lock(kind, InOrder(ids)[k])]

RowsOf(c) == {r \in CartRows : RowCart[r] = c}
ProductsIn(c) == {RowProduct[r] : r \in RowsOf(c)}
LinesOf(o) == {l \in LineIds : LineOrder[l] = o}
ProductsOf(o) == {LineProduct[l] : l \in LinesOf(o)}

\* Mutant of OrderLocks: the products come in the order of the order's lines.
LinesLocks(o) ==
    <<Lock("order", o), Lock("payment", o)>> \o InTurn("line", LinesOf(o))
    \o Reverse(InTurn("product", ProductsOf(o)))

\* _lock_order_then_payment and, for a success, reduce_item_stock.
OrderLocks(o) ==
    <<Lock("order", o), Lock("payment", o)>> \o InTurn("line", LinesOf(o))
    \o InTurn("product", ProductsOf(o))

\* The services' locks in the order of the code.  A customer's addresses, which
\* are saved under the user's lock, are taken as one row.
ServiceLocks(j) ==
    CASE j.op = "initiate" ->
            <<Lock("order", j.order), Lock("payment", j.order),
              Share("user", Customer[j.order])>>
      [] j.op = "callback" -> OrderLocks(j.order)
      [] j.op = "transition" -> <<Lock("order", j.order), Share("user", j.by)>>
      [] j.op = "stock" -> <<Lock("product", j.product)>>
      [] j.op = "add" ->
            <<Lock("cart", RowCart[j.row]), Lock("product", RowProduct[j.row]),
              Lock("row", j.row)>>
      [] j.op = "change" ->
            <<Lock("cart", RowCart[j.row]), Lock("row", j.row),
              Lock("product", RowProduct[j.row])>>
      [] j.op = "remove" -> <<Lock("row", j.row)>>
      [] j.op = "merge" ->
            LET mine == CartOf[j.user]
                both == {r \in RowsOf(mine) : RowProduct[r] \in ProductsIn(j.guest)} IN
            <<Lock("user", j.user), Lock("cart", mine), Lock("cart", j.guest)>>
            \o InTurn("row", RowsOf(j.guest)) \o InTurn("row", both)
            \o InTurn("product", ProductsIn(j.guest))
      [] j.op = "checkout" ->
            LET mine == CartOf[j.user] IN
            <<Lock("user", j.user), Lock("cart", mine), Lock("addresses", j.user)>>
            \o InTurn("row", RowsOf(mine)) \o InTurn("product", ProductsIn(mine))
      [] j.op = "address" -> <<Lock("user", j.user), Lock("addresses", j.user)>>
      [] j.op = "dropAddress" -> <<Lock("addresses", j.user)>>
      [] j.op = "visit" -> <<Lock("cart", CartOf[j.by])>>
      [] j.op = "review" -> <<Share("product", j.product)>>

\* Pages of the admin site: Django's saves and, for a deletion, the rows that
\* go with it first (Collector.delete).
PageLocks(j) ==
    CASE j.op = "place" -> <<Lock("user", j.user), Lock("addresses", j.user)>>
      [] j.op = "account" -> <<Lock("user", j.user), Lock("group", 0)>>
      [] j.op = "saveCart" -> <<Lock("cart", j.cart)>> \o InTurn("row", RowsOf(j.cart))
      [] j.op = "saveRow" -> <<Lock("row", j.row)>>
      [] j.op = "restore" ->
            <<Lock("row", j.row), Share("cart", RowCart[j.row]),
              Share("product", RowProduct[j.row])>>
      [] j.op = "deleteCart" -> InTurn("row", RowsOf(j.cart)) \o <<Lock("cart", j.cart)>>
      [] j.op = "deleteOrdered" ->
            InTurn("row", RowsOf(OrderCart[j.order]))
            \o <<Lock("order", j.order), Lock("cart", OrderCart[j.order])>>
      [] j.op = "deleteProduct" ->
            InTurn("row", {r \in CartRows : RowProduct[r] = j.product})
            \o InTurn("line", {l \in LineIds : LineProduct[l] = j.product})
            \o <<Lock("product", j.product)>>
      [] j.op = "relate" -> <<Lock("product", j.product), Share("product", j.other)>>
      [] j.op = "move" ->
            <<Lock("user", j.user), Lock("addresses", j.user), Lock("addresses", j.other)>>
      [] j.op = "list" ->
            <<Lock("user", j.user), Lock("addresses", j.user),
              Lock("user", j.other), Lock("addresses", j.other)>>

\* Against the order of the services: rows before the cart or the product, one
\* product or one customer after the other as the page has them.
AgainstOrder ==
    {"restore", "deleteCart", "deleteOrdered", "deleteProduct", "relate", "move", "list"}

\* Pages that keep it.
InOrderPages == {"place", "account", "saveCart", "saveRow"}

\* Whose record of who did it (the log of the admin site, the movement's actor,
\* the owner of a cart or a review) is checked last, with all else locked.
Signed == AgainstOrder \cup InOrderPages \cup {"stock", "visit", "review"}

Work(j) == IF j.op \in AgainstOrder \cup InOrderPages THEN PageLocks(j) ELSE ServiceLocks(j)

Program(j) == Work(j) \o IF j.op \in Signed THEN <<Share("user", j.by)>> ELSE <<>>

-----------------------------------------------------------------------------
Init ==
    /\ job = [w \in Workers |-> None]
    /\ held = [w \in Workers |-> {}]
    /\ todo = [w \in Workers |-> <<>>]

Busy(w) == job[w] # None
Waiting(w) == todo[w] # <<>>

Conflict(l, m) == l.row = m.row /\ ~(l.mode = "share" /\ m.mode = "share")

\* A lock v holds keeps w from the one it wants.
Blocks(v, w) ==
    /\ v # w
    /\ Waiting(w)
    /\ \E l \in held[v] : Conflict(l, Head(todo[w]))

\* Workers that each wait for another of them, for good.
Deadlocked(ws) == ws # {} /\ \A w \in ws : \E v \in ws : Blocks(v, w)

Begin(w, j) ==
    /\ ~Busy(w)
    /\ job' = [job EXCEPT ![w] = j]
    /\ todo' = [todo EXCEPT ![w] = Program(j)]
    /\ UNCHANGED held

\* Mutant of Acquire: a key-share lock is granted beside an update lock.
AcquireShared(w) ==
    /\ Waiting(w)
    /\ Head(todo[w]).mode = "share" \/ \A v \in Workers : ~Blocks(v, w)
    /\ held' = [held EXCEPT ![w] = @ \cup {Head(todo[w])}]
    /\ todo' = [todo EXCEPT ![w] = Tail(@)]
    /\ UNCHANGED job

Acquire(w) ==
    /\ Waiting(w)
    /\ \A v \in Workers : ~Blocks(v, w)
    /\ held' = [held EXCEPT ![w] = @ \cup {Head(todo[w])}]
    /\ todo' = [todo EXCEPT ![w] = Tail(@)]
    /\ UNCHANGED job

\* Commit or rollback: every lock is released.
End(w) ==
    /\ job' = [job EXCEPT ![w] = None]
    /\ held' = [held EXCEPT ![w] = {}]
    /\ todo' = [todo EXCEPT ![w] = <<>>]

Commit(w) == Busy(w) /\ ~Waiting(w) /\ End(w)

\* An early return, a validation error, a lost connection.
GiveUp(w) == Waiting(w) /\ End(w)

\* Mutant of Break: nobody notices.
NeverBroken(w) == w \notin Workers /\ End(w)

\* External: PostgreSQL finds a deadlock and aborts one of its transactions.
Break(w) ==
    /\ \E ws \in SUBSET Workers : w \in ws /\ Deadlocked(ws)
    /\ End(w)

Next ==
    \E w \in Workers :
        \/ \E j \in Jobs : Begin(w, j)
        \/ Acquire(w) \/ Commit(w) \/ GiveUp(w) \/ Break(w)

\* A worker whose transaction can go on goes on; a lock is granted to whoever
\* keeps asking for it (waiters of a row queue up).
Fairness ==
    \A w \in Workers : WF_vars(Commit(w)) /\ SF_vars(Acquire(w)) /\ WF_vars(Break(w))

Spec == Init /\ [][Next]_vars /\ Fairness

-----------------------------------------------------------------------------
(* Properties *)

Lockable ==
    {"order", "payment"} \X Orders \cup {"line"} \X LineIds
    \cup {"user", "addresses"} \X Users \cup {"cart"} \X Carts
    \cup {"row"} \X CartRows \cup {"product"} \X Products \cup {"group"} \X {0}

Locks == [row : Lockable, mode : {"update", "share"}]

\* A transaction has the first k locks of its program and wants the others.
HasTaken(w, k) ==
    /\ held[w] = {Program(job[w])[i] : i \in 1..k}
    /\ todo[w] = SubSeq(Program(job[w]), k + 1, Len(Program(job[w])))

TypeOK ==
    /\ job \in [Workers -> Jobs \cup {None}]
    /\ held \in [Workers -> SUBSET Locks]
    /\ todo \in [Workers -> Seq(Locks)]
    /\ \A w \in Workers :
          IF Busy(w) THEN \E k \in 0..Len(Program(job[w])) : HasTaken(w, k)
          ELSE held[w] = {} /\ todo[w] = <<>>

\* No two transactions hold conflicting locks: what Payments and Carts take as
\* one action is not interleaved with another on the same rows.
LocksExclude ==
    \A v, w \in Workers : v # w =>
        \A l \in held[v], m \in held[w] : ~Conflict(l, m)

\* Transactions that lock a user's row for update before other rows.
OfUser == {"merge", "checkout", "address", "place", "account"}

\* The services and most pages lock orders, users, carts, rows and products in
\* one global order.  Where transactions wait in a circle, one of them is a page
\* that locks against that order (the deletion of a cart or a product is one),
\* or one of them has all it needs but the row of the user it is signed with,
\* which a login, a checkout or a save for that same user has locked.
DeadlocksExplained ==
    \A ws \in SUBSET Workers : Deadlocked(ws) =>
        \/ \E v \in ws : job[v].op \in AgainstOrder
        \/ \E v, w \in ws :
              /\ job[v].op \in Signed /\ todo[v] = <<Share("user", job[v].by)>>
              /\ job[w].op \in OfUser /\ job[w].user = job[v].by /\ Blocks(w, v)

\* Every transaction ends, whatever the others hold.
EveryTransactionEnds == \A w \in Workers : Busy(w) ~> ~Busy(w)
=============================================================================
