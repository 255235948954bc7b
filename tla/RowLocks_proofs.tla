--------------------------- MODULE RowLocks_proofs ---------------------------
(***************************************************************************)
(* RowLocks, for any number of workers, orders, carts, rows and products:  *)
(* no two transactions hold conflicting locks, and where transactions wait  *)
(* in a circle one of them is a page that locks against the order of the    *)
(* others, or one waits for the user it is signed with.                     *)
(***************************************************************************)
EXTENDS RowLocks, FiniteData, SequenceTheorems

\* Sorting: a finite set of numbers has an ascending enumeration, and InOrder
\* is one.
LEMMA Ascending ==
    ASSUME NEW ps, IsFiniteSet(ps), ps \subseteq Nat
    PROVE  /\ InOrder(ps) \in [1..Cardinality(ps) -> ps]
           /\ \A i, k \in 1..Cardinality(ps) : i < k => InOrder(ps)[i] < InOrder(ps)[k]
<1> DEFINE Sorted(A, s) == /\ s \in [1..Cardinality(A) -> A]
                           /\ \A i, k \in 1..Cardinality(A) : i < k => s[i] < s[k]
           Good == {A \in SUBSET ps : \E s : Sorted(A, s)}
<1>1. ASSUME NEW A \in SUBSET ps, \A a \in A : A \ {a} \in Good
      PROVE  A \in Good
  <2>1. IsFiniteSet(A)
    BY FS_Subset
  <2>2. CASE A = {}
    <3>1. Sorted(A, [i \in 1..0 |-> 0])
      BY <2>2, FS_EmptySet
    <3>2. QED
      BY <3>1
  <2>3. CASE A # {}
    <3>1. PICK m \in A : \A v \in A : [x \in A |-> x][v] <= [x \in A |-> x][m]
      BY <2>1, <2>3, GreatestNumber
    <3>2. \A v \in A \ {m} : v < m
      BY <3>1
    <3>3. PICK n \in Nat : n = Cardinality(A \ {m}) /\ Cardinality(A) = n + 1
      <4>1. IsFiniteSet(A \ {m}) /\ Cardinality(A \ {m}) = Cardinality(A) - 1
        BY <2>1, FS_RemoveElement
      <4>2. Cardinality(A) \in Nat /\ Cardinality(A \ {m}) \in Nat
        BY <2>1, <4>1, FS_CardinalityType
      <4>3. QED
        BY <4>1, <4>2
    <3>4. PICK s : Sorted(A \ {m}, s)
      BY <1>1
    <3>5. s \in [1..n -> A \ {m}] /\ \A i, k \in 1..n : i < k => s[i] < s[k]
      BY <3>3, <3>4
    <3> DEFINE t == [i \in 1..(n + 1) |-> IF i = n + 1 THEN m ELSE s[i]]
    <3>6. \A i \in 1..n : t[i] = s[i] /\ s[i] \in A \ {m}
      BY <3>5
    <3>7. t[n + 1] = m /\ t \in [1..(n + 1) -> A]
      BY <3>5
    <3> HIDE DEF t
    <3>8. ASSUME NEW i \in 1..(n + 1), NEW k \in 1..(n + 1), i < k
          PROVE  t[i] < t[k]
      <4>1. CASE k \in 1..n
        BY <3>5, <3>6, <3>8, <4>1
      <4>2. CASE k = n + 1
        <5>1. t[i] \in A \ {m}
          BY <3>6, <3>8, <4>2
        <5>2. QED
          BY <5>1, <3>2, <3>7, <4>2
      <4>3. QED
        BY <4>1, <4>2
    <3>9. Sorted(A, t)
      BY <3>3, <3>7, <3>8
    <3>10. QED
      BY <3>9
  <2>4. QED
    BY <2>2, <2>3
<1>2. ps \in Good
  <2> HIDE DEF Good
  <2>1. QED
    BY <1>1, SubsetInduction
<1>3. \E s \in [1..Cardinality(ps) -> ps] : \A i, k \in DOMAIN s : i < k => s[i] < s[k]
  BY <1>2
<1>4. QED
  BY <1>3 DEF InOrder

-----------------------------------------------------------------------------
(* The global order of the locks: by kind, what is a guest's before what is *)
(* a customer's among rows and after it among carts, then by number.         *)

Class(r) ==
    CASE r[1] = "order" -> 1
      [] r[1] = "payment" -> 2
      [] r[1] = "line" -> 3
      [] r[1] = "user" -> 4
      [] r[1] = "cart" -> IF r[2] \in Guests THEN 6 ELSE 5
      [] r[1] = "addresses" -> 7
      [] r[1] = "row" -> IF RowCart[r[2]] \in Guests THEN 8 ELSE 9
      [] r[1] = "product" -> 10
      [] r[1] = "group" -> 11

Number(r) == IF r[1] \in {"line", "row", "product"} THEN r[2] ELSE 0

Below(q, r) == Class(q) < Class(r) \/ (Class(q) = Class(r) /\ Number(q) < Number(r))

\* A program, or a part of one, that takes locks of classes lo to hi upwards.
Climbs(s, lo, hi) ==
    /\ s \in Seq(Locks)
    /\ \A i \in 1..Len(s) : lo <= Class(s[i].row) /\ Class(s[i].row) <= hi
    /\ \A i, k \in 1..Len(s) : i < k => Below(s[i].row, s[k].row)

LEMMA RowTypes ==
    /\ \A o \in Orders : Lock("order", o) \in Locks /\ Lock("payment", o) \in Locks
    /\ \A l \in LineIds : Lock("line", l) \in Locks
    /\ \A u \in Users : /\ Lock("user", u) \in Locks /\ Share("user", u) \in Locks
                         /\ Lock("addresses", u) \in Locks
    /\ \A c \in Carts : Lock("cart", c) \in Locks /\ Share("cart", c) \in Locks
    /\ \A r \in CartRows : Lock("row", r) \in Locks
    /\ \A p \in Products : Lock("product", p) \in Locks /\ Share("product", p) \in Locks
    /\ Lock("group", 0) \in Locks
BY DEF Lock, Share, Locks, Lockable

LEMMA RanksAreNumbers ==
    ASSUME NEW r \in Lockable
    PROVE  Class(r) \in 1..11 /\ Number(r) \in Nat
<1> USE LockConstants
<1>1. CASE r \in {"order", "payment"} \X Orders
  BY <1>1 DEF Class, Number
<1>2. CASE r \in {"user", "addresses"} \X Users
  BY <1>2 DEF Class, Number
<1>3. CASE r \in {"cart"} \X Carts
  BY <1>3 DEF Class, Number
<1>4. CASE r \in {"product"} \X Products
  BY <1>4 DEF Class, Number
<1>5. CASE r \in {"row"} \X CartRows
  BY <1>5 DEF Class, Number
<1>6. CASE r \in {"line"} \X LineIds
  BY <1>6 DEF Class, Number
<1>7. CASE r \in {"group"} \X {0}
  BY <1>7 DEF Class, Number
<1>8. QED
  BY <1>1, <1>2, <1>3, <1>4, <1>5, <1>6, <1>7 DEF Lockable

LEMMA ClassOf ==
    /\ \A o : Class(Lock("order", o).row) = 1 /\ Class(Lock("payment", o).row) = 2
    /\ \A l : Class(Lock("line", l).row) = 3
    /\ \A u : /\ Class(Lock("user", u).row) = 4 /\ Class(Share("user", u).row) = 4
              /\ Class(Lock("addresses", u).row) = 7
    /\ \A c : Class(Lock("cart", c).row) = IF c \in Guests THEN 6 ELSE 5
    /\ \A r : Class(Lock("row", r).row) = IF RowCart[r] \in Guests THEN 8 ELSE 9
    /\ \A p : Class(Lock("product", p).row) = 10 /\ Class(Share("product", p).row) = 10
    /\ Class(Lock("group", 0).row) = 11
BY DEF Class, Lock, Share

\* One climb after another that starts above it is a climb.
LEMMA ClimbOn ==
    ASSUME NEW s, NEW t, NEW a \in Int, NEW b \in Int, NEW c \in Int, NEW d \in Int,
           Climbs(s, a, b), Climbs(t, c, d), a <= c, b < c, b <= d
    PROVE  Climbs(s \o t, a, d)
<1> DEFINE r == s \o t
<1>1. PICK m \in Nat, n \in Nat : m = Len(s) /\ n = Len(t)
  BY LenProperties DEF Climbs
<1>2. /\ r \in Seq(Locks) /\ Len(r) = m + n
      /\ \A i \in 1..m : r[i] = s[i] /\ s[i] \in Locks
      /\ \A i \in (m + 1)..(m + n) : i - m \in 1..n /\ r[i] = t[i - m] /\ t[i - m] \in Locks
  BY <1>1, ConcatProperties, ElementOfSeq DEF Climbs
<1> HIDE DEF r
<1> DEFINE CS == [i \in 1..m |-> Class(s[i].row)]
           CT == [i \in 1..n |-> Class(t[i].row)]
           CR == [i \in 1..(m + n) |-> Class(r[i].row)]
<1>3. /\ \A i \in 1..m : CR[i] = CS[i] /\ CS[i] \in Int /\ a <= CS[i] /\ CS[i] <= b
      /\ \A i \in (m + 1)..(m + n) :
           CR[i] = CT[i - m] /\ CT[i - m] \in Int /\ c <= CT[i - m] /\ CT[i - m] <= d
  <2>1. ASSUME NEW i \in 1..m
        PROVE  CR[i] = CS[i] /\ CS[i] \in Int /\ a <= CS[i] /\ CS[i] <= b
    <3>1. i \in 1..(m + n) /\ s[i].row \in Lockable /\ i \in 1..Len(s)
      BY <1>1, <1>2 DEF Locks
    <3>2. CR[i] = CS[i] /\ CS[i] = Class(s[i].row)
      BY <1>2, <3>1
    <3>3. CS[i] \in 1..11
      BY <3>1, <3>2, RanksAreNumbers
    <3>4. QED
      BY <3>1, <3>2, <3>3 DEF Climbs
  <2>2. ASSUME NEW i \in (m + 1)..(m + n)
        PROVE  CR[i] = CT[i - m] /\ CT[i - m] \in Int /\ c <= CT[i - m] /\ CT[i - m] <= d
    <3>1. i \in 1..(m + n) /\ t[i - m].row \in Lockable /\ i - m \in 1..Len(t) /\ i - m \in 1..n
      BY <1>1, <1>2 DEF Locks
    <3>2. CR[i] = CT[i - m] /\ CT[i - m] = Class(t[i - m].row)
      BY <1>2, <3>1
    <3>3. CT[i - m] \in 1..11
      BY <3>1, <3>2, RanksAreNumbers
    <3>4. QED
      BY <3>1, <3>2, <3>3 DEF Climbs
  <2>3. QED
    BY <2>1, <2>2
<1>4. \A i \in 1..(m + n) : CR[i] = Class(r[i].row)
  OBVIOUS
<1> HIDE DEF CS, CT, CR
<1>5. \A i \in 1..(m + n) : a <= CR[i] /\ CR[i] <= d
  BY <1>3
<1>6. \A i \in 1..m, k \in (m + 1)..(m + n) : CR[i] < CR[k]
  BY <1>3
<1>7. ASSUME NEW i \in 1..(m + n), NEW k \in 1..(m + n), i < k
      PROVE  Below(r[i].row, r[k].row)
  <2>1. CASE k \in 1..m
    <3>1. i \in 1..Len(s) /\ k \in 1..Len(s) /\ r[i] = s[i] /\ r[k] = s[k]
      BY <1>1, <1>2, <1>7, <2>1
    <3>2. QED
      BY <1>7, <3>1 DEF Climbs
  <2>2. CASE i \in (m + 1)..(m + n)
    <3>1. /\ i - m \in 1..Len(t) /\ k - m \in 1..Len(t) /\ i - m < k - m
          /\ r[i] = t[i - m] /\ r[k] = t[k - m]
      BY <1>1, <1>2, <1>7, <2>2
    <3>2. Below(t[i - m].row, t[k - m].row)
      BY <3>1 DEF Climbs
    <3>3. QED
      BY <3>1, <3>2
  <2>3. CASE i \in 1..m /\ k \in (m + 1)..(m + n)
    BY <1>4, <1>6, <2>3 DEF Below
  <2>4. QED
    BY <2>1, <2>2, <2>3
<1>8. QED
  BY <1>2, <1>4, <1>5, <1>7 DEF Climbs, r

Elements(s) == {s[i] : i \in 1..Len(s)}

LEMMA ElementsOfConcat ==
    ASSUME NEW s \in Seq(Locks), NEW t \in Seq(Locks)
    PROVE  /\ s \o t \in Seq(Locks)
           /\ \A i \in 1..Len(s) : i \in 1..Len(s \o t) /\ (s \o t)[i] = s[i]
           /\ Elements(s \o t) = Elements(s) \cup Elements(t)
<1> DEFINE r == s \o t
<1>1. PICK m \in Nat, n \in Nat : m = Len(s) /\ n = Len(t)
  BY LenProperties
<1>2. /\ r \in Seq(Locks) /\ Len(r) = m + n
      /\ \A i \in 1..m : r[i] = s[i]
      /\ \A i \in (m + 1)..(m + n) : i - m \in 1..n /\ r[i] = t[i - m]
  BY <1>1, ConcatProperties
<1> HIDE DEF r
<1>3. \A i \in 1..m : i \in 1..(m + n) /\ r[i] = s[i]
  BY <1>2
<1>4. \A i \in 1..n : i + m \in 1..(m + n) /\ r[i + m] = t[i]
  BY <1>2
<1>5. ASSUME NEW i \in 1..(m + n)
      PROVE  (\E k \in 1..m : r[i] = s[k]) \/ \E k \in 1..n : r[i] = t[k]
  <2>1. CASE i \in 1..m
    BY <1>2, <2>1
  <2>2. CASE i \in (m + 1)..(m + n)
    BY <1>2, <2>2
  <2>3. QED
    BY <2>1, <2>2
<1>6. {r[i] : i \in 1..(m + n)} = {s[i] : i \in 1..m} \cup {t[i] : i \in 1..n}
  <2>1. \A i \in 1..(m + n) : r[i] \in {s[k] : k \in 1..m} \cup {t[k] : k \in 1..n}
    BY <1>5
  <2>2. \A i \in 1..m : s[i] \in {r[k] : k \in 1..(m + n)}
    BY <1>3
  <2>3. \A i \in 1..n : t[i] \in {r[k] : k \in 1..(m + n)}
    BY <1>4
  <2>4. QED
    BY <2>1, <2>2, <2>3
<1>7. QED
  BY <1>1, <1>2, <1>3, <1>6 DEF r, Elements

\* Lines, rows and products of one class are climbed by their numbers.
LEMMA InTurnClimbs ==
    ASSUME NEW kind \in {"line", "row", "product"}, NEW ids, IsFiniteSet(ids), ids \subseteq Nat,
           NEW h \in Int, \A id \in ids : Lock(kind, id) \in Locks /\ Class(Lock(kind, id).row) = h
    PROVE  /\ Climbs(InTurn(kind, ids), h, h)
           /\ Elements(InTurn(kind, ids)) \subseteq {Lock(kind, id) : id \in ids}
<1> DEFINE n == Cardinality(ids)
           s == InTurn(kind, ids)
<1>1. /\ n \in Nat /\ InOrder(ids) \in [1..n -> ids]
      /\ \A i, k \in 1..n : i < k => InOrder(ids)[i] < InOrder(ids)[k]
  BY FS_CardinalityType, Ascending
<1> HIDE DEF n
<1>2. s = [k \in 1..n |-> Lock(kind, InOrder(ids)[k])]
  BY <1>1 DEF InTurn
<1> HIDE DEF s
<1>3. \A k \in 1..n : /\ s[k] \in Locks /\ InOrder(ids)[k] \in ids
                       /\ s[k] = Lock(kind, InOrder(ids)[k])
                       /\ Class(s[k].row) = h
  BY <1>1, <1>2
<1>4. s \in Seq(Locks) /\ Len(s) = n
  BY <1>1, <1>2, <1>3
<1>5. \A k \in 1..n : Number(s[k].row) = InOrder(ids)[k]
  <2>1. \A id \in ids : Number(Lock(kind, id).row) = id
    BY DEF Number, Lock
  <2>2. QED
    BY <1>3, <2>1
<1>6. Climbs(s, h, h)
  BY <1>1, <1>3, <1>4, <1>5 DEF Climbs, Below
<1>7. Elements(s) \subseteq {Lock(kind, id) : id \in ids}
  BY <1>3, <1>4 DEF Elements
<1>8. QED
  BY <1>6, <1>7 DEF s

LEMMA ProductsClimb ==
    ASSUME NEW ps \in SUBSET Products
    PROVE  /\ Climbs(InTurn("product", ps), 10, 10)
           /\ Elements(InTurn("product", ps)) \subseteq {Lock("product", p) : p \in ps}
<1> DEFINE h == 10
<1>1. IsFiniteSet(ps) /\ ps \subseteq Nat /\ h \in Int
  <2>1. IsFiniteSet(ps)
    BY FS_Subset, LockConstants
  <2>2. ps \subseteq Nat /\ h \in Int
    BY LockConstants
  <2>3. QED
    BY <2>1, <2>2
<1>2. \A p \in ps : Lock("product", p) \in Locks /\ Class(Lock("product", p).row) = h
  BY RowTypes, ClassOf
<1> HIDE DEF h
<1>3. /\ Climbs(InTurn("product", ps), h, h)
      /\ Elements(InTurn("product", ps)) \subseteq {Lock("product", p) : p \in ps}
  BY <1>1, <1>2, InTurnClimbs
<1>4. QED
  BY <1>3 DEF h

LEMMA LinesClimb ==
    ASSUME NEW ls \in SUBSET LineIds
    PROVE  /\ Climbs(InTurn("line", ls), 3, 3)
           /\ Elements(InTurn("line", ls)) \subseteq {Lock("line", l) : l \in ls}
<1> DEFINE h == 3
<1>1. IsFiniteSet(ls) /\ ls \subseteq Nat /\ h \in Int
  <2>1. IsFiniteSet(ls)
    BY FS_Subset, LockConstants
  <2>2. ls \subseteq Nat /\ h \in Int
    BY LockConstants
  <2>3. QED
    BY <2>1, <2>2
<1>2. \A l \in ls : Lock("line", l) \in Locks /\ Class(Lock("line", l).row) = h
  BY RowTypes, ClassOf
<1> HIDE DEF h
<1>3. /\ Climbs(InTurn("line", ls), h, h)
      /\ Elements(InTurn("line", ls)) \subseteq {Lock("line", l) : l \in ls}
  BY <1>1, <1>2, InTurnClimbs
<1>4. QED
  BY <1>3 DEF h

LEMMA CartRowsClimb ==
    ASSUME NEW c \in Carts, NEW rs \in SUBSET RowsOf(c)
    PROVE  /\ LET h == IF c \in Guests THEN 8 ELSE 9 IN Climbs(InTurn("row", rs), h, h)
           /\ Elements(InTurn("row", rs)) \subseteq {Lock("row", r) : r \in rs}
<1>1. rs \subseteq CartRows /\ \A r \in rs : RowCart[r] = c
  BY DEF RowsOf
<1> DEFINE h == IF c \in Guests THEN 8 ELSE 9
<1>2. h \in Int
  OBVIOUS
<1>3. \A r \in rs : Lock("row", r) \in Locks /\ Class(Lock("row", r).row) = h
  BY <1>1, RowTypes, ClassOf
<1>4. IsFiniteSet(rs) /\ rs \subseteq Nat
  BY <1>1, FS_Subset, LockConstants
<1> HIDE DEF h
<1>5. Climbs(InTurn("row", rs), h, h) /\ Elements(InTurn("row", rs)) \subseteq {Lock("row", r) : r \in rs}
  BY <1>2, <1>3, <1>4, InTurnClimbs
<1>6. QED
  BY <1>5 DEF h

\* Rows of several carts, as a page deletes them.
LEMMA RowsTyped ==
    ASSUME NEW rs \in SUBSET CartRows
    PROVE  InTurn("row", rs) \in Seq(Locks)
<1> DEFINE n == Cardinality(rs)
<1>1. n \in Nat /\ InOrder(rs) \in [1..n -> rs]
  BY FS_Subset, FS_CardinalityType, Ascending, LockConstants
<1> HIDE DEF n
<1>2. InTurn("row", rs) = [k \in 1..n |-> Lock("row", InOrder(rs)[k])]
  BY <1>1 DEF InTurn
<1>3. \A k \in 1..n : Lock("row", InOrder(rs)[k]) \in Locks
  BY <1>1, RowTypes
<1>4. QED
  BY <1>1, <1>2, <1>3

-----------------------------------------------------------------------------
(* The programs of the transactions.                                         *)

LEMMA JobForms ==
    ASSUME NEW j \in Jobs
    PROVE  \/ j.op \in {"initiate", "callback"} /\ j.order \in Orders
           \/ j.op \in {"transition", "deleteOrdered"} /\ j.order \in Orders /\ j.by \in Users
           \/ j.op \in {"add", "change", "remove"} /\ j.row \in CartRows
           \/ j.op = "merge" /\ j.user \in Users /\ j.guest \in Guests
           \/ j.op \in {"checkout", "address", "dropAddress"} /\ j.user \in Users
           \/ j.op = "visit" /\ j.by \in Users
           \/ j.op \in {"review", "stock", "deleteProduct"} /\ j.product \in Products /\ j.by \in Users
           \/ j.op \in {"saveCart", "deleteCart"} /\ j.cart \in Carts /\ j.by \in Users
           \/ j.op \in {"saveRow", "restore"} /\ j.row \in CartRows /\ j.by \in Users
           \/ j.op \in {"place", "account"} /\ j.user \in Users /\ j.by \in Users
           \/ j.op = "relate" /\ j.product \in Products /\ j.other \in Products /\ j.by \in Users
           \/ j.op \in {"move", "list"} /\ j.user \in Users /\ j.other \in Users /\ j.by \in Users
BY LockConstants DEF Jobs

\* What a transaction locks for its own business, by operation.
LEMMA WorkOf ==
    ASSUME NEW j \in Jobs
    PROVE  LET s == Work(j) IN
           /\ j.op = "initiate" =>
                 s = <<Lock("order", j.order), Lock("payment", j.order), Share("user", Customer[j.order])>>
           /\ j.op = "callback" => s = OrderLocks(j.order)
           /\ j.op = "transition" => s = <<Lock("order", j.order), Share("user", j.by)>>
           /\ j.op = "stock" => s = <<Lock("product", j.product)>>
           /\ j.op = "add" =>
                 s = <<Lock("cart", RowCart[j.row]), Lock("product", RowProduct[j.row]), Lock("row", j.row)>>
           /\ j.op = "change" =>
                 s = <<Lock("cart", RowCart[j.row]), Lock("row", j.row), Lock("product", RowProduct[j.row])>>
           /\ j.op \in {"remove", "saveRow"} => s = <<Lock("row", j.row)>>
           /\ j.op \in {"address", "place"} => s = <<Lock("user", j.user), Lock("addresses", j.user)>>
           /\ j.op = "dropAddress" => s = <<Lock("addresses", j.user)>>
           /\ j.op = "visit" => s = <<Lock("cart", CartOf[j.by])>>
           /\ j.op = "review" => s = <<Share("product", j.product)>>
           /\ j.op = "account" => s = <<Lock("user", j.user), Lock("group", 0)>>
           /\ j.op = "saveCart" => s = <<Lock("cart", j.cart)>> \o InTurn("row", RowsOf(j.cart))
           /\ j.op = "checkout" =>
                 s = <<Lock("user", j.user), Lock("cart", CartOf[j.user]), Lock("addresses", j.user)>>
                     \o InTurn("row", RowsOf(CartOf[j.user]))
                     \o InTurn("product", ProductsIn(CartOf[j.user]))
           /\ j.op = "merge" =>
                 s = <<Lock("user", j.user), Lock("cart", CartOf[j.user]), Lock("cart", j.guest)>>
                     \o InTurn("row", RowsOf(j.guest))
                     \o InTurn("row", {r \in RowsOf(CartOf[j.user]) : RowProduct[r] \in ProductsIn(j.guest)})
                     \o InTurn("product", ProductsIn(j.guest))
BY DEF Work, ServiceLocks, PageLocks, AgainstOrder, InOrderPages

\* What the argument needs of the locks of a transaction that keeps the order:
\* they climb, unless a product is added; a user's row is locked for update by
\* operations on that user only; a cart row is locked after its cart, except by
\* the adding, the removal and the page of a row.
Orderly(j, s) ==
    /\ s \in Seq(Locks)
    /\ j.op # "add" => Climbs(s, 1, 11)
    /\ \A l \in Elements(s) :
          /\ l.row[1] = "user" /\ l.mode # "share" => j.op \in OfUser /\ l.row[2] = j.user
          /\ l.row[1] = "row" => \/ j.op \in {"add", "remove", "saveRow"}
                                \/ Lock("cart", RowCart[l.row[2]]) \in Elements(s)

LEMMA WiderClimb ==
    ASSUME NEW s, NEW lo \in Int, NEW hi \in Int, Climbs(s, lo, hi), 1 <= lo, hi <= 11
    PROVE  Climbs(s, 1, 11)
<1>1. \A i \in 1..Len(s) : s[i] \in Locks
  BY ElementOfSeq DEF Climbs
<1>2. \A i \in 1..Len(s) : Class(s[i].row) \in 1..11
  BY <1>1, RanksAreNumbers DEF Locks
<1>3. QED
  BY <1>2 DEF Climbs

LEMMA ShortWork ==
    ASSUME NEW j \in Jobs,
           j.op \in {"initiate", "transition", "stock", "add", "change", "remove", "address",
                    "dropAddress", "visit", "review", "place", "account", "saveRow"}
    PROVE  Orderly(j, Work(j))
<1> DEFINE s == Work(j)
<1>1. CASE j.op = "initiate"
  <2> DEFINE a == Lock("order", j.order)
             b == Lock("payment", j.order)
             c == Share("user", Customer[j.order])
  <2>1. j.order \in Orders /\ Customer[j.order] \in Users
    BY <1>1, JobForms, LockConstants
  <2>2. a \in Locks /\ b \in Locks /\ c \in Locks
    BY <2>1, RowTypes
  <2>3. s = <<a, b, c>>
    BY <1>1, WorkOf
  <2>4. Class(a.row) \in 1..11 /\ Class(b.row) \in 1..11 /\ Class(c.row) \in 1..11 /\ Class(a.row) < Class(b.row) /\ Class(b.row) < Class(c.row)
    BY ClassOf
  <2>5. \A l \in {a, b, c} :
          /\ l.row[1] = "user" /\ l.mode # "share" => j.op \in OfUser /\ l.row[2] = j.user
          /\ l.row[1] = "row" => \/ j.op \in {"add", "remove", "saveRow"}
                                \/ Lock("cart", RowCart[l.row[2]]) \in {a, b, c}
    BY <1>1 DEF Lock, Share, OfUser
  <2> HIDE DEF a, b, c
  <2>6. s \in Seq(Locks) /\ Elements(s) = {a, b, c}
    BY <2>2, <2>3 DEF Elements
  <2>7. Climbs(s, 1, 11)
    BY <2>2, <2>3, <2>4 DEF Climbs, Below
  <2> HIDE DEF s
  <2>8. QED
    BY <1>1, <2>5, <2>6, <2>7 DEF Orderly, s
<1>2. CASE j.op = "transition"
  <2> DEFINE a == Lock("order", j.order)
             b == Share("user", j.by)
  <2>1. j.order \in Orders /\ j.by \in Users
    BY <1>2, JobForms, LockConstants
  <2>2. a \in Locks /\ b \in Locks
    BY <2>1, RowTypes
  <2>3. s = <<a, b>>
    BY <1>2, WorkOf
  <2>4. Class(a.row) \in 1..11 /\ Class(b.row) \in 1..11 /\ Class(a.row) < Class(b.row)
    BY ClassOf
  <2>5. \A l \in {a, b} :
          /\ l.row[1] = "user" /\ l.mode # "share" => j.op \in OfUser /\ l.row[2] = j.user
          /\ l.row[1] = "row" => \/ j.op \in {"add", "remove", "saveRow"}
                                \/ Lock("cart", RowCart[l.row[2]]) \in {a, b}
    BY <1>2 DEF Lock, Share, OfUser
  <2> HIDE DEF a, b
  <2>6. s \in Seq(Locks) /\ Elements(s) = {a, b}
    BY <2>2, <2>3 DEF Elements
  <2>7. Climbs(s, 1, 11)
    BY <2>2, <2>3, <2>4 DEF Climbs, Below
  <2> HIDE DEF s
  <2>8. QED
    BY <1>2, <2>5, <2>6, <2>7 DEF Orderly, s
<1>3. CASE j.op = "stock"
  <2> DEFINE a == Lock("product", j.product)
  <2>1. j.product \in Products
    BY <1>3, JobForms, LockConstants
  <2>2. a \in Locks
    BY <2>1, RowTypes
  <2>3. s = <<a>>
    BY <1>3, WorkOf
  <2>4. Class(a.row) \in 1..11
    BY ClassOf
  <2>5. \A l \in {a} :
          /\ l.row[1] = "user" /\ l.mode # "share" => j.op \in OfUser /\ l.row[2] = j.user
          /\ l.row[1] = "row" => \/ j.op \in {"add", "remove", "saveRow"}
                                \/ Lock("cart", RowCart[l.row[2]]) \in {a}
    BY <1>3 DEF Lock, Share, OfUser
  <2> HIDE DEF a
  <2>6. s \in Seq(Locks) /\ Elements(s) = {a}
    BY <2>2, <2>3 DEF Elements
  <2>7. Climbs(s, 1, 11)
    BY <2>2, <2>3, <2>4 DEF Climbs, Below
  <2> HIDE DEF s
  <2>8. QED
    BY <1>3, <2>5, <2>6, <2>7 DEF Orderly, s
<1>4. CASE j.op = "add"
  <2> DEFINE a == Lock("cart", RowCart[j.row])
             b == Lock("product", RowProduct[j.row])
             c == Lock("row", j.row)
  <2>1. j.row \in CartRows /\ RowCart[j.row] \in Carts /\ RowProduct[j.row] \in Products
    BY <1>4, JobForms, LockConstants
  <2>2. a \in Locks /\ b \in Locks /\ c \in Locks
    BY <2>1, RowTypes
  <2>3. s = <<a, b, c>>
    BY <1>4, WorkOf
  <2>4. \A l \in {a, b, c} :
          /\ l.row[1] = "user" /\ l.mode # "share" => j.op \in OfUser /\ l.row[2] = j.user
          /\ l.row[1] = "row" => \/ j.op \in {"add", "remove", "saveRow"}
                                \/ Lock("cart", RowCart[l.row[2]]) \in {a, b, c}
    BY <1>4 DEF Lock, Share, OfUser
  <2> HIDE DEF a, b, c
  <2>5. s \in Seq(Locks) /\ Elements(s) = {a, b, c}
    BY <2>2, <2>3 DEF Elements
  <2> HIDE DEF s
  <2>6. QED
    BY <1>4, <2>4, <2>5 DEF Orderly, s
<1>5. CASE j.op = "change"
  <2> DEFINE a == Lock("cart", RowCart[j.row])
             b == Lock("row", j.row)
             c == Lock("product", RowProduct[j.row])
  <2>1. j.row \in CartRows /\ RowCart[j.row] \in Carts /\ RowProduct[j.row] \in Products
    BY <1>5, JobForms, LockConstants
  <2>2. a \in Locks /\ b \in Locks /\ c \in Locks
    BY <2>1, RowTypes
  <2>3. s = <<a, b, c>>
    BY <1>5, WorkOf
  <2>4. Class(a.row) \in 1..11 /\ Class(b.row) \in 1..11 /\ Class(c.row) \in 1..11 /\ Class(a.row) < Class(b.row) /\ Class(b.row) < Class(c.row)
    BY ClassOf
  <2>5. \A l \in {a, b, c} :
          /\ l.row[1] = "user" /\ l.mode # "share" => j.op \in OfUser /\ l.row[2] = j.user
          /\ l.row[1] = "row" => \/ j.op \in {"add", "remove", "saveRow"}
                                \/ Lock("cart", RowCart[l.row[2]]) \in {a, b, c}
    BY <1>5 DEF Lock, Share, OfUser
  <2> HIDE DEF a, b, c
  <2>6. s \in Seq(Locks) /\ Elements(s) = {a, b, c}
    BY <2>2, <2>3 DEF Elements
  <2>7. Climbs(s, 1, 11)
    BY <2>2, <2>3, <2>4 DEF Climbs, Below
  <2> HIDE DEF s
  <2>8. QED
    BY <1>5, <2>5, <2>6, <2>7 DEF Orderly, s
<1>6. CASE j.op \in {"remove", "saveRow"}
  <2> DEFINE a == Lock("row", j.row)
  <2>1. j.row \in CartRows
    BY <1>6, JobForms, LockConstants
  <2>2. a \in Locks
    BY <2>1, RowTypes
  <2>3. s = <<a>>
    BY <1>6, WorkOf
  <2>4. Class(a.row) \in 1..11
    BY ClassOf
  <2>5. \A l \in {a} :
          /\ l.row[1] = "user" /\ l.mode # "share" => j.op \in OfUser /\ l.row[2] = j.user
          /\ l.row[1] = "row" => \/ j.op \in {"add", "remove", "saveRow"}
                                \/ Lock("cart", RowCart[l.row[2]]) \in {a}
    BY <1>6 DEF Lock, Share, OfUser
  <2> HIDE DEF a
  <2>6. s \in Seq(Locks) /\ Elements(s) = {a}
    BY <2>2, <2>3 DEF Elements
  <2>7. Climbs(s, 1, 11)
    BY <2>2, <2>3, <2>4 DEF Climbs, Below
  <2> HIDE DEF s
  <2>8. QED
    BY <1>6, <2>5, <2>6, <2>7 DEF Orderly, s
<1>7. CASE j.op \in {"address", "place"}
  <2> DEFINE a == Lock("user", j.user)
             b == Lock("addresses", j.user)
  <2>1. j.user \in Users
    BY <1>7, JobForms, LockConstants
  <2>2. a \in Locks /\ b \in Locks
    BY <2>1, RowTypes
  <2>3. s = <<a, b>>
    BY <1>7, WorkOf
  <2>4. Class(a.row) \in 1..11 /\ Class(b.row) \in 1..11 /\ Class(a.row) < Class(b.row)
    BY ClassOf
  <2>5. \A l \in {a, b} :
          /\ l.row[1] = "user" /\ l.mode # "share" => j.op \in OfUser /\ l.row[2] = j.user
          /\ l.row[1] = "row" => \/ j.op \in {"add", "remove", "saveRow"}
                                \/ Lock("cart", RowCart[l.row[2]]) \in {a, b}
    BY <1>7 DEF Lock, Share, OfUser
  <2> HIDE DEF a, b
  <2>6. s \in Seq(Locks) /\ Elements(s) = {a, b}
    BY <2>2, <2>3 DEF Elements
  <2>7. Climbs(s, 1, 11)
    BY <2>2, <2>3, <2>4 DEF Climbs, Below
  <2> HIDE DEF s
  <2>8. QED
    BY <1>7, <2>5, <2>6, <2>7 DEF Orderly, s
<1>8. CASE j.op = "dropAddress"
  <2> DEFINE a == Lock("addresses", j.user)
  <2>1. j.user \in Users
    BY <1>8, JobForms, LockConstants
  <2>2. a \in Locks
    BY <2>1, RowTypes
  <2>3. s = <<a>>
    BY <1>8, WorkOf
  <2>4. Class(a.row) \in 1..11
    BY ClassOf
  <2>5. \A l \in {a} :
          /\ l.row[1] = "user" /\ l.mode # "share" => j.op \in OfUser /\ l.row[2] = j.user
          /\ l.row[1] = "row" => \/ j.op \in {"add", "remove", "saveRow"}
                                \/ Lock("cart", RowCart[l.row[2]]) \in {a}
    BY <1>8 DEF Lock, Share, OfUser
  <2> HIDE DEF a
  <2>6. s \in Seq(Locks) /\ Elements(s) = {a}
    BY <2>2, <2>3 DEF Elements
  <2>7. Climbs(s, 1, 11)
    BY <2>2, <2>3, <2>4 DEF Climbs, Below
  <2> HIDE DEF s
  <2>8. QED
    BY <1>8, <2>5, <2>6, <2>7 DEF Orderly, s
<1>9. CASE j.op = "visit"
  <2> DEFINE a == Lock("cart", CartOf[j.by])
  <2>1. j.by \in Users /\ CartOf[j.by] \in Carts
    BY <1>9, JobForms, LockConstants
  <2>2. a \in Locks
    BY <2>1, RowTypes
  <2>3. s = <<a>>
    BY <1>9, WorkOf
  <2>4. Class(a.row) \in 1..11
    BY ClassOf
  <2>5. \A l \in {a} :
          /\ l.row[1] = "user" /\ l.mode # "share" => j.op \in OfUser /\ l.row[2] = j.user
          /\ l.row[1] = "row" => \/ j.op \in {"add", "remove", "saveRow"}
                                \/ Lock("cart", RowCart[l.row[2]]) \in {a}
    BY <1>9 DEF Lock, Share, OfUser
  <2> HIDE DEF a
  <2>6. s \in Seq(Locks) /\ Elements(s) = {a}
    BY <2>2, <2>3 DEF Elements
  <2>7. Climbs(s, 1, 11)
    BY <2>2, <2>3, <2>4 DEF Climbs, Below
  <2> HIDE DEF s
  <2>8. QED
    BY <1>9, <2>5, <2>6, <2>7 DEF Orderly, s
<1>10. CASE j.op = "review"
  <2> DEFINE a == Share("product", j.product)
  <2>1. j.product \in Products
    BY <1>10, JobForms, LockConstants
  <2>2. a \in Locks
    BY <2>1, RowTypes
  <2>3. s = <<a>>
    BY <1>10, WorkOf
  <2>4. Class(a.row) \in 1..11
    BY ClassOf
  <2>5. \A l \in {a} :
          /\ l.row[1] = "user" /\ l.mode # "share" => j.op \in OfUser /\ l.row[2] = j.user
          /\ l.row[1] = "row" => \/ j.op \in {"add", "remove", "saveRow"}
                                \/ Lock("cart", RowCart[l.row[2]]) \in {a}
    BY <1>10 DEF Lock, Share, OfUser
  <2> HIDE DEF a
  <2>6. s \in Seq(Locks) /\ Elements(s) = {a}
    BY <2>2, <2>3 DEF Elements
  <2>7. Climbs(s, 1, 11)
    BY <2>2, <2>3, <2>4 DEF Climbs, Below
  <2> HIDE DEF s
  <2>8. QED
    BY <1>10, <2>5, <2>6, <2>7 DEF Orderly, s
<1>11. CASE j.op = "account"
  <2> DEFINE a == Lock("user", j.user)
             b == Lock("group", 0)
  <2>1. j.user \in Users
    BY <1>11, JobForms, LockConstants
  <2>2. a \in Locks /\ b \in Locks
    BY <2>1, RowTypes
  <2>3. s = <<a, b>>
    BY <1>11, WorkOf
  <2>4. Class(a.row) \in 1..11 /\ Class(b.row) \in 1..11 /\ Class(a.row) < Class(b.row)
    BY ClassOf
  <2>5. \A l \in {a, b} :
          /\ l.row[1] = "user" /\ l.mode # "share" => j.op \in OfUser /\ l.row[2] = j.user
          /\ l.row[1] = "row" => \/ j.op \in {"add", "remove", "saveRow"}
                                \/ Lock("cart", RowCart[l.row[2]]) \in {a, b}
    BY <1>11 DEF Lock, Share, OfUser
  <2> HIDE DEF a, b
  <2>6. s \in Seq(Locks) /\ Elements(s) = {a, b}
    BY <2>2, <2>3 DEF Elements
  <2>7. Climbs(s, 1, 11)
    BY <2>2, <2>3, <2>4 DEF Climbs, Below
  <2> HIDE DEF s
  <2>8. QED
    BY <1>11, <2>5, <2>6, <2>7 DEF Orderly, s
<1>12. QED
  BY <1>1, <1>2, <1>3, <1>4, <1>5, <1>6, <1>7, <1>8, <1>9, <1>10, <1>11

LEMMA CallbackWork ==
    ASSUME NEW j \in Jobs, j.op = "callback"
    PROVE  Orderly(j, Work(j))
<1> DEFINE a == Lock("order", j.order)
           b == Lock("payment", j.order)
           head == <<a, b>>
           lines == InTurn("line", LinesOf(j.order))
           goods == InTurn("product", ProductsOf(j.order))
<1>1. j.order \in Orders /\ LinesOf(j.order) \in SUBSET LineIds /\ ProductsOf(j.order) \in SUBSET Products
  BY JobForms, LockConstants DEF LinesOf, ProductsOf
<1>2. a \in Locks /\ b \in Locks /\ Class(a.row) = 1 /\ Class(b.row) = 2
  BY <1>1, RowTypes, ClassOf
<1>3. Climbs(head, 1, 2) /\ Elements(head) = {a, b}
  <2> HIDE DEF a, b
  <2>1. QED
    BY <1>2 DEF Climbs, Below, Elements
<1>4. /\ Climbs(lines, 3, 3) /\ Elements(lines) \subseteq {Lock("line", l) : l \in LinesOf(j.order)}
      /\ Climbs(goods, 10, 10) /\ Elements(goods) \subseteq {Lock("product", p) : p \in ProductsOf(j.order)}
  BY <1>1, LinesClimb, ProductsClimb
<1>5. Work(j) = head \o lines \o goods
  BY WorkOf DEF OrderLocks
<1>6. \A l \in Elements(head) \cup Elements(lines) \cup Elements(goods) : l.row[1] \notin {"user", "row"}
  BY <1>3, <1>4 DEF Lock
<1> HIDE DEF head, lines, goods, a, b
<1>7. Climbs(head \o lines, 1, 3)
  BY <1>3, <1>4, ClimbOn
<1>8. Climbs(head \o lines \o goods, 1, 10)
  BY <1>4, <1>7, ClimbOn
<1>9. Elements(Work(j)) = Elements(head) \cup Elements(lines) \cup Elements(goods)
  BY <1>3, <1>4, <1>5, <1>7, ElementsOfConcat DEF Climbs
<1>10. Climbs(Work(j), 1, 11)
  BY <1>5, <1>8, WiderClimb
<1>11. QED
  BY <1>6, <1>9, <1>10 DEF Orderly, Climbs

LEMMA SaveCartWork ==
    ASSUME NEW j \in Jobs, j.op = "saveCart"
    PROVE  Orderly(j, Work(j))
<1> DEFINE a == Lock("cart", j.cart)
           head == <<a>>
           rows == InTurn("row", RowsOf(j.cart))
           g == IF j.cart \in Guests THEN 6 ELSE 5
           h == IF j.cart \in Guests THEN 8 ELSE 9
<1>1. j.cart \in Carts
  BY JobForms
<1>2. a \in Locks /\ Class(a.row) = g /\ g \in 5..6 /\ h \in 8..9
  BY <1>1, RowTypes, ClassOf
<1>3. Climbs(head, g, g) /\ Elements(head) = {a}
  <2> HIDE DEF a, g, h
  <2>1. QED
    BY <1>2 DEF Climbs, Below, Elements
<1>4. Climbs(rows, h, h) /\ Elements(rows) \subseteq {Lock("row", r) : r \in RowsOf(j.cart)}
  BY <1>1, CartRowsClimb
<1>5. Work(j) = head \o rows
  BY WorkOf
<1>6. \A l \in Elements(head) \cup Elements(rows) :
         /\ l.row[1] # "user"
         /\ l.row[1] = "row" => a = Lock("cart", RowCart[l.row[2]])
  BY <1>3, <1>4 DEF Lock, RowsOf
<1> HIDE DEF head, rows, a, g, h
<1>7. Climbs(head \o rows, g, h)
  BY <1>2, <1>3, <1>4, ClimbOn
<1>8. Elements(Work(j)) = Elements(head) \cup Elements(rows)
  BY <1>3, <1>4, <1>5, ElementsOfConcat DEF Climbs
<1>9. Climbs(Work(j), 1, 11)
  BY <1>2, <1>5, <1>7, WiderClimb
<1>10. QED
  BY <1>3, <1>6, <1>8, <1>9 DEF Orderly, Climbs

LEMMA CheckoutWork ==
    ASSUME NEW j \in Jobs, j.op = "checkout"
    PROVE  Orderly(j, Work(j))
<1> DEFINE mine == CartOf[j.user]
           a == Lock("user", j.user)
           b == Lock("cart", mine)
           c == Lock("addresses", j.user)
           head == <<a, b, c>>
           rows == InTurn("row", RowsOf(mine))
           goods == InTurn("product", ProductsIn(mine))
<1>1. /\ j.user \in Users /\ mine \in Carts /\ mine \notin Guests
      /\ RowsOf(mine) \in SUBSET RowsOf(mine) /\ ProductsIn(mine) \in SUBSET Products
  BY JobForms, LockConstants DEF RowsOf, ProductsIn
<1>2. /\ a \in Locks /\ b \in Locks /\ c \in Locks
      /\ Class(a.row) = 4 /\ Class(b.row) = 5 /\ Class(c.row) = 7
  BY <1>1, RowTypes, ClassOf
<1>3. Climbs(head, 4, 7) /\ Elements(head) = {a, b, c}
  <2> HIDE DEF a, b, c
  <2>1. QED
    BY <1>2 DEF Climbs, Below, Elements
<1>4. /\ Climbs(rows, 9, 9) /\ Elements(rows) \subseteq {Lock("row", r) : r \in RowsOf(mine)}
      /\ Climbs(goods, 10, 10) /\ Elements(goods) \subseteq {Lock("product", p) : p \in ProductsIn(mine)}
  BY <1>1, CartRowsClimb, ProductsClimb
<1>5. Work(j) = head \o rows \o goods
  BY WorkOf
<1>6. \A l \in Elements(head) \cup Elements(rows) \cup Elements(goods) :
         /\ l.row[1] = "user" => l = a
         /\ l.row[1] = "row" => b = Lock("cart", RowCart[l.row[2]])
  <2>1. \A l \in {a, b, c} : l.row[1] # "row" /\ (l.row[1] = "user" => l = a)
    BY DEF Lock
  <2>2. \A r \in RowsOf(mine) : LET l == Lock("row", r) IN
            l.row[1] # "user" /\ b = Lock("cart", RowCart[l.row[2]])
    BY DEF Lock, RowsOf
  <2>3. \A p : Lock("product", p).row[1] = "product"
    BY DEF Lock
  <2>4. QED
    BY <1>3, <1>4, <2>1, <2>2, <2>3
<1>7. a.row[2] = j.user /\ j.op \in OfUser
  BY DEF Lock, OfUser
<1> HIDE DEF mine, head, rows, goods, a, b, c
<1>8. Climbs(head \o rows, 4, 9)
  BY <1>3, <1>4, ClimbOn
<1>9. Climbs(head \o rows \o goods, 4, 10)
  BY <1>4, <1>8, ClimbOn
<1>10. Elements(Work(j)) = Elements(head) \cup Elements(rows) \cup Elements(goods)
  BY <1>3, <1>4, <1>5, <1>8, ElementsOfConcat DEF Climbs
<1>11. Climbs(Work(j), 1, 11)
  BY <1>5, <1>9, WiderClimb
<1>12. QED
  BY <1>3, <1>6, <1>7, <1>10, <1>11 DEF Orderly, Climbs

LEMMA MergeWork ==
    ASSUME NEW j \in Jobs, j.op = "merge"
    PROVE  Orderly(j, Work(j))
<1> DEFINE mine == CartOf[j.user]
           both == {r \in RowsOf(mine) : RowProduct[r] \in ProductsIn(j.guest)}
           a == Lock("user", j.user)
           b == Lock("cart", mine)
           c == Lock("cart", j.guest)
           head == <<a, b, c>>
           rowsG == InTurn("row", RowsOf(j.guest))
           rowsM == InTurn("row", both)
           goods == InTurn("product", ProductsIn(j.guest))
<1>1. /\ j.user \in Users /\ j.guest \in Guests /\ j.guest \in Carts
      /\ mine \in Carts /\ mine \notin Guests
  BY JobForms, LockConstants
<1>2. /\ RowsOf(j.guest) \in SUBSET RowsOf(j.guest) /\ both \in SUBSET RowsOf(mine)
      /\ ProductsIn(j.guest) \in SUBSET Products
  BY LockConstants DEF RowsOf, ProductsIn
<1>3. /\ a \in Locks /\ b \in Locks /\ c \in Locks
      /\ Class(a.row) = 4 /\ Class(b.row) = 5 /\ Class(c.row) = 6
  BY <1>1, RowTypes, ClassOf
<1>4. Climbs(head, 4, 6) /\ Elements(head) = {a, b, c}
  <2> HIDE DEF a, b, c
  <2>1. QED
    BY <1>3 DEF Climbs, Below, Elements
<1>5. /\ Climbs(rowsG, 8, 8) /\ Elements(rowsG) \subseteq {Lock("row", r) : r \in RowsOf(j.guest)}
      /\ Climbs(rowsM, 9, 9) /\ Elements(rowsM) \subseteq {Lock("row", r) : r \in both}
      /\ Climbs(goods, 10, 10)
      /\ Elements(goods) \subseteq {Lock("product", p) : p \in ProductsIn(j.guest)}
  BY <1>1, <1>2, CartRowsClimb, ProductsClimb
<1>6. Work(j) = head \o rowsG \o rowsM \o goods
  BY WorkOf
<1>7. \A l \in Elements(head) \cup Elements(rowsG) \cup Elements(rowsM) \cup Elements(goods) :
         /\ l.row[1] = "user" => l = a
         /\ l.row[1] = "row" => Lock("cart", RowCart[l.row[2]]) \in {b, c}
  <2>1. \A l \in {a, b, c} : l.row[1] # "row" /\ (l.row[1] = "user" => l = a)
    BY DEF Lock
  <2>2. \A r \in RowsOf(j.guest) : LET l == Lock("row", r) IN
            l.row[1] # "user" /\ c = Lock("cart", RowCart[l.row[2]])
    BY DEF Lock, RowsOf
  <2>3. \A r \in both : LET l == Lock("row", r) IN
            l.row[1] # "user" /\ b = Lock("cart", RowCart[l.row[2]])
    BY DEF Lock, RowsOf
  <2>4. \A p : Lock("product", p).row[1] = "product"
    BY DEF Lock
  <2>5. QED
    BY <1>4, <1>5, <2>1, <2>2, <2>3, <2>4
<1>8. a.row[2] = j.user /\ j.op \in OfUser
  BY DEF Lock, OfUser
<1> HIDE DEF mine, both, head, rowsG, rowsM, goods, a, b, c
<1> DEFINE s == head \o rowsG
           t == s \o rowsM
<1>9. Climbs(s, 4, 8)
  BY <1>4, <1>5, ClimbOn
<1>10. Elements(s) = Elements(head) \cup Elements(rowsG)
  BY <1>4, <1>5, ElementsOfConcat DEF Climbs
<1> HIDE DEF s
<1>11. Climbs(t, 4, 9)
  BY <1>5, <1>9, ClimbOn
<1>12. Elements(t) = Elements(s) \cup Elements(rowsM)
  BY <1>5, <1>9, ElementsOfConcat DEF Climbs
<1>13. Work(j) = t \o goods
  BY <1>6 DEF s
<1> HIDE DEF t
<1>14. Climbs(t \o goods, 4, 10)
  BY <1>5, <1>11, ClimbOn
<1>15. Elements(t \o goods) = Elements(t) \cup Elements(goods)
  BY <1>5, <1>11, ElementsOfConcat DEF Climbs
<1>16. Climbs(Work(j), 1, 11)
  BY <1>13, <1>14, WiderClimb
<1>17. QED
  BY <1>4, <1>7, <1>8, <1>10, <1>12, <1>13, <1>15, <1>16 DEF Orderly, Climbs

LEMMA OrderlyWork ==
    ASSUME NEW j \in Jobs, j.op \notin AgainstOrder
    PROVE  Orderly(j, Work(j))
BY JobForms, ShortWork, CallbackWork, SaveCartWork, CheckoutWork, MergeWork DEF AgainstOrder

LEMMA PagesTyped ==
    ASSUME NEW j \in Jobs, j.op \in AgainstOrder
    PROVE  Work(j) \in Seq(Locks)
<1>1. Work(j) = PageLocks(j)
  BY DEF Work
<1>2. CASE j.op = "restore"
  <2>1. j.row \in CartRows /\ RowCart[j.row] \in Carts /\ RowProduct[j.row] \in Products
    BY <1>2, JobForms, LockConstants
  <2>2. /\ Lock("row", j.row) \in Locks /\ Share("cart", RowCart[j.row]) \in Locks
        /\ Share("product", RowProduct[j.row]) \in Locks
    BY <2>1, RowTypes
  <2>3. QED
    BY <1>1, <1>2, <2>2 DEF PageLocks
<1>3. CASE j.op = "deleteCart"
  <2> DEFINE rows == InTurn("row", RowsOf(j.cart))
             rest == <<Lock("cart", j.cart)>>
  <2>1. Lock("cart", j.cart) \in Locks /\ RowsOf(j.cart) \in SUBSET CartRows
    BY <1>3, JobForms, RowTypes DEF RowsOf
  <2>2. rows \in Seq(Locks) /\ rest \in Seq(Locks)
    BY <2>1, RowsTyped
  <2>3. Work(j) = rows \o rest
    BY <1>1, <1>3 DEF PageLocks
  <2> HIDE DEF rows, rest
  <2>4. QED
    BY <2>2, <2>3, ElementsOfConcat
<1>4. CASE j.op = "deleteOrdered"
  <2> DEFINE rows == InTurn("row", RowsOf(OrderCart[j.order]))
             rest == <<Lock("order", j.order), Lock("cart", OrderCart[j.order])>>
  <2>1. /\ Lock("order", j.order) \in Locks /\ Lock("cart", OrderCart[j.order]) \in Locks
        /\ RowsOf(OrderCart[j.order]) \in SUBSET CartRows
    BY <1>4, JobForms, LockConstants, RowTypes DEF RowsOf
  <2>2. rows \in Seq(Locks) /\ rest \in Seq(Locks)
    BY <2>1, RowsTyped
  <2>3. Work(j) = rows \o rest
    BY <1>1, <1>4 DEF PageLocks
  <2> HIDE DEF rows, rest
  <2>4. QED
    BY <2>2, <2>3, ElementsOfConcat
<1>5. CASE j.op = "deleteProduct"
  <2> DEFINE rs == {r \in CartRows : RowProduct[r] = j.product}
             ls == {l \in LineIds : LineProduct[l] = j.product}
             rows == InTurn("row", rs)
             lines == InTurn("line", ls)
             rest == <<Lock("product", j.product)>>
  <2>1. Lock("product", j.product) \in Locks /\ rs \in SUBSET CartRows /\ ls \in SUBSET LineIds
    BY <1>5, JobForms, RowTypes
  <2>2. rows \in Seq(Locks) /\ lines \in Seq(Locks) /\ rest \in Seq(Locks)
    BY <2>1, RowsTyped, LinesClimb DEF Climbs
  <2>3. Work(j) = rows \o lines \o rest
    BY <1>1, <1>5 DEF PageLocks
  <2> HIDE DEF rows, lines, rest
  <2>4. rows \o lines \in Seq(Locks)
    BY <2>2, ElementsOfConcat
  <2>5. QED
    BY <2>2, <2>3, <2>4, ElementsOfConcat
<1>6. CASE j.op = "relate"
  <2>1. Lock("product", j.product) \in Locks /\ Share("product", j.other) \in Locks
    BY <1>6, JobForms, RowTypes
  <2>2. QED
    BY <1>1, <1>6, <2>1 DEF PageLocks
<1>7. CASE j.op \in {"move", "list"}
  <2>1. /\ Lock("user", j.user) \in Locks /\ Lock("addresses", j.user) \in Locks
        /\ Lock("user", j.other) \in Locks /\ Lock("addresses", j.other) \in Locks
    BY <1>7, JobForms, RowTypes
  <2>2. QED
    BY <1>1, <1>7, <2>1 DEF PageLocks
<1>8. QED
  BY <1>2, <1>3, <1>4, <1>5, <1>6, <1>7 DEF AgainstOrder

\* The signature comes after everything else.
LEMMA ProgramType ==
    ASSUME NEW j \in Jobs
    PROVE  /\ Work(j) \in Seq(Locks) /\ Program(j) \in Seq(Locks)
           /\ \A i \in 1..Len(Work(j)) : i \in 1..Len(Program(j)) /\ Program(j)[i] = Work(j)[i]
           /\ j.op \in Signed => /\ Len(Program(j)) = Len(Work(j)) + 1
                                 /\ Program(j)[Len(Program(j))] = Share("user", j.by)
           /\ j.op \notin Signed => Program(j) = Work(j)
<1> DEFINE s == Work(j)
           t == <<Share("user", j.by)>>
<1>1. s \in Seq(Locks)
  BY PagesTyped, OrderlyWork DEF Orderly
<1>2. CASE j.op \in Signed
  <2>1. Share("user", j.by) \in Locks
    BY <1>2, JobForms, RowTypes DEF Signed, AgainstOrder, InOrderPages
  <2>2. t \in Seq(Locks) /\ Len(t) = 1 /\ t[1] = Share("user", j.by)
    BY <2>1
  <2>3. Program(j) = s \o t
    BY <1>2 DEF Program
  <2> HIDE DEF s, t
  <2>4. PICK n \in Nat, m \in Nat : n = Len(s) /\ m = Len(t)
    BY <1>1, <2>2, LenProperties
  <2>5. /\ s \o t \in Seq(Locks) /\ Len(s \o t) = n + m
        /\ \A i \in 1..(n + m) : (s \o t)[i] = IF i <= n THEN s[i] ELSE t[i - n]
    BY <1>1, <2>2, <2>4, ConcatProperties
  <2>6. m = 1 /\ (s \o t)[n + 1] = Share("user", j.by)
    <3>1. m = 1 /\ n + 1 \in 1..(n + m) /\ ~(n + 1 <= n) /\ (n + 1) - n = 1
      BY <2>2, <2>4
    <3>2. (s \o t)[n + 1] = t[1]
      BY <2>5, <3>1
    <3>3. QED
      BY <2>2, <3>1, <3>2
  <2>7. QED
    BY <1>1, <1>2, <2>3, <2>4, <2>5, <2>6 DEF s
<1>3. CASE j.op \notin Signed
  <2>1. Program(j) = s \o <<>>
    BY <1>3 DEF Program
  <2> HIDE DEF s
  <2>2. Program(j) = s
    BY <1>1, <2>1, ConcatEmptySeq
  <2>3. QED
    BY <1>1, <1>3, <2>2 DEF s
<1>4. QED
  BY <1>2, <1>3

-----------------------------------------------------------------------------
(* Types, and the exclusion of conflicting locks.                            *)

\* What a waiting worker has and wants, in its program.
LEMMA Wants ==
    ASSUME TypeOK, NEW w \in Workers, Waiting(w)
    PROVE  /\ job[w] \in Jobs /\ Busy(w)
           /\ \E k \in 0..(Len(Program(job[w])) - 1) :
                 /\ HasTaken(w, k)
                 /\ k + 1 \in 1..Len(Program(job[w]))
                 /\ Head(todo[w]) = Program(job[w])[k + 1]
                 /\ Tail(todo[w]) = SubSeq(Program(job[w]), k + 2, Len(Program(job[w])))
<1>1. Busy(w) /\ job[w] \in Jobs
  BY DEF TypeOK, Waiting, Busy
<1> DEFINE s == Program(job[w])
<1>2. PICK n \in Nat : n = Len(s) /\ s \in Seq(Locks)
  BY <1>1, ProgramType, LenProperties
<1>3. PICK k \in 0..n : HasTaken(w, k)
  BY <1>1, <1>2 DEF TypeOK
<1>4. todo[w] = SubSeq(s, k + 1, n)
  BY <1>2, <1>3 DEF HasTaken
<1> HIDE DEF s
<1>5. k < n
  <2>1. SUFFICES ASSUME k = n PROVE FALSE
    OBVIOUS
  <2>2. todo[w] = <<>>
    BY <1>2, <1>4, <2>1, SubSeqEmpty
  <2>3. QED
    BY <2>2 DEF Waiting
<1>6. k + 1 \in 1..n
  BY <1>5
<1>7. Head(todo[w]) = s[k + 1] /\ Tail(todo[w]) = SubSeq(s, k + 2, n)
  BY <1>2, <1>4, <1>5, <1>6, HeadTailOfSubSeq
<1>8. QED
  BY <1>1, <1>2, <1>3, <1>5, <1>6, <1>7 DEF s

LEMMA InitTypes == Init => TypeOK
BY NoneIsNoJob DEF Init, TypeOK, Busy

\* A step of one worker leaves the others as they are.
LEMMA OneMoves ==
    ASSUME TypeOK, NEW w \in Workers,
           NEW j \in Jobs \cup {None}, NEW h \in SUBSET Locks, NEW t \in Seq(Locks),
           job' = [job EXCEPT ![w] = j], held' = [held EXCEPT ![w] = h],
           todo' = [todo EXCEPT ![w] = t],
           j = None => h = {} /\ t = <<>>,
           j # None => \E k \in 0..Len(Program(j)) :
                          /\ h = {Program(j)[i] : i \in 1..k}
                          /\ t = SubSeq(Program(j), k + 1, Len(Program(j)))
    PROVE  TypeOK'
<1>1. /\ job' \in [Workers -> Jobs \cup {None}]
      /\ held' \in [Workers -> SUBSET Locks] /\ todo' \in [Workers -> Seq(Locks)]
  BY DEF TypeOK
<1>2. /\ job'[w] = j /\ held'[w] = h /\ todo'[w] = t
      /\ \A v \in Workers : v # w => job'[v] = job[v] /\ held'[v] = held[v] /\ todo'[v] = todo[v]
  BY DEF TypeOK
<1>3. ASSUME NEW v \in Workers
      PROVE  IF Busy(v)' THEN \E k \in 0..Len(Program(job'[v])) : HasTaken(v, k)'
             ELSE held'[v] = {} /\ todo'[v] = <<>>
  <2>1. \A k : HasTaken(v, k)' <=>
              /\ held'[v] = {Program(job'[v])[i] : i \in 1..k}
              /\ todo'[v] = SubSeq(Program(job'[v]), k + 1, Len(Program(job'[v])))
    BY DEF HasTaken
  <2>2. Busy(v)' <=> job'[v] # None
    BY DEF Busy
  <2>3. CASE v = w
    <3>1. job'[v] = j /\ held'[v] = h /\ todo'[v] = t
      BY <1>2, <2>3
    <3>2. CASE j = None
      BY <2>2, <3>1, <3>2
    <3>3. CASE j # None
      <4>1. PICK k \in 0..Len(Program(j)) :
                h = {Program(j)[i] : i \in 1..k} /\ t = SubSeq(Program(j), k + 1, Len(Program(j)))
        BY <3>3
      <4>2. Program(job'[v]) = Program(j)
        BY <3>1
      <4>3. /\ held'[v] = {Program(job'[v])[i] : i \in 1..k}
            /\ todo'[v] = SubSeq(Program(job'[v]), k + 1, Len(Program(job'[v])))
        BY <3>1, <4>1, <4>2
      <4>4. HasTaken(v, k)'
        BY <2>1, <4>3
      <4>5. QED
        BY <2>2, <3>1, <3>3, <4>1, <4>2, <4>4
    <3>4. QED
      BY <3>2, <3>3
  <2>4. CASE v # w
    <3>1. IF Busy(v) THEN \E k \in 0..Len(Program(job[v])) : HasTaken(v, k)
          ELSE held[v] = {} /\ todo[v] = <<>>
      BY DEF TypeOK
    <3>2. \A k : HasTaken(v, k)' <=> HasTaken(v, k)
      BY <1>2, <2>1, <2>4 DEF HasTaken
    <3>3. QED
      BY <1>2, <2>2, <2>4, <3>1, <3>2 DEF Busy
  <2>5. QED
    BY <2>3, <2>4
<1>4. QED
  BY <1>1, <1>3 DEF TypeOK

LEMMA BeginTypes ==
    ASSUME TypeOK, NEW w \in Workers, NEW j \in Jobs, Begin(w, j)
    PROVE  TypeOK'
<1> DEFINE s == Program(j)
<1>1. s \in Seq(Locks) /\ Len(s) \in Nat
  BY ProgramType, LenProperties
<1>2. held[w] = {} /\ held' = [held EXCEPT ![w] = {}]
  BY DEF Begin, TypeOK
<1>3. {} = {s[i] : i \in 1..0} /\ s = SubSeq(s, 0 + 1, Len(s))
  BY <1>1, SubSeqFull
<1>4. j # None
  BY NoneIsNoJob
<1>5. \E k \in 0..Len(s) : {} = {s[i] : i \in 1..k} /\ s = SubSeq(s, k + 1, Len(s))
  BY <1>1, <1>3
<1> HIDE DEF s
<1>6. job' = [job EXCEPT ![w] = j] /\ todo' = [todo EXCEPT ![w] = s]
  BY DEF Begin, s
<1>7. QED
  BY <1>1, <1>2, <1>4, <1>5, <1>6, OneMoves DEF s

LEMMA AcquireTypes ==
    ASSUME TypeOK, NEW w \in Workers, Acquire(w)
    PROVE  TypeOK'
<1> DEFINE s == Program(job[w])
<1>1. Waiting(w)
  BY DEF Acquire
<1>2. job[w] \in Jobs /\ job[w] # None /\ s \in Seq(Locks) /\ Len(s) \in Nat
  BY <1>1, Wants, ProgramType, LenProperties, NoneIsNoJob
<1>3. PICK k \in 0..(Len(s) - 1) :
        /\ HasTaken(w, k) /\ k + 1 \in 1..Len(s)
        /\ Head(todo[w]) = s[k + 1] /\ Tail(todo[w]) = SubSeq(s, k + 2, Len(s))
  BY <1>1, Wants
<1> DEFINE h == held[w] \cup {Head(todo[w])}
           t == Tail(todo[w])
<1>4. h = {s[i] : i \in 1..(k + 1)}
  <2>1. h = {s[i] : i \in 1..k} \cup {s[k + 1]}
    BY <1>3 DEF HasTaken
  <2>2. QED
    BY <1>3, <2>1
<1>5. \A i \in 1..Len(s) : s[i] \in Locks
  BY <1>2, ElementOfSeq
<1>6. h \in SUBSET Locks
  BY <1>2, <1>3, <1>4, <1>5
<1>7. t \in Seq(Locks) /\ t = SubSeq(s, (k + 1) + 1, Len(s))
  <2>1. (k + 1) + 1 = k + 2
    BY <1>3
  <2>2. PICK n \in Nat : n = Len(s)
    BY <1>2
  <2>3. \A i \in (k + 2)..n : s[i] \in Locks
    BY <1>3, <1>5, <2>2
  <2> HIDE DEF s
  <2>4. SubSeq(s, k + 2, n) \in Seq(Locks)
    BY <1>2, <1>3, <2>2, <2>3, SubSeqProperties
  <2>5. QED
    BY <1>3, <2>1, <2>2, <2>4
<1>8. k + 1 \in 0..Len(s)
  BY <1>3
<1>9. /\ held' = [held EXCEPT ![w] = h] /\ todo' = [todo EXCEPT ![w] = t]
      /\ job' = [job EXCEPT ![w] = job[w]]
  BY DEF Acquire, TypeOK
<1>10. \E i \in 0..Len(s) : h = {s[x] : x \in 1..i} /\ t = SubSeq(s, i + 1, Len(s))
  BY <1>4, <1>7, <1>8
<1> HIDE DEF h, t
<1>11. QED
  BY <1>2, <1>6, <1>7, <1>9, <1>10, OneMoves

LEMMA EndTypes ==
    ASSUME TypeOK, NEW w \in Workers, End(w)
    PROVE  TypeOK'
<1>1. <<>> \in Seq(Locks) /\ {} \in SUBSET Locks
  OBVIOUS
<1>2. QED
  BY <1>1, OneMoves DEF End

LEMMA StepTypes == TypeOK /\ [Next]_vars => TypeOK'
<1> SUFFICES ASSUME TypeOK, [Next]_vars PROVE TypeOK'
  OBVIOUS
<1>1. CASE UNCHANGED vars
  BY <1>1 DEF vars, TypeOK, Busy, HasTaken
<1>2. CASE Next
  <2>1. PICK w \in Workers : (\E j \in Jobs : Begin(w, j)) \/ Acquire(w) \/ End(w)
    BY <1>2 DEF Next, Commit, GiveUp, Break
  <2>2. QED
    BY <2>1, BeginTypes, AcquireTypes, EndTypes
<1>3. QED
  BY <1>1, <1>2

\* The locks of a waiting or a finished worker are those of its program, taken
\* in its order.
THEOREM LocksTyped == Spec => []TypeOK
<1>1. QED
  BY InitTypes, StepTypes, PTL DEF Spec

LEMMA StepExcludes == TypeOK /\ LocksExclude /\ [Next]_vars => LocksExclude'
<1> SUFFICES ASSUME TypeOK, LocksExclude, [Next]_vars PROVE LocksExclude'
  OBVIOUS
<1>1. CASE held' = held
  BY <1>1 DEF LocksExclude
<1>2. ASSUME NEW w \in Workers, Acquire(w)
      PROVE  LocksExclude'
  <2> DEFINE l == Head(todo[w])
  <2>1. /\ held'[w] = held[w] \cup {l}
        /\ \A v \in Workers : v # w => held'[v] = held[v]
    BY <1>2 DEF Acquire, TypeOK
  <2>2. \A v \in Workers : v # w => \A m \in held[v] : ~Conflict(m, l)
    BY <1>2 DEF Acquire, Blocks
  <2> HIDE DEF l
  <2>3. \A m : Conflict(m, l) <=> Conflict(l, m)
    BY DEF Conflict
  <2>4. QED
    BY <2>1, <2>2, <2>3 DEF LocksExclude
<1>3. ASSUME NEW w \in Workers, End(w)
      PROVE  LocksExclude'
  <2>1. held'[w] = {} /\ \A v \in Workers : v # w => held'[v] = held[v]
    BY <1>3 DEF End, TypeOK
  <2>2. QED
    BY <2>1 DEF LocksExclude
<1>4. QED
  BY <1>1, <1>2, <1>3 DEF Next, Begin, Commit, GiveUp, Break, vars

\* Two transactions never hold conflicting locks on a row, however many
\* workers, orders, carts and products there are: what Payments and Carts take
\* as one action under select_for_update is one.
THEOREM LocksExcluded == Spec => []LocksExclude
<1>1. Init => LocksExclude
  BY DEF Init, LocksExclude
<1>2. QED
  BY <1>1, StepExcludes, LocksTyped, PTL DEF Spec

-----------------------------------------------------------------------------
(* Deadlock.  In a set that the property does not explain, every worker       *)
(* wants a row below the row its blocker wants: a finite set has one whose    *)
(* wanted row is greatest, and nobody in the set can block that one.          *)

Wanted(w) == Head(todo[w]).row

\* The workers of a deadlocked set that the property has no explanation for.
Unexplained(ws) ==
    /\ ws \in SUBSET Workers /\ Deadlocked(ws)
    /\ ~\E v \in ws : job[v].op \in AgainstOrder
    /\ ~\E v, w \in ws : /\ job[v].op \in Signed /\ todo[v] = <<Share("user", job[v].by)>>
                         /\ job[w].op \in OfUser /\ job[w].user = job[v].by /\ Blocks(w, v)

LEMMA OneOfSeq ==
    ASSUME NEW p \in Seq(Locks), NEW m \in 1..Len(p)
    PROVE  SubSeq(p, m, m) = <<p[m]>>
<1> DEFINE q == SubSeq(p, m, m)
           t == <<p[m]>>
<1>1. m \in Int /\ p[m] \in Locks
  BY ElementOfSeq
<1>2. \A i \in m..m : p[i] \in Locks
  BY <1>1
<1>3. /\ q \in Seq(Locks) /\ Len(q) = 1
      /\ q[1] = p[m]
  <2>1. /\ q \in Seq(Locks) /\ Len(q) = IF m <= m THEN m - m + 1 ELSE 0
        /\ \A i \in 1..(m - m + 1) : q[i] = p[m + i - 1]
    BY <1>1, <1>2, SubSeqProperties
  <2>2. m + 1 - 1 = m /\ m - m + 1 = 1 /\ m <= m /\ 1 \in 1..1
    BY <1>1
  <2> HIDE DEF q, t
  <2>3. Len(q) = 1
    BY <2>1, <2>2
  <2>4. q[1] = p[m + 1 - 1]
    BY <2>1, <2>2
  <2>5. QED
    BY <2>1, <2>2, <2>3, <2>4
<1>4. t \in Seq(Locks) /\ Len(t) = 1 /\ t[1] = p[m]
  BY <1>1
<1> HIDE DEF q, t
<1>5. q = t
  BY <1>3, <1>4, SeqEqual
<1>6. QED
  BY <1>5 DEF q, t

\* A worker that waits for another of a deadlocked set.
LEMMA BlockerHolds ==
    ASSUME TypeOK, NEW v \in Workers, NEW w \in Workers, Blocks(v, w), Waiting(v)
    PROVE  \E k \in 0..(Len(Program(job[v])) - 1), i \in Nat :
              /\ HasTaken(v, k) /\ Head(todo[v]) = Program(job[v])[k + 1]
              /\ i \in 1..k /\ i \in 1..Len(Program(job[v]))
              /\ k + 1 \in 1..Len(Program(job[v]))
              /\ Conflict(Program(job[v])[i], Head(todo[w]))
<1>1. PICK k \in 0..(Len(Program(job[v])) - 1) :
        /\ HasTaken(v, k) /\ k + 1 \in 1..Len(Program(job[v]))
        /\ Head(todo[v]) = Program(job[v])[k + 1]
  BY Wants
<1>2. Len(Program(job[v])) \in Nat
  BY Wants, ProgramType, LenProperties
<1>3. PICK l \in held[v] : Conflict(l, Head(todo[w]))
  BY DEF Blocks
<1>4. PICK i \in 1..k : l = Program(job[v])[i]
  BY <1>1, <1>3 DEF HasTaken
<1>5. i \in Nat /\ i \in 1..Len(Program(job[v]))
  BY <1>1, <1>2, <1>4
<1>6. QED
  BY <1>1, <1>3, <1>4, <1>5

\* Whom an unexplained deadlock keeps waiting has not got to its signature: the
\* user it is signed with is locked for update by operations on that user only.
LEMMA WantsItsWork ==
    ASSUME TypeOK, NEW ws, Unexplained(ws), NEW v \in ws, NEW w \in ws, Blocks(v, w)
    PROVE  \E k, i \in 1..Len(Work(job[v])) :
              /\ i < k /\ HasTaken(v, k - 1) /\ Head(todo[v]) = Work(job[v])[k]
              /\ Conflict(Work(job[v])[i], Head(todo[w]))
<1> DEFINE j == job[v]
<1>1. /\ v \in Workers /\ w \in Workers /\ Waiting(v) /\ Waiting(w)
      /\ j \in Jobs /\ j.op \notin AgainstOrder
  BY Wants DEF Unexplained, Deadlocked, Blocks
<1>2. PICK n \in Nat : n = Len(Work(j))
  BY <1>1, ProgramType, LenProperties
<1>3. PICK m \in 0..(Len(Program(j)) - 1), i \in Nat :
        /\ HasTaken(v, m) /\ Head(todo[v]) = Program(j)[m + 1]
        /\ i \in 1..m /\ i \in 1..Len(Program(j))
        /\ m + 1 \in 1..Len(Program(j))
        /\ Conflict(Program(j)[i], Head(todo[w]))
  BY <1>1, BlockerHolds
<1>4. CASE m + 1 \in 1..n
  <2>1. i \in 1..n /\ i < m + 1 /\ (m + 1) - 1 = m
    BY <1>3, <1>4
  <2>2. Program(j)[i] = Work(j)[i] /\ Program(j)[m + 1] = Work(j)[m + 1]
    BY <1>1, <1>2, <1>4, <2>1, ProgramType
  <2>3. QED
    BY <1>2, <1>3, <1>4, <2>1, <2>2
<1>5. CASE m + 1 \notin 1..n
  <2>1. j.op \in Signed /\ m = n /\ Len(Program(j)) = n + 1
    BY <1>1, <1>2, <1>3, <1>5, ProgramType
  <2>2. Program(j)[n + 1] = Share("user", j.by)
    BY <1>1, <2>1, ProgramType
  <2>3. todo[v] = <<Share("user", j.by)>>
    <3>1. todo[v] = SubSeq(Program(j), n + 1, n + 1)
      BY <1>3, <2>1 DEF HasTaken
    <3> DEFINE p == Program(j)
    <3>2. p \in Seq(Locks) /\ n + 1 \in 1..Len(p)
      BY <1>1, <1>2, <2>1, ProgramType
    <3> HIDE DEF p
    <3>3. SubSeq(p, n + 1, n + 1) = <<p[n + 1]>>
      BY <1>2, <3>2, OneOfSeq
    <3>4. QED
      BY <2>2, <3>1, <3>3 DEF p
  <2>4. PICK x \in ws : Blocks(x, v)
    BY DEF Unexplained, Deadlocked
  <2>5. x \in Workers /\ Waiting(x) /\ job[x] \in Jobs /\ job[x].op \notin AgainstOrder
    BY Wants DEF Unexplained, Deadlocked, Blocks
  <2>6. PICK k \in 0..(Len(Program(job[x])) - 1), q \in Nat :
          /\ q \in 1..k /\ q \in 1..Len(Program(job[x]))
          /\ k + 1 \in 1..Len(Program(job[x]))
          /\ Conflict(Program(job[x])[q], Head(todo[v]))
    BY <1>1, <2>4, <2>5, BlockerHolds
  <2>7. Conflict(Program(job[x])[q], Share("user", j.by))
    BY <2>3, <2>6
  <2>8. Program(job[x])[q] \in Elements(Work(job[x]))
    <3>1. PICK p \in Nat : p = Len(Work(job[x]))
      BY <2>5, ProgramType, LenProperties
    <3>2. q \in 1..p
      BY <2>5, <2>6, <3>1, ProgramType
    <3>3. QED
      BY <2>5, <3>1, <3>2, ProgramType DEF Elements
  <2>9. job[x].op \in OfUser /\ job[x].user = j.by
    BY <2>5, <2>7, <2>8, OrderlyWork DEF Orderly, Conflict, Share
  <2>10. QED
    BY <1>1, <2>1, <2>3, <2>4, <2>9 DEF Unexplained
<1>6. QED
  BY <1>4, <1>5

\* Whoever adds to a cart has the cart: nobody else who still waits can have
\* the row.
LEMMA AddIsNotBlockedOnItsRow ==
    ASSUME TypeOK, LocksExclude, NEW ws, Unexplained(ws),
           NEW v \in ws, job[v].op = "add", HasTaken(v, 2),
           NEW x \in ws, Blocks(x, v)
    PROVE  FALSE
<1> DEFINE r == job[v].row
           c == RowCart[r]
<1>1. /\ v \in Workers /\ x \in Workers /\ Waiting(v) /\ Waiting(x)
      /\ job[v] \in Jobs /\ job[x] \in Jobs /\ job[x].op \notin AgainstOrder
  BY Wants DEF Unexplained, Deadlocked, Blocks
<1>2. Program(job[v]) = <<Lock("cart", c), Lock("product", RowProduct[r]), Lock("row", r)>>
  BY <1>1, WorkOf, ProgramType DEF Signed, AgainstOrder, InOrderPages
<1>3. Head(todo[v]) = Lock("row", r)
  <2>1. todo[v] = SubSeq(Program(job[v]), 3, 3)
    BY <1>2 DEF HasTaken
  <2>2. QED
    BY <1>1, <1>2, <2>1, ProgramType, HeadTailOfSubSeq
<1>4. Lock("cart", c) \in held[v]
  BY <1>2 DEF HasTaken
<1>5. PICK k \in 1..Len(Work(job[x])), i \in 1..Len(Work(job[x])) :
        /\ i < k /\ HasTaken(x, k - 1) /\ Conflict(Work(job[x])[i], Head(todo[v]))
  BY WantsItsWork
<1>6. Work(job[x])[i].row = Lock("row", r).row
  BY <1>3, <1>5 DEF Conflict
<1>7. PICK n \in Nat : n = Len(Work(job[x]))
  BY <1>1, ProgramType, LenProperties
<1>8. job[x].op \notin {"add", "remove", "saveRow"}
  <2>1. CASE job[x].op \in {"remove", "saveRow"}
    <3>1. Work(job[x]) = <<Lock("row", job[x].row)>>
      BY <1>1, <2>1, WorkOf
    <3>2. QED
      BY <1>5, <3>1
  <2>2. CASE job[x].op = "add"
    <3>1. Work(job[x]) = <<Lock("cart", RowCart[job[x].row]),
                           Lock("product", RowProduct[job[x].row]), Lock("row", job[x].row)>>
      BY <1>1, <2>2, WorkOf
    <3>2. i \in 1..2
      BY <1>5, <3>1
    <3>3. Work(job[x])[i].row[1] \in {"cart", "product"}
      BY <3>1, <3>2 DEF Lock
    <3>4. QED
      BY <1>6, <3>3 DEF Lock
  <2>3. QED
    BY <2>1, <2>2
<1>9. PICK m \in 1..n : Work(job[x])[m] = Lock("cart", c)
  <2>1. Work(job[x])[i] \in Elements(Work(job[x]))
    BY <1>5 DEF Elements
  <2>2. Work(job[x])[i].row[1] = "row" /\ Work(job[x])[i].row[2] = r
    BY <1>6 DEF Lock
  <2>3. Lock("cart", c) \in Elements(Work(job[x]))
    BY <1>1, <1>8, <2>1, <2>2, OrderlyWork DEF Orderly
  <2>4. QED
    BY <1>7, <2>3 DEF Elements
<1>10. m < i
  <2>1. Climbs(Work(job[x]), 1, 11)
    BY <1>1, <1>8, OrderlyWork DEF Orderly
  <2>2. Class(Work(job[x])[m].row) \in 5..6 /\ Class(Work(job[x])[i].row) \in 8..9
    BY <1>6, <1>9, ClassOf
  <2>3. ~Below(Work(job[x])[i].row, Work(job[x])[m].row)
    BY <2>2 DEF Below
  <2>4. m # i
    BY <2>2
  <2>5. ~(i < m)
    BY <1>5, <1>7, <2>1, <2>3 DEF Climbs
  <2>6. QED
    BY <1>5, <1>7, <2>4, <2>5
<1>11. Lock("cart", c) \in held[x]
  <2>1. m \in 1..(k - 1)
    BY <1>5, <1>7, <1>10
  <2>2. Program(job[x])[m] = Lock("cart", c)
    BY <1>1, <1>7, <1>9, ProgramType
  <2>3. QED
    BY <1>5, <2>1, <2>2 DEF HasTaken
<1>12. x # v
  BY DEF Blocks
<1>13. Conflict(Lock("cart", c), Lock("cart", c))
  BY DEF Conflict, Lock
<1>14. QED
  BY <1>1, <1>4, <1>11, <1>12, <1>13 DEF LocksExclude

\* In an unexplained deadlock, who blocks wants more.
LEMMA BlockerWantsAbove ==
    ASSUME TypeOK, LocksExclude, NEW ws, Unexplained(ws),
           NEW v \in ws, NEW w \in ws, Blocks(v, w)
    PROVE  Below(Wanted(w), Wanted(v))
<1>1. job[v] \in Jobs /\ job[v].op \notin AgainstOrder
  BY Wants DEF Unexplained, Deadlocked, Blocks
<1>2. PICK k \in 1..Len(Work(job[v])), i \in 1..Len(Work(job[v])) :
        /\ i < k /\ HasTaken(v, k - 1) /\ Head(todo[v]) = Work(job[v])[k]
        /\ Conflict(Work(job[v])[i], Head(todo[w]))
  BY WantsItsWork
<1>3. Wanted(v) = Work(job[v])[k].row /\ Wanted(w) = Work(job[v])[i].row
  BY <1>2 DEF Wanted, Conflict
<1>4. CASE job[v].op # "add"
  <2>1. Climbs(Work(job[v]), 1, 11)
    BY <1>1, <1>4, OrderlyWork DEF Orderly
  <2>2. QED
    BY <1>2, <1>3, <2>1 DEF Climbs
<1>5. CASE job[v].op = "add"
  <2>1. Work(job[v]) = <<Lock("cart", RowCart[job[v].row]),
                         Lock("product", RowProduct[job[v].row]), Lock("row", job[v].row)>>
    BY <1>1, <1>5, WorkOf
  <2>2. PICK x \in ws : Blocks(x, v)
    BY DEF Unexplained, Deadlocked
  <2>3. k # 3
    <3>1. k = 3 => k - 1 = 2
      OBVIOUS
    <3>2. QED
      BY <1>2, <1>5, <2>2, <3>1, AddIsNotBlockedOnItsRow
  <2>4. k = 2 /\ i = 1
    BY <1>2, <2>1, <2>3
  <2>5. Class(Wanted(w)) \in 5..6 /\ Class(Wanted(v)) = 10
    BY <1>3, <2>1, <2>4, ClassOf
  <2>6. QED
    BY <2>5 DEF Below
<1>6. QED
  BY <1>4, <1>5

\* Of a finite set of waiting workers one wants a row that is below none.
LEMMA GreatestWanted ==
    ASSUME TypeOK, NEW ws \in SUBSET Workers, ws # {}, \A w \in ws : Waiting(w)
    PROVE  \E w \in ws : \A v \in ws : ~Below(Wanted(w), Wanted(v))
<1> DEFINE C == [w \in ws |-> Class(Wanted(w))]
           N == [w \in ws |-> Number(Wanted(w))]
<1>1. IsFiniteSet(ws)
  BY LockConstants, FS_Subset
<1>2. ASSUME NEW w \in ws
      PROVE  C[w] \in Nat /\ N[w] \in Nat
  <2>1. Head(todo[w]) \in Locks
    <3>1. job[w] \in Jobs
      BY Wants
    <3>2. PICK i \in 1..Len(Program(job[w])) : Head(todo[w]) = Program(job[w])[i]
      BY Wants
    <3>3. QED
      BY <3>1, <3>2, ProgramType, ElementOfSeq
  <2>2. Wanted(w) \in Lockable
    BY <2>1 DEF Wanted, Locks
  <2>3. QED
    BY <2>2, RanksAreNumbers
<1>3. /\ \A w \in ws : C[w] = Class(Wanted(w)) /\ N[w] = Number(Wanted(w))
  OBVIOUS
<1> HIDE DEF C, N
<1>4. PICK top \in ws : \A v \in ws : C[v] <= C[top]
  BY <1>1, <1>2, GreatestNumber
<1> DEFINE W == {w \in ws : C[w] = C[top]}
<1>5. IsFiniteSet(W) /\ W # {} /\ \A w \in W : N[w] \in Nat
  BY <1>1, <1>2, FS_Subset
<1>6. PICK w \in W : \A v \in W : N[v] <= N[w]
  <2> HIDE DEF W
  <2>1. QED
    BY <1>5, GreatestNumber
<1>7. ASSUME NEW v \in ws
      PROVE  ~Below(Wanted(w), Wanted(v))
  BY <1>2, <1>3, <1>4, <1>6 DEF Below
<1>8. QED
  BY <1>7

LEMMA NoUnexplainedDeadlock ==
    TypeOK /\ LocksExclude => DeadlocksExplained
<1> SUFFICES ASSUME TypeOK, LocksExclude, NEW ws \in SUBSET Workers, Unexplained(ws)
             PROVE  FALSE
  BY DEF DeadlocksExplained, Unexplained
<1>1. ws # {} /\ \A w \in ws : Waiting(w) /\ \E v \in ws : Blocks(v, w)
  BY DEF Unexplained, Deadlocked, Blocks
<1>2. PICK w \in ws : \A v \in ws : ~Below(Wanted(w), Wanted(v))
  BY <1>1, GreatestWanted
<1>3. PICK v \in ws : Blocks(v, w)
  BY <1>1
<1>4. QED
  BY <1>2, <1>3, BlockerWantsAbove

\* Transactions wait in a circle only where one of them is a page that locks
\* rows against the order of the services (AgainstOrder), or where one that has
\* all else waits for the user it is signed with, locked by an operation on that
\* same user.
THEOREM OneLockOrder == Spec => []DeadlocksExplained
<1>1. QED
  BY LocksTyped, LocksExcluded, NoUnexplainedDeadlock, PTL
=============================================================================
