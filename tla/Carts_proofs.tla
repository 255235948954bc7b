---------------------------- MODULE Carts_proofs ----------------------------
(***************************************************************************)
(* Proofs about the carts and their back office, for any carts, users,      *)
(* sessions, items, products, workers and pages.                            *)
(***************************************************************************)
EXTENDS CartDesk, FiniteData

\* The part of CartsConsistent that OneActiveCart counts.
Unique == \A x \in Users \cup Sessions : \A c, d \in ActiveCart(x) : c = d

LEMMA CartsInit == Init => CartsConsistent
<1> SUFFICES ASSUME Init PROVE CartsConsistent
  OBVIOUS
<1> USE CartConstants DEF Init
<1>1. NoRow \in Row
  BY DEF NoRow, Row
<1>2. TypeOK
  BY <1>1 DEF TypeOK
<1>3. MergesKnow /\ Unique
  BY DEF MergesKnow, Unique, ActiveCart
<1>4. QED
  BY <1>2, <1>3 DEF CartsConsistent, Unique

\* Steps that leave the carts' owners and statuses and the merges alone.
LEMMA RowsFrame ==
    ASSUME CartsConsistent, UNCHANGED <<owner, status, merge>>, TypeOK'
    PROVE  CartsConsistent'
BY DEF CartsConsistent, MergesKnow, ActiveCart

LEMMA PutKeeps ==
    ASSUME CartsConsistent, NEW w \in Workers, NEW c \in Carts, NEW i \in Items,
           NEW r \in Row, Put(w, c, i, r)
    PROVE  CartsConsistent'
<1>1. TypeOK'
  BY DEF CartsConsistent, TypeOK, Put
<1>2. QED
  BY <1>1, RowsFrame DEF Put

LEMMA RowIsRow ==
    ASSUME TypeOK, NEW c \in Carts, NEW i \in Items
    PROVE  /\ row[c][i] \in Row /\ row[c][i].qty \in 0..MaxQty
           /\ row[c][i].status \in {"active", "saved"}
           /\ row[c][i].qty > 0 => row[c][i].qty \in 1..MaxQty
BY CartConstants DEF TypeOK, Row, NoRow

\* The calls that write one row.
LEMMA RowStep ==
    ASSUME CartsConsistent, NEW w \in Workers, NEW c \in Carts, NEW i \in Items,
           \/ \E n \in 1..MaxQty : Add(w, c, i, n) \/ SetQuantity(w, c, i, n)
           \/ SaveForLater(w, c, i) \/ MoveToCart(w, c, i) \/ Remove(w, c, i)
    PROVE  CartsConsistent'
<1>1. /\ row[c][i] \in Row /\ row[c][i].qty \in 0..MaxQty
      /\ row[c][i].qty > 0 => row[c][i].qty \in 1..MaxQty
  BY RowIsRow DEF CartsConsistent
<1>2. ASSUME NEW n \in 1..MaxQty, Add(w, c, i, n) PROVE CartsConsistent'
  <2> DEFINE q == row[c][i].qty + n
  <2>1. [qty |-> q, status |-> "active"] \in Row
    <3>1. q \in 1..MaxQty
      BY <1>1, <1>2, CartConstants DEF Add
    <3>2. QED
      BY <3>1 DEF Row
  <2>2. QED
    BY <1>2, <2>1, PutKeeps DEF Add
<1>3. ASSUME NEW n \in 1..MaxQty, SetQuantity(w, c, i, n) PROVE CartsConsistent'
  <2>1. [qty |-> n, status |-> "active"] \in Row
    BY DEF Row
  <2>2. QED
    BY <1>3, <2>1, PutKeeps DEF SetQuantity
<1>4. ASSUME NEW s \in {"active", "saved"}, i \in Present(c)
      PROVE  [row[c][i] EXCEPT !.status = s] \in Row
  <2>1. row[c][i] \in [qty : 1..MaxQty, status : {"active", "saved"}]
    BY <1>1, <1>4 DEF Present, Row, NoRow
  <2>2. QED
    BY <2>1 DEF Row
<1>5. CASE SaveForLater(w, c, i)
  BY <1>4, <1>5, PutKeeps DEF SaveForLater
<1>6. CASE MoveToCart(w, c, i)
  BY <1>4, <1>6, PutKeeps DEF MoveToCart
<1>7. CASE Remove(w, c, i)
  BY <1>7, PutKeeps DEF Remove, Row
<1>8. QED
  BY <1>2, <1>3, <1>5, <1>6, <1>7

LEMMA VisitStep ==
    ASSUME CartsConsistent, NEW w \in Workers, NEW x \in Users \cup Sessions,
           NEW c \in Carts, Visit(w, x, c)
    PROVE  CartsConsistent'
<1> USE CartConstants DEF CartsConsistent
<1>1. TypeOK'
  <2> DEFINE Typed == /\ owner' \in [Carts -> Users \cup Sessions \cup {None}]
                     /\ status' \in [Carts -> {"none", "active", "ordered"}]
  <2>1. Typed
    <3>1. CASE UNCHANGED <<owner, status>>
      BY <3>1 DEF TypeOK
    <3>2. CASE /\ owner' = [owner EXCEPT ![c] = x]
               /\ status' = [status EXCEPT ![c] = "active"]
      BY <3>2 DEF TypeOK
    <3>3. QED
      BY <3>1, <3>2 DEF Visit
  <2>2. request' \in [Workers -> Carts \cup {None}]
    BY DEF TypeOK, Visit
  <2>3. QED
    BY <2>1, <2>2 DEF TypeOK, Visit
<1>2. CASE UNCHANGED <<owner, status>>
  BY <1>1, <1>2, RowsFrame DEF Visit
<1>3. CASE /\ ActiveCart(x) = {}
           /\ x \in Users => merge[x] = NoMerge
           /\ status[c] = "none" /\ owner[c] = None
           /\ owner' = [owner EXCEPT ![c] = x]
           /\ status' = [status EXCEPT ![c] = "active"]
  <2>1. \A d \in Carts : /\ d # c => owner'[d] = owner[d] /\ status'[d] = status[d]
                         /\ d = c => owner'[d] = x /\ status'[d] = "active"
    BY <1>3 DEF TypeOK
  <2>2. UNCHANGED merge
    BY DEF Visit
  <2>4. ASSUME NEW y \in Users \cup Sessions
        PROVE  ActiveCart(y)' = IF y = x THEN {c} ELSE ActiveCart(y)
    BY <1>3, <2>1 DEF ActiveCart
  <2>5. Unique'
    BY <2>4 DEF Unique
  <2>6. MergesKnow'
    BY <1>3, <2>1, <2>2, <2>4 DEF MergesKnow
  <2>7. QED
    BY <1>1, <2>5, <2>6 DEF Unique
<1>4. QED
  BY <1>2, <1>3 DEF Visit

LEMMA CheckoutStep ==
    ASSUME CartsConsistent, NEW u \in Users, NEW c \in Carts, Checkout(u, c)
    PROVE  CartsConsistent'
<1> USE CartConstants DEF CartsConsistent
<1>1. Lines(c) \in [Items -> 0..MaxQty]
  BY RowIsRow DEF Lines
<1>2. orders[c] \in Seq([Items -> 0..MaxQty])
  BY DEF TypeOK
<1> DEFINE l == Lines(c)
<1>3. /\ orders' = [orders EXCEPT ![c] = Append(orders[c], l)]
      /\ status' = [status EXCEPT ![c] = "ordered"]
      /\ UNCHANGED <<owner, row, stock, shown, request, merge>>
  BY DEF Checkout
<1> HIDE DEF l
<1>4. Append(orders[c], l) \in Seq([Items -> 0..MaxQty])
  BY <1>1, <1>2 DEF l
<1>5. TypeOK'
  BY <1>3, <1>4 DEF TypeOK
<1>6. \A d \in Carts : status'[d] = IF d = c THEN "ordered" ELSE status[d]
  BY <1>3 DEF TypeOK
<1>8. \A y : ActiveCart(y)' = ActiveCart(y) \ {c}
  BY <1>3, <1>6 DEF ActiveCart
<1>9. Unique'
  BY <1>8 DEF Unique
<1>10. MergesKnow'
  <2>1. \A v \in Users : merge[v] # NoMerge => c \notin {merge[v].guest, merge[v].into}
    BY DEF Checkout, Merging
  <2>2. QED
    BY <1>3, <1>6, <1>8, <2>1 DEF MergesKnow
<1>11. QED
  BY <1>5, <1>9, <1>10 DEF Unique

\* The two carts of a merge are the guest's and the user's.
LEMMA MergeLockStep ==
    ASSUME CartsConsistent, NEW u \in Users, NEW g \in Carts, MergeLock(u, g)
    PROVE  CartsConsistent'
<1> USE DEF CartsConsistent
<1> DEFINE seen == [p \in Products |-> IF shown[p] THEN stock[p] ELSE 0]
<1>1. PICK into \in IF ActiveCart(u) = {} THEN {None} ELSE ActiveCart(u) :
        merge' = [merge EXCEPT ![u] = [guest |-> g, into |-> into, seen |-> seen]]
  BY DEF MergeLock
<1>2. seen \in [Products -> 0..MaxStock] /\ into \in Carts \cup {None}
  BY CartConstants DEF TypeOK, ActiveCart
<1> HIDE DEF seen
<1>3. UNCHANGED <<owner, status, row, orders, stock, shown, request>>
  BY DEF MergeLock, cartVars
<1>4. TypeOK'
  BY <1>1, <1>2, <1>3 DEF TypeOK
<1>5. Unique'
  BY <1>3 DEF Unique, ActiveCart
<1>6. \A y : ActiveCart(y)' = ActiveCart(y)
  BY <1>3 DEF ActiveCart
<1>7. /\ owner[g] \in Sessions /\ status[g] = "active"
      /\ \A v \in Users : merge[v] # NoMerge => merge[v].guest # g
  BY DEF MergeLock, Merging
<1>8. /\ merge'[u].guest = g /\ merge'[u].into = into
      /\ \A v \in Users : v # u => merge'[v] = merge[v]
  BY <1>1 DEF TypeOK
<1>9. IF into = None THEN ActiveCart(u) = {} ELSE into \in ActiveCart(u)
  <2>1. CASE ActiveCart(u) = {}
    BY <1>1, <2>1
  <2>2. CASE ActiveCart(u) # {} /\ into # None
    BY <1>1, <2>2
  <2>3. CASE ActiveCart(u) # {} /\ into = None
    BY <1>1, <2>3, CartConstants DEF ActiveCart
  <2>4. QED
    BY <2>1, <2>2, <2>3
<1>10. MergesKnow'
  BY <1>3, <1>6, <1>7, <1>8, <1>9 DEF MergesKnow
<1>11. QED
  BY <1>4, <1>5, <1>10 DEF Unique

\* What a user's merge frees, the guest's cart, and what it fills.
LEMMA MergeFrame ==
    ASSUME CartsConsistent, NEW u \in Users, NEW g \in Carts, NEW c \in Carts,
           owner[g] \in Sessions, status[g] = "active",
           \/ c \in ActiveCart(u)
           \/ ActiveCart(u) = {} /\ status[c] = "none",
           owner' = [owner EXCEPT ![c] = u],
           status' = [status EXCEPT ![c] = "active", ![g] = "none"],
           \A v \in Users \ {u} : merge'[v] = merge[v],
           merge'[u] = NoMerge,
           \A v \in Users \ {u} : merge[v] # NoMerge => merge[v].guest # g,
           TypeOK'
    PROVE  CartsConsistent'
<1> USE CartConstants DEF CartsConsistent
<1>1. c # g /\ owner[g] # u
  BY DEF ActiveCart
<1>2. /\ owner'[c] = u /\ status'[c] = "active" /\ status'[g] = "none"
      /\ \A d \in Carts : d # c => owner'[d] = owner[d]
      /\ \A d \in Carts : d # c /\ d # g => status'[d] = status[d]
  BY <1>1 DEF TypeOK
<1>5. ActiveCart(u)' = {c}
  <2>1. \A d \in ActiveCart(u) : d = c
    BY u \in Users \cup Sessions DEF ActiveCart
  <2>2. ASSUME NEW d \in Carts, d # c, owner'[d] = u
        PROVE  status'[d] # "active"
    <3>1. owner[d] = u /\ status[d] # "active"
      BY <1>2, <2>1, <2>2 DEF ActiveCart
    <3>2. QED
      BY <1>2, <2>2, <3>1
  <2>3. QED
    BY <1>2, <2>2 DEF ActiveCart
<1>6. ASSUME NEW y \in Users \cup Sessions, y # u
      PROVE  ActiveCart(y)' = ActiveCart(y) \ {g}
  <2>1. c \notin ActiveCart(y)
    BY <1>6 DEF ActiveCart
  <2>2. QED
    BY <1>1, <1>2, <1>6, <2>1 DEF ActiveCart
<1>7. Unique'
  BY <1>5, <1>6 DEF Unique
<1>8. MergesKnow'
  <2> SUFFICES ASSUME NEW v \in Users, merge'[v] # NoMerge
               PROVE  /\ merge'[v].guest \in Carts
                      /\ owner'[merge'[v].guest] \in Sessions
                      /\ status'[merge'[v].guest] = "active"
                      /\ IF merge'[v].into = None THEN ActiveCart(v)' = {}
                         ELSE merge'[v].into \in ActiveCart(v)'
                      /\ \A x \in Users :
                            merge'[x] # NoMerge /\ merge'[x].guest = merge'[v].guest
                              => x = v
    BY DEF MergesKnow
  <2>1. v # u /\ merge'[v] = merge[v] /\ merge[v].guest # g
    OBVIOUS
  <2>2. /\ merge[v].guest \in Carts /\ owner[merge[v].guest] \in Sessions
        /\ status[merge[v].guest] = "active"
        /\ IF merge[v].into = None THEN ActiveCart(v) = {}
           ELSE merge[v].into \in ActiveCart(v)
        /\ \A x \in Users : merge[x] # NoMerge /\ merge[x].guest = merge[v].guest
                            => x = v
    BY <2>1 DEF MergesKnow
  <2>3. merge[v].guest # c
    BY <2>2 DEF ActiveCart
  <2>4. g \notin ActiveCart(v)
    BY DEF ActiveCart
  <2>5. /\ owner'[merge[v].guest] = owner[merge[v].guest]
        /\ status'[merge[v].guest] = status[merge[v].guest]
    BY <1>2, <2>1, <2>2, <2>3
  <2>6. ActiveCart(v)' = ActiveCart(v)
    <3>1. v \in Users \cup Sessions /\ v # u
      BY <2>1
    <3>2. ActiveCart(v)' = ActiveCart(v) \ {g}
      BY ONLY <1>6, <3>1 DEF ActiveCart
    <3>3. QED
      BY ONLY <2>4, <3>2 DEF ActiveCart
  <2>7. \A x \in Users : merge'[x] # NoMerge => merge'[x] = merge[x]
    OBVIOUS
  <2>8. QED
    BY <2>1, <2>2, <2>5, <2>6, <2>7
<1>9. QED
  BY <1>7, <1>8 DEF Unique

LEMMA MergeEmptyStep ==
    ASSUME CartsConsistent, NEW u \in Users, NEW g \in Carts, MergeEmpty(u, g)
    PROVE  CartsConsistent'
<1>1. PICK c \in Carts :
        /\ \/ c \in ActiveCart(u)
           \/ ActiveCart(u) = {} /\ status[c] = "none"
        /\ owner' = [owner EXCEPT ![c] = u]
        /\ status' = [status EXCEPT ![c] = "active", ![g] = "none"]
  BY DEF MergeEmpty
<1>2. /\ owner[g] \in Sessions /\ status[g] = "active" /\ merge[u] = NoMerge
      /\ \A v \in Users : merge[v] # NoMerge => merge[v].guest # g
      /\ UNCHANGED <<row, orders, stock, shown, request, merge>>
  BY DEF MergeEmpty, Merging
<1>3. TypeOK'
  BY <1>1, <1>2 DEF CartsConsistent, TypeOK
<1>4. QED
  BY <1>1, <1>2, <1>3, MergeFrame

\* The carts of a merge that writes its rows.
LEMMA MergingCarts ==
    ASSUME CartsConsistent, NEW u \in Users, NEW c \in Carts,
           NEW latest, NEW rank, MergeApply(u, c, latest, rank)
    PROVE  /\ merge[u] # NoMerge /\ merge[u].guest \in Carts
           /\ owner[merge[u].guest] \in Sessions
           /\ status[merge[u].guest] = "active"
           /\ \/ c \in ActiveCart(u)
              \/ ActiveCart(u) = {} /\ status[c] = "none"
           /\ c # merge[u].guest
           /\ \A v \in Users \ {u} :
                 merge[v] # NoMerge => merge[v].guest # merge[u].guest
<1>1. /\ merge[u] # NoMerge /\ merge[u].guest \in Carts
      /\ owner[merge[u].guest] \in Sessions
      /\ status[merge[u].guest] = "active"
      /\ IF merge[u].into = None THEN ActiveCart(u) = {}
         ELSE merge[u].into \in ActiveCart(u)
      /\ \A v \in Users : merge[v] # NoMerge /\ merge[v].guest = merge[u].guest
                          => v = u
  BY DEF MergeApply, CartsConsistent, MergesKnow
<1>2. \/ c = merge[u].into
      \/ merge[u].into = None /\ status[c] = "none"
  BY DEF MergeApply, Target
<1>3. \/ c \in ActiveCart(u)
      \/ ActiveCart(u) = {} /\ status[c] = "none"
  BY <1>1, <1>2, CartConstants
<1>4. c # merge[u].guest
  BY <1>1, <1>3, CartConstants DEF ActiveCart
<1>5. QED
  BY <1>1, <1>3, <1>4

LEMMA MergeApplyStep ==
    ASSUME CartsConsistent, NEW u \in Users, NEW c \in Carts,
           NEW latest, NEW rank, MergeApply(u, c, latest, rank)
    PROVE  CartsConsistent'
<1>1. PICK g \in Carts : g = merge[u].guest
  BY MergingCarts
<1> DEFINE rows == MergedRows(g, c, latest, rank)
           none == [i \in Items |-> NoRow]
<1>2. /\ rows \in [Items -> Row]
      /\ row' = [row EXCEPT ![c] = rows, ![g] = none]
      /\ status' = [status EXCEPT ![c] = "active", ![g] = "none"]
      /\ owner' = [owner EXCEPT ![c] = u]
      /\ merge' = [merge EXCEPT ![u] = NoMerge]
      /\ UNCHANGED <<orders, stock, shown, request>>
  BY <1>1 DEF MergeApply
<1>3. none \in [Items -> Row]
  BY DEF Row
<1> HIDE DEF rows, none
<1>4. TypeOK'
  BY <1>2, <1>3 DEF CartsConsistent, TypeOK
<1>5. /\ \A v \in Users \ {u} : merge'[v] = merge[v]
      /\ merge'[u] = NoMerge
  BY <1>2 DEF CartsConsistent, TypeOK
<1>6. QED
  BY <1>1, <1>2, <1>4, <1>5, MergingCarts, MergeFrame

LEMMA MergeFailsStep ==
    ASSUME CartsConsistent, NEW u \in Users, MergeFails(u)
    PROVE  CartsConsistent'
<1> USE DEF CartsConsistent
<1>1. /\ UNCHANGED <<owner, status, row, orders, stock, shown, request>>
      /\ merge' = [merge EXCEPT ![u] = NoMerge]
  BY DEF MergeFails, cartVars
<1>2. \A v \in Users : merge'[v] = IF v = u THEN NoMerge ELSE merge[v]
  BY <1>1 DEF TypeOK
<1>3. TypeOK'
  BY <1>1 DEF TypeOK
<1>4. Unique' /\ \A y : ActiveCart(y)' = ActiveCart(y)
  BY <1>1 DEF Unique, ActiveCart
<1>5. MergesKnow'
  BY <1>1, <1>2, <1>4 DEF MergesKnow
<1>6. QED
  BY <1>3, <1>4, <1>5 DEF Unique

\* Stock, visibility, and the end of a request.
LEMMA OutsideStep ==
    ASSUME CartsConsistent,
           \/ \E w \in Workers : EndRequest(w)
           \/ \E p \in Products : ShownChanges(p) \/ \E n \in 0..MaxStock : StockMoves(p, n)
           \/ UNCHANGED vars
    PROVE  CartsConsistent'
<1>1. UNCHANGED <<owner, status, row, orders, merge>>
  BY DEF EndRequest, ShownChanges, StockMoves, cartVars, vars
<1>2. /\ stock' \in [Products -> 0..MaxStock] /\ shown' \in [Products -> BOOLEAN]
      /\ request' \in [Workers -> Carts \cup {None}]
  <2> USE DEF CartsConsistent, TypeOK
  <2>1. CASE \E w \in Workers : EndRequest(w)
    BY <2>1 DEF EndRequest
  <2>2. ASSUME NEW p \in Products, ShownChanges(p)
        PROVE  /\ stock' = stock /\ request' = request
               /\ shown' \in [Products -> BOOLEAN]
    BY <2>2 DEF ShownChanges
  <2>3. ASSUME NEW p \in Products, NEW n \in 0..MaxStock, StockMoves(p, n)
        PROVE  /\ shown' = shown /\ request' = request
               /\ stock' \in [Products -> 0..MaxStock]
    BY <2>3 DEF StockMoves
  <2>4. CASE UNCHANGED vars
    BY <2>4 DEF vars
  <2>5. QED
    BY <2>1, <2>2, <2>3, <2>4
<1>3. TypeOK'
  BY <1>1, <1>2 DEF CartsConsistent, TypeOK
<1>4. QED
  BY <1>1, <1>3, RowsFrame

LEMMA CartsStep == CartsConsistent /\ [Next]_vars => CartsConsistent'
<1> SUFFICES ASSUME CartsConsistent, [Next]_vars PROVE CartsConsistent'
  OBVIOUS
<1>1. ASSUME NEW w \in Workers, View(w) PROVE CartsConsistent'
  BY <1>1, VisitStep, RowStep, OutsideStep DEF View
<1>2. ASSUME NEW u \in Users, Merge(u) PROVE CartsConsistent'
  BY <1>2, MergeEmptyStep, MergeLockStep, MergeApplyStep, MergeFailsStep DEF Merge
<1>3. QED
  BY <1>1, <1>2, CheckoutStep, OutsideStep DEF Next

\* Which rows a step may write.
LEMMA RowsWritten ==
    ASSUME CartsConsistent, [Next]_vars, NEW c \in Carts, NEW i \in Items,
           status[c] = "ordered"
    PROVE  row'[c][i] \in {row[c][i], NoRow}
<1> row \in [Carts -> [Items -> Row]]
  BY DEF CartsConsistent, TypeOK
<1>1. ASSUME NEW w \in Workers, NEW d \in Carts, NEW j \in Items, NEW r,
             Put(w, d, j, r), d # c \/ r = NoRow
      PROVE  row'[c][i] \in {row[c][i], NoRow}
  BY <1>1 DEF Put
<1>2. ASSUME NEW w \in Workers, View(w)
      PROVE  row'[c][i] \in {row[c][i], NoRow}
  <2>1. CASE UNCHANGED row
    BY <2>1
  <2>2. ASSUME NEW d \in Carts, NEW j \in Items,
               \/ \E n \in 1..MaxQty : Add(w, d, j, n) \/ SetQuantity(w, d, j, n)
               \/ SaveForLater(w, d, j) \/ MoveToCart(w, d, j) \/ Remove(w, d, j)
        PROVE  row'[c][i] \in {row[c][i], NoRow}
    BY <1>1, <2>2 DEF Add, SetQuantity, SaveForLater, MoveToCart, Remove,
       LockActiveCart
  <2>3. QED
    BY <1>2, <2>1, <2>2 DEF View, Visit, EndRequest, cartVars
<1>3. ASSUME NEW u \in Users, NEW d \in Carts, NEW latest, NEW rank,
             MergeApply(u, d, latest, rank)
      PROVE  row'[c][i] \in {row[c][i], NoRow}
  <2>1. c # d /\ c # merge[u].guest
    BY <1>3, MergingCarts DEF ActiveCart
  <2>2. QED
    BY <1>3, <2>1 DEF MergeApply
<1>4. QED
  BY <1>2, <1>3 DEF Next, Merge, MergeEmpty, MergeLock, MergeFails, Checkout,
     ShownChanges, StockMoves, cartVars, vars

\* A row of a merge that holds something keeps holding something.
LEMMA MergedHolds ==
    ASSUME NEW g, NEW c, NEW i, NEW latest, NEW rank, Together(g, c, i) > 0
    PROVE  Merged(g, c, i, latest, rank).qty > 0
<1> DEFINE units == IF Available(ProductOf[i])
                    THEN Allocated(g, c, i, latest, rank) ELSE 0
<1>1. Merged(g, c, i, latest, rank) =
        IF LatestStatus(g, c, i, latest) = "active" /\ units > 0
        THEN [qty |-> units, status |-> "active"]
        ELSE [qty |-> Together(g, c, i), status |-> "saved"]
  BY DEF Merged
<1> HIDE DEF units
<1>2. QED
  BY <1>1

\* The guest's carts that a step deletes, and the cart their rows are in.
Absorbed(g, c) ==
    /\ owner'[c] \in Users /\ status'[c] = "active"
    /\ Present(g) \cup Present(c) \subseteq Present(c)'

LEMMA ApplyAbsorbs ==
    ASSUME CartsConsistent, NEW u \in Users, NEW c \in Carts,
           NEW latest, NEW rank, MergeApply(u, c, latest, rank)
    PROVE  Absorbed(merge[u].guest, c)
<1>1. PICK g \in Carts : g = merge[u].guest /\ g # c
  BY MergingCarts
<1> DEFINE rows == MergedRows(g, c, latest, rank)
<1>2. TypeOK
  BY DEF CartsConsistent
<1>3. /\ row' = [row EXCEPT ![c] = rows, ![g] = [i \in Items |-> NoRow]]
      /\ owner' = [owner EXCEPT ![c] = u]
      /\ status' = [status EXCEPT ![c] = "active", ![g] = "none"]
  BY <1>1 DEF MergeApply
<1> HIDE DEF rows
<1>4. owner'[c] = u /\ status'[c] = "active" /\ row'[c] = rows
  BY <1>1, <1>2, <1>3 DEF TypeOK
<1>5. ASSUME NEW i \in Items, row[g][i].qty > 0 \/ row[c][i].qty > 0
      PROVE  rows[i].qty > 0
  <2>1. Together(g, c, i) > 0
    <3>1. row[g][i].qty \in 0..MaxQty /\ row[c][i].qty \in 0..MaxQty
      BY <1>2, RowIsRow
    <3>2. QED
      BY <1>5, <3>1, CartConstants DEF Together
  <2>2. rows[i] = IF \E j \in Present(g) : ProductOf[j] = ProductOf[i]
                  THEN Merged(g, c, i, latest, rank) ELSE row[c][i]
    BY <2>1 DEF rows, MergedRows
  <2>3. CASE \E j \in Present(g) : ProductOf[j] = ProductOf[i]
    BY <2>1, <2>2, <2>3, MergedHolds
  <2>4. CASE ~ \E j \in Present(g) : ProductOf[j] = ProductOf[i]
    <3>1. ~ row[g][i].qty > 0
      BY <2>4 DEF Present
    <3>2. QED
      BY <1>5, <2>2, <2>4, <3>1
  <2>5. QED
    BY <2>3, <2>4
<1>6. QED
  BY <1>1, <1>4, <1>5 DEF Absorbed, Present

LEMMA LoginStep ==
    ASSUME CartsConsistent, [Next]_vars, NEW g \in Carts,
           owner[g] \in Sessions, status[g] = "active", status'[g] = "none"
    PROVE  \E c \in Carts : Absorbed(g, c)
<1>1. status \in [Carts -> {"none", "active", "ordered"}] /\ TypeOK
  BY DEF CartsConsistent, TypeOK
<1>2. ASSUME NEW w \in Workers, NEW x \in Users \cup Sessions, NEW c \in Carts,
             Visit(w, x, c)
      PROVE  FALSE
  BY <1>1, <1>2 DEF Visit
<1>3. ASSUME NEW u \in Users, NEW c \in Carts, Checkout(u, c) PROVE FALSE
  BY <1>1, <1>3 DEF Checkout
<1>4. ASSUME NEW w \in Workers, View(w) PROVE FALSE
  BY <1>2, <1>4 DEF View, Add, SetQuantity, SaveForLater, MoveToCart, Remove, Put,
     EndRequest, cartVars
<1>5. ASSUME NEW u \in Users, NEW h \in Carts, MergeEmpty(u, h)
      PROVE  \E c \in Carts : Absorbed(g, c)
  <2>1. PICK c \in Carts :
          /\ c \in ActiveCart(u) \/ status[c] = "none"
          /\ owner' = [owner EXCEPT ![c] = u]
          /\ status' = [status EXCEPT ![c] = "active", ![h] = "none"]
    BY <1>5 DEF MergeEmpty
  <2>2. g = h /\ g # c
    <3>1. c # h
      BY <1>5, <2>1, CartConstants DEF MergeEmpty, ActiveCart
    <3>2. \A d \in Carts : d # h /\ status[d] = "active" => status'[d] = "active"
      BY <1>1, <2>1
    <3>3. QED
      BY <3>1, <3>2
  <2>3. owner'[c] = u /\ status'[c] = "active"
    BY <1>1, <2>1, <2>2 DEF TypeOK
  <2>4. Present(g) = {} /\ row' = row
    BY <1>5, <2>2 DEF MergeEmpty
  <2>5. QED
    BY <2>3, <2>4 DEF Absorbed, Present
<1>6. ASSUME NEW u \in Users, NEW c \in Carts, NEW latest, NEW rank,
             MergeApply(u, c, latest, rank)
      PROVE  \E d \in Carts : Absorbed(g, d)
  <2>1. status' = [status EXCEPT ![c] = "active", ![merge[u].guest] = "none"]
    BY <1>6 DEF MergeApply
  <2>2. \A d \in Carts : d # merge[u].guest /\ status[d] = "active"
                         => status'[d] = "active"
    BY <1>1, <2>1
  <2>3. g = merge[u].guest
    BY <2>2
  <2>4. QED
    BY <1>6, <2>3, ApplyAbsorbs
<1>7. status' = status => FALSE
  OBVIOUS
<1>8. QED
  BY <1>3, <1>4, <1>5, <1>6, <1>7 DEF Next, Merge, MergeLock, MergeFails, ShownChanges,
     StockMoves, cartVars, vars

\* What a step of the customers does to the orders of a cart.
CheckedOut(c) ==
    /\ status[c] = "active" /\ status'[c] = "ordered" /\ row' = row
    /\ orders'[c] = Append(orders[c], Lines(c))

SameOrders(c) ==
    /\ orders'[c] = orders[c]
    /\ status'[c] = "ordered" <=> status[c] = "ordered"

LEMMA OrdersStep ==
    ASSUME CartsConsistent, [Next]_vars, NEW c \in Carts
    PROVE  CheckedOut(c) \/ SameOrders(c)
<1> USE DEF SameOrders
<1>1. /\ status \in [Carts -> {"none", "active", "ordered"}]
      /\ orders \in [Carts -> Seq([Items -> 0..MaxQty])]
  BY DEF CartsConsistent, TypeOK
<1>2. ASSUME NEW w \in Workers, View(w) PROVE SameOrders(c)
  <2>1. ASSUME NEW x \in Users \cup Sessions, NEW d \in Carts, Visit(w, x, d)
        PROVE  SameOrders(c)
    BY <1>1, <2>1 DEF Visit
  <2>2. QED
    BY <1>2, <2>1 DEF View, Add, SetQuantity, SaveForLater, MoveToCart, Remove, Put,
       EndRequest, cartVars
<1>3. ASSUME NEW u \in Users, NEW d \in Carts, Checkout(u, d)
      PROVE  CheckedOut(c) \/ SameOrders(c)
  <2>1. CASE c = d
    BY <1>1, <1>3, <2>1 DEF Checkout, CheckedOut, ActiveCart
  <2>2. CASE c # d
    BY <1>1, <1>3, <2>2 DEF Checkout
  <2>3. QED
    BY <2>1, <2>2
<1>4. ASSUME NEW u \in Users, NEW g \in Carts, MergeEmpty(u, g) PROVE SameOrders(c)
  <2>1. PICK d \in Carts :
          /\ status[d] \in {"none", "active"}
          /\ status' = [status EXCEPT ![d] = "active", ![g] = "none"]
    BY <1>4 DEF MergeEmpty, ActiveCart
  <2>2. status[g] = "active" /\ orders' = orders
    BY <1>4 DEF MergeEmpty
  <2>3. QED
    BY <1>1, <2>1, <2>2
<1>5. ASSUME NEW u \in Users, NEW d \in Carts, NEW latest, NEW rank,
             MergeApply(u, d, latest, rank)
      PROVE  SameOrders(c)
  <2>1. PICK g \in Carts : g = merge[u].guest /\ status[g] = "active"
    BY <1>5, MergingCarts
  <2>2. status[d] \in {"none", "active"}
    BY <1>5, MergingCarts DEF ActiveCart
  <2>3. /\ status' = [status EXCEPT ![d] = "active", ![g] = "none"]
        /\ orders' = orders
    BY <1>5, <2>1 DEF MergeApply
  <2>4. QED
    BY <1>1, <2>1, <2>2, <2>3
<1>6. QED
  BY <1>2, <1>3, <1>4, <1>5 DEF Next, Merge, MergeLock, MergeFails, ShownChanges,
     StockMoves, cartVars, vars

-----------------------------------------------------------------------------
(* The back office *)

\* The invariants of CartDeskConsistent that are about orders.
OrdersSound == OrderedOnce /\ OrderedShowsItsOrder /\ PagesKnow

LEMMA PageIsPage ==
    ASSUME CartDeskConsistent, NEW g \in Pages, page[g] # NoPage
    PROVE  /\ page[g].cart \in Carts
           /\ page[g].owner \in Users \cup Sessions \cup {None}
           /\ page[g].since \in {"active", "ordered"}
           /\ page[g].status \in {"none", "active", "ordered"}
           /\ page[g].kind \in {"cart", "row"}
           /\ DOMAIN page[g].rows \subseteq Items
           /\ \A i \in DOMAIN page[g].rows : page[g].rows[i] \in Row
<1>1. page[g] \in PageState \ {NoPage}
  BY DEF CartDeskConsistent
<1>2. PICK is \in SUBSET Items : page[g].rows \in [is -> Row]
  BY <1>1 DEF PageState
<1>3. QED
  BY <1>1, <1>2 DEF PageState

\* A customer's step leaves the pages alone.
LEMMA CustomerStep ==
    ASSUME CartDeskConsistent, [Next]_vars, UNCHANGED <<page, overtaken>>
    PROVE  CartDeskConsistent'
<1>1. CartsConsistent /\ TypeOK /\ CartsConsistent' /\ TypeOK'
  BY CartsStep DEF CartDeskConsistent, CartsConsistent
<1>2. page' \in [Pages -> PageState]
  BY DEF CartDeskConsistent
<1>3. \A c \in Carts : CheckedOut(c) \/ SameOrders(c)
  BY <1>1, OrdersStep
<1>4. \A c \in Carts : /\ orders[c] \in Seq([Items -> 0..MaxQty])
                       /\ status[c] = "ordered" => SameOrders(c)
  BY <1>1, <1>3 DEF TypeOK, CheckedOut
<1>5. OrderedOnce'
  <2> SUFFICES ASSUME NEW c \in Carts, c \notin overtaken
               PROVE  Len(orders'[c]) = IF status'[c] = "ordered" THEN 1 ELSE 0
    BY DEF OrderedOnce
  <2>1. Len(orders[c]) = IF status[c] = "ordered" THEN 1 ELSE 0
    BY DEF CartDeskConsistent, OrderedOnce
  <2>2. CASE SameOrders(c)
    BY <2>1, <2>2 DEF SameOrders
  <2>3. CASE CheckedOut(c)
    <3>1. Lines(c) \in [Items -> 0..MaxQty]
      BY <1>1, RowIsRow, CartConstants DEF Lines
    <3>2. Len(Append(orders[c], Lines(c))) = Len(orders[c]) + 1
      BY <1>4, <3>1
    <3>3. QED
      BY <2>1, <2>3, <3>2 DEF CheckedOut
  <2>4. QED
    BY <1>3, <2>2, <2>3
<1>6. OrderedShowsItsOrder'
  <2> SUFFICES ASSUME NEW c \in Carts, c \notin overtaken, status'[c] = "ordered",
                      NEW i \in Items, row'[c][i].qty > 0, row'[c][i].status = "active"
               PROVE  row'[c][i].qty = orders'[c][1][i]
    BY DEF OrderedShowsItsOrder, Active, Present
  <2>1. CASE SameOrders(c)
    <3>1. status[c] = "ordered" /\ orders'[c] = orders[c]
      BY <2>1 DEF SameOrders
    <3>2. row'[c][i] = row[c][i]
      BY <1>1, <3>1, RowsWritten DEF NoRow
    <3>3. i \in Active(c)
      BY <3>2 DEF Active, Present
    <3>4. QED
      BY <3>1, <3>2, <3>3 DEF CartDeskConsistent, OrderedShowsItsOrder
  <2>2. CASE CheckedOut(c)
    <3>1. Len(orders[c]) = 0 /\ row' = row
      BY <2>2 DEF CartDeskConsistent, OrderedOnce, CheckedOut
    <3>2. Lines(c) \in [Items -> 0..MaxQty]
      BY <1>1, RowIsRow, CartConstants DEF Lines
    <3>3. orders'[c][1] = Lines(c)
      BY <1>4, <2>2, <3>1, <3>2 DEF CheckedOut
    <3>4. Lines(c)[i] = row[c][i].qty
      BY <3>1 DEF Lines, Active, Present
    <3>5. QED
      BY <3>1, <3>3, <3>4
  <2>3. QED
    BY <1>3, <2>1, <2>2
<1>7. PagesKnow'
  BY <1>4, PageIsPage DEF CartDeskConsistent, PagesKnow, PageKnows, SameOrders
<1>8. QED
  BY <1>1, <1>2, <1>5, <1>6, <1>7 DEF CartDeskConsistent

\* What a page that is saved may do to the orders' invariants.
LEMMA PageEnds ==
    ASSUME CartDeskConsistent, NEW g \in Pages, page[g] # NoPage, EndPage(g),
           orders' = orders,
           \A d \in Carts \ {page[g].cart} : status'[d] = status[d] /\ row'[d] = row[d],
           page[g].whole,
           \/ status'[page[g].cart] \in {status[page[g].cart], "none"}
           \/ page[g].kind = "cart" /\ status'[page[g].cart] = page[g].status,
           page[g].status = "ordered" =>
              /\ status'[page[g].cart] # "none" \/ status[page[g].cart] = "none"
              /\ \A i \in Items :
                    \/ row'[page[g].cart][i] = row[page[g].cart][i]
                    \/ /\ i \in DOMAIN page[g].rows
                       /\ row'[page[g].cart][i] = page[g].rows[i]
    PROVE  page' \in [Pages -> PageState] /\ OrdersSound'
<1> DEFINE c == page[g].cart
<1>1. /\ c \in Carts /\ page[g].since \in {"active", "ordered"}
      /\ page \in [Pages -> PageState]
  BY PageIsPage DEF CartDeskConsistent
<1>2. /\ page' = [page EXCEPT ![g] = NoPage]
      /\ overtaken' = IF status[c] = "ordered" /\ page[g].since # "ordered"
                      THEN overtaken \cup {c} ELSE overtaken
  BY DEF EndPage
<1>3. page' \in [Pages -> PageState]
  BY <1>1, <1>2 DEF PageState
<1>4. \A d \in Carts : d \notin overtaken' => d \notin overtaken
  BY <1>2
<1>5. /\ \A d \in Carts : d # c => status'[d] = status[d] /\ row'[d] = row[d]
      /\ status'[c] \in {status[c], page[g].since, "none"}
  BY DEF CartDeskConsistent, PagesKnow, PageKnows
<1>6. page[g].since = "ordered" /\ c \notin overtaken =>
         /\ status[c] = "ordered" /\ page[g].status = "ordered"
         /\ \A i \in DOMAIN page[g].rows : page[g].rows[i].status = "active" =>
               page[g].rows[i].qty = orders[c][1][i]
  BY DEF CartDeskConsistent, PagesKnow, PageKnows
<1>7. c \notin overtaken' =>
         /\ status'[c] = "ordered" <=> status[c] = "ordered"
         /\ status[c] = "ordered" => page[g].since = "ordered"
  <2>1. CASE page[g].since = "ordered"
    BY <1>1, <1>4, <1>5, <1>6, <2>1
  <2>2. CASE page[g].since = "active"
    BY <1>2, <1>5, <2>2
  <2>3. QED
    BY <1>1, <2>1, <2>2
<1>8. \A d \in Carts : d \notin overtaken' => (status'[d] = "ordered" <=> status[d] = "ordered")
  BY <1>5, <1>7
<1>9. OrderedOnce'
  BY <1>4, <1>8 DEF CartDeskConsistent, OrderedOnce
<1>10. OrderedShowsItsOrder'
  <2> SUFFICES ASSUME NEW d \in Carts, d \notin overtaken', status'[d] = "ordered",
                      NEW i \in Items, row'[d][i].qty > 0, row'[d][i].status = "active"
               PROVE  row'[d][i].qty = orders[d][1][i]
    BY DEF OrderedShowsItsOrder, Active, Present
  <2>1. status[d] = "ordered" /\ d \notin overtaken
    BY <1>4, <1>8
  <2>2. CASE row'[d][i] = row[d][i]
    <3>1. i \in Active(d)
      BY <2>2 DEF Active, Present
    <3>2. QED
      BY <2>1, <2>2, <3>1 DEF CartDeskConsistent, OrderedShowsItsOrder
  <2>3. CASE row'[d][i] # row[d][i]
    <3>1. d = c /\ page[g].since = "ordered" /\ page[g].status = "ordered"
      BY <1>5, <1>6, <1>7, <2>1, <2>3
    <3>2. i \in DOMAIN page[g].rows /\ row'[d][i] = page[g].rows[i]
      BY <2>3, <3>1
    <3>3. QED
      BY <1>6, <2>1, <3>1, <3>2
  <2>4. QED
    BY <2>2, <2>3
<1>11. PagesKnow'
  <2> SUFFICES ASSUME NEW h \in Pages, page'[h] # NoPage
               PROVE  PageKnows(page[h])'
    BY DEF PagesKnow
  <2>1. page'[h] = page[h]
    BY <1>1, <1>2
  <2>2. page[h].cart \in Carts /\ PageKnows(page[h])
    BY <2>1, PageIsPage DEF CartDeskConsistent, PagesKnow
  <2>3. QED
    BY <1>4, <1>8, <2>1, <2>2 DEF PageKnows
<1>12. QED
  BY <1>3, <1>9, <1>10, <1>11 DEF OrdersSound

LEMMA RowsOfPage ==
    ASSUME CartDeskConsistent, NEW g \in Pages, page[g] # NoPage,
           NEW is, NEW new, is \subseteq Items, \A i \in is : new[i] \in Row,
           WriteRows(g, is, new)
    PROVE  /\ row' \in [Carts -> [Items -> Row]]
           /\ \A d \in Carts \ {page[g].cart} : row'[d] = row[d]
           /\ \A i \in Items : row'[page[g].cart][i] =
                                  IF i \in is THEN new[i] ELSE row[page[g].cart][i]
<1>1. row \in [Carts -> [Items -> Row]] /\ page[g].cart \in Carts
  BY PageIsPage DEF CartDeskConsistent, CartsConsistent, TypeOK
<1> DEFINE new2 == [i \in Items |-> IF i \in is THEN new[i] ELSE row[page[g].cart][i]]
<1>2. new2 \in [Items -> Row] /\ row' = [row EXCEPT ![page[g].cart] = new2]
  BY <1>1 DEF WriteRows
<1>3. QED
  BY <1>1, <1>2

LEMMA SaveRowStep ==
    ASSUME CartDeskConsistent, NEW g \in Pages, page[g] # NoPage,
           NEW new \in [DOMAIN page[g].rows -> Row],
           SaveRow(g, new)
    PROVE  CartDeskConsistent'
<1>1. /\ DOMAIN new = DOMAIN page[g].rows /\ DOMAIN new \subseteq Items
      /\ \A i \in DOMAIN new : new[i] \in Row
  BY PageIsPage
<1>2. /\ row' \in [Carts -> [Items -> Row]]
      /\ \A d \in Carts \ {page[g].cart} : row'[d] = row[d]
      /\ \A i \in Items : row'[page[g].cart][i] =
                             IF i \in DOMAIN new THEN new[i] ELSE row[page[g].cart][i]
  BY <1>1, RowsOfPage DEF SaveRow
<1>3. UNCHANGED <<owner, status, orders, stock, shown, request, merge>>
  BY DEF SaveRow, customerVars
<1>4. TypeOK'
  BY <1>2, <1>3 DEF CartDeskConsistent, CartsConsistent, TypeOK
<1>5. CartsConsistent'
  BY <1>3, <1>4, RowsFrame DEF CartDeskConsistent
<1>6. /\ EndPage(g) /\ page[g].whole
      /\ page[g].status = "ordered" => new = page[g].rows
  BY DEF SaveRow, PassesPage, CartDeskConsistent, PagesKnow, PageKnows
<1>7. page' \in [Pages -> PageState] /\ OrdersSound'
  BY <1>1, <1>2, <1>3, <1>6, PageEnds
<1>8. QED
  BY <1>5, <1>7 DEF CartDeskConsistent, OrdersSound

LEMMA DeleteRowStep ==
    ASSUME CartDeskConsistent, NEW g \in Pages, page[g] # NoPage, DeleteRow(g)
    PROVE  CartDeskConsistent'
<1> DEFINE is == DOMAIN page[g].rows
           new == [i \in is |-> NoRow]
<1>1. is \subseteq Items /\ \A i \in is : new[i] \in Row
  BY PageIsPage DEF Row
<1>2. /\ row' \in [Carts -> [Items -> Row]]
      /\ \A d \in Carts \ {page[g].cart} : row'[d] = row[d]
  BY <1>1, RowsOfPage DEF DeleteRow
<1>3. UNCHANGED <<owner, status, orders, stock, shown, request, merge>>
  BY DEF DeleteRow, customerVars
<1>4. TypeOK'
  BY <1>2, <1>3 DEF CartDeskConsistent, CartsConsistent, TypeOK
<1>5. CartsConsistent'
  BY <1>3, <1>4, RowsFrame DEF CartDeskConsistent
<1>6. EndPage(g) /\ page[g].whole /\ page[g].status # "ordered"
  BY DEF DeleteRow
<1>7. page' \in [Pages -> PageState] /\ OrdersSound'
  BY <1>2, <1>3, <1>6, PageEnds
<1>8. QED
  BY <1>5, <1>7 DEF CartDeskConsistent, OrdersSound

\* A page that takes its cart out of the active ones, or is the only one there.
LEMMA CartWritten ==
    ASSUME CartsConsistent, TypeOK', NEW c \in Carts, NEW o, ~Merging(c),
           merge' = merge,
           \A d \in Carts \ {c} : owner'[d] = owner[d] /\ status'[d] = status[d],
           \/ status'[c] # "active"
           \/ /\ owner'[c] = o /\ ActiveCart(o) \subseteq {c}
              /\ o \in Users => merge[o] = NoMerge
    PROVE  CartsConsistent'
<1> USE DEF CartsConsistent
<1>1. ASSUME NEW y \in Users \cup Sessions
      PROVE  ActiveCart(y)' \in {ActiveCart(y) \ {c}, {c}}
             /\ (c \in ActiveCart(y)' => y = o /\ ActiveCart(o) \subseteq {c})
  BY DEF ActiveCart
<1>2. Unique'
  BY <1>1 DEF Unique
<1>3. MergesKnow'
  <2> SUFFICES ASSUME NEW u \in Users, merge[u] # NoMerge
               PROVE  /\ merge[u].guest \in Carts
                      /\ owner'[merge[u].guest] \in Sessions
                      /\ status'[merge[u].guest] = "active"
                      /\ IF merge[u].into = None THEN ActiveCart(u)' = {}
                         ELSE merge[u].into \in ActiveCart(u)'
                      /\ \A v \in Users :
                            merge[v] # NoMerge /\ merge[v].guest = merge[u].guest => v = u
    BY DEF MergesKnow
  <2>1. u # o \/ status'[c] # "active"
    BY DEF Merging
  <2>2. c # merge[u].guest /\ c # merge[u].into
    BY DEF Merging
  <2>3. c \notin ActiveCart(u)'
    BY <1>1, <2>1 DEF ActiveCart
  <2>4. ActiveCart(u)' = ActiveCart(u) \ {c}
    BY <1>1, <2>3
  <2>5. QED
    BY <2>2, <2>4 DEF MergesKnow
<1>4. QED
  BY <1>2, <1>3 DEF Unique

LEMMA SaveCartStep ==
    ASSUME CartDeskConsistent, NEW g \in Pages, page[g] # NoPage,
           NEW new \in [DOMAIN page[g].rows -> Row],
           SaveCart(g, new)
    PROVE  CartDeskConsistent'
<1> DEFINE c == page[g].cart
           o == page[g].owner
           is == {i \in DOMAIN new : new[i] # page[g].rows[i]}
<1>1. /\ DOMAIN new = DOMAIN page[g].rows /\ is \subseteq Items
      /\ \A i \in is : new[i] \in Row
  BY PageIsPage
<1>2. /\ row' \in [Carts -> [Items -> Row]]
      /\ \A d \in Carts \ {c} : row'[d] = row[d]
      /\ \A i \in Items : row'[c][i] = IF i \in is THEN new[i] ELSE row[c][i]
  BY <1>1, RowsOfPage DEF SaveCart
<1>3. /\ UNCHANGED <<orders, stock, shown, request, merge>>
      /\ owner' = [owner EXCEPT ![c] = o]
      /\ status' = [status EXCEPT ![c] = page[g].status]
      /\ ~Merging(c) /\ EndPage(g)
      /\ page[g].status = "active" =>
            ActiveCart(o) \subseteq {c} /\ (o \in Users => merge[o] = NoMerge)
      /\ page[g].status = "ordered" => new = page[g].rows
      /\ page[g].kind = "cart" /\ page[g].whole
  BY DEF SaveCart, customerVars, PassesPage, CartDeskConsistent, PagesKnow, PageKnows
<1>4. /\ c \in Carts /\ o \in Users \cup Sessions \cup {None}
      /\ page[g].status \in {"active", "ordered"} /\ TypeOK /\ CartsConsistent
  BY <1>3, PageIsPage DEF CartDeskConsistent, CartsConsistent, PagesKnow, PageKnows
<1>5. TypeOK'
  BY <1>2, <1>3, <1>4 DEF TypeOK
<1>6. /\ owner'[c] = o /\ status'[c] = page[g].status
      /\ \A d \in Carts \ {c} : owner'[d] = owner[d] /\ status'[d] = status[d]
  BY <1>3, <1>4 DEF TypeOK
<1>7. CartsConsistent'
  BY <1>3, <1>4, <1>5, <1>6, CartWritten
<1>8. page' \in [Pages -> PageState] /\ OrdersSound'
  BY <1>2, <1>3, <1>4, <1>6, PageEnds
<1>9. QED
  BY <1>7, <1>8 DEF CartDeskConsistent, OrdersSound

LEMMA DeleteCartStep ==
    ASSUME CartDeskConsistent, NEW g \in Pages, page[g] # NoPage, DeleteCart(g)
    PROVE  CartDeskConsistent'
<1> DEFINE c == page[g].cart
           none == [i \in Items |-> NoRow]
<1>1. /\ UNCHANGED <<owner, orders, stock, shown, request, merge>>
      /\ status' = [status EXCEPT ![c] = "none"]
      /\ row' = [row EXCEPT ![c] = none]
      /\ ~Merging(c) /\ EndPage(g) /\ page[g].whole /\ page[g].status # "ordered"
  BY DEF DeleteCart, customerVars
<1>2. c \in Carts /\ TypeOK /\ CartsConsistent /\ none \in [Items -> Row]
  BY PageIsPage DEF CartDeskConsistent, CartsConsistent, Row
<1> HIDE DEF none
<1>3. TypeOK'
  BY <1>1, <1>2 DEF TypeOK
<1>4. /\ status'[c] = "none"
      /\ \A d \in Carts \ {c} :
            owner'[d] = owner[d] /\ status'[d] = status[d] /\ row'[d] = row[d]
  BY <1>1, <1>2 DEF TypeOK
<1>5. CartsConsistent'
  BY <1>1, <1>2, <1>3, <1>4, CartWritten
<1>6. page' \in [Pages -> PageState] /\ OrdersSound'
  BY <1>1, <1>4, PageEnds
<1>7. QED
  BY <1>5, <1>6 DEF CartDeskConsistent, OrdersSound

\* Loading and validating change no row of the shop.
LEMMA PageReads ==
    ASSUME CartDeskConsistent, NEW g \in Pages,
           \/ \E c \in Carts, k \in {"cart", "row"}, is \in SUBSET Items :
                 LoadPage(g, c, k, is)
           \/ LoadRest(g) \/ CleanPage(g)
           \/ DropPage(g)
    PROVE  CartDeskConsistent'
<1>1. UNCHANGED <<vars, overtaken>>
  BY DEF LoadPage, LoadRest, CleanPage, DropPage
<1>2. CartsConsistent' /\ OrderedOnce' /\ OrderedShowsItsOrder'
  <2>1. CartsConsistent' = CartsConsistent
    BY <1>1 DEF vars, CartsConsistent, TypeOK, MergesKnow, ActiveCart
  <2>2. OrderedOnce' = OrderedOnce /\ OrderedShowsItsOrder' = OrderedShowsItsOrder
    BY <1>1 DEF vars, OrderedOnce, OrderedShowsItsOrder, Active, Present
  <2>3. QED
    BY <2>1, <2>2 DEF CartDeskConsistent
<1>3. page \in [Pages -> PageState] /\ PagesKnow /\ TypeOK
  BY DEF CartDeskConsistent, CartsConsistent
<1>4. ASSUME NEW pg \in PageState, page' = [page EXCEPT ![g] = pg],
             pg # NoPage => PageKnows(pg)
      PROVE  CartDeskConsistent'
  <2>1. page' \in [Pages -> PageState]
    BY <1>3, <1>4
  <2>2. PagesKnow'
    <3> SUFFICES ASSUME NEW h \in Pages, page'[h] # NoPage
                 PROVE  PageKnows(page[h])'
      BY DEF PagesKnow
    <3>1. page'[h] \in {page[h], pg} /\ PageKnows(page'[h])
      BY <1>3, <1>4 DEF PagesKnow
    <3>2. UNCHANGED <<status, orders, overtaken>>
      BY <1>1 DEF vars
    <3>3. QED
      BY <3>1, <3>2 DEF PageKnows
  <2>3. QED
    BY <1>2, <2>1, <2>2 DEF CartDeskConsistent
<1>5. ASSUME NEW c \in Carts, NEW k \in {"cart", "row"}, NEW is \in SUBSET Items,
             LoadPage(g, c, k, is)
      PROVE  CartDeskConsistent'
  <2> DEFINE rows == [i \in is |-> row[c][i]]
             pg == [kind |-> k, cart |-> c, owner |-> owner[c], since |-> status[c],
                    status |-> IF k = "cart" THEN status[c] ELSE "none",
                    rows |-> rows, whole |-> FALSE, seen |-> Unread]
  <2>1. is \subseteq Present(c) /\ status[c] \in {"active", "ordered"} /\ c \notin overtaken
    BY <1>3, <1>5 DEF LoadPage, TypeOK
  <2>2. rows \in [is -> Row]
    BY <1>3 DEF TypeOK
  <2>3. pg \in PageState
    BY <1>3, <2>1, <2>2 DEF PageState, TypeOK
  <2>4. status[c] = "ordered" =>
           \A i \in is : rows[i].status = "active" => rows[i].qty = orders[c][1][i]
    BY <2>1 DEF CartDeskConsistent, OrderedShowsItsOrder, Active, Present
  <2>5. page' = [page EXCEPT ![g] = pg]
    BY <1>5 DEF LoadPage
  <2>6. PageKnows(pg)
    BY <2>4 DEF PageKnows
  <2>7. QED
    BY <1>4, <2>3, <2>5, <2>6
<1>6. ASSUME LoadRest(g) PROVE CartDeskConsistent'
  <2> DEFINE c == page[g].cart
             rows == [i \in Present(c) |-> row[c][i]]
  <2>1. /\ page[g] \in PageState /\ page[g] # NoPage /\ ~page[g].whole
        /\ PageKnows(page[g]) /\ c \in Carts
    BY <1>3, <1>6, PageIsPage DEF LoadRest, PagesKnow
  <2>2. CASE page[g].kind = "cart"
    <3> DEFINE pg == [page[g] EXCEPT !.whole = TRUE, !.rows = rows]
    <3>1. rows \in [Present(c) -> Row] /\ Present(c) \in SUBSET Items
      BY <1>3, <2>1 DEF TypeOK, Present
    <3>2. pg \in PageState
      <4>1. rows \in UNION {[is -> Row] : is \in SUBSET Items}
        BY <3>1
      <4> HIDE DEF rows
      <4>2. QED
        BY <2>1, <4>1 DEF PageState
    <3>3. page' = [page EXCEPT ![g] = pg]
      BY <1>6, <2>2 DEF LoadRest
    <3>4. status[c] = "ordered" /\ c \notin overtaken =>
             \A i \in Present(c) : rows[i].status = "active" => rows[i].qty = orders[c][1][i]
      BY <2>1 DEF CartDeskConsistent, OrderedShowsItsOrder, Active, Present
    <3>5. /\ pg.whole /\ pg.kind = "cart" /\ pg.status = page[g].status
          /\ pg.since = page[g].since /\ pg.cart = c /\ pg.rows = rows
      BY <2>1, <2>2 DEF PageState
    <3>6. PageKnows(pg)
      <4> HIDE DEF pg
      <4>1. QED
        BY <2>1, <2>2, <3>4, <3>5 DEF PageKnows
    <3>7. QED
      BY <1>4, <3>2, <3>3, <3>6
  <2>3. CASE page[g].kind = "row"
    <3> DEFINE pg == [page[g] EXCEPT !.whole = TRUE, !.status = status[c]]
    <3>1. status[c] \in {"none", "active", "ordered"}
      BY <1>3, <2>1 DEF TypeOK
    <3>2. pg \in PageState
      BY <2>1, <3>1 DEF PageState
    <3>3. page' = [page EXCEPT ![g] = pg]
      BY <1>6, <2>3 DEF LoadRest
    <3>4. /\ pg.whole /\ pg.kind = "row" /\ pg.status = status[c]
          /\ pg.since = page[g].since /\ pg.cart = c /\ pg.rows = page[g].rows
      BY <2>1, <2>3 DEF PageState
    <3>5. PageKnows(pg)
      <4> HIDE DEF pg
      <4>1. QED
        BY <2>1, <2>3, <3>4 DEF PageKnows
    <3>6. QED
      BY <1>4, <3>2, <3>3, <3>5
  <2>4. QED
    BY <2>1, <2>2, <2>3, PageIsPage
<1>7. ASSUME CleanPage(g) PROVE CartDeskConsistent'
  <2> DEFINE seen == [p \in Products |-> IF shown[p] THEN stock[p] ELSE 0]
             pg == [page[g] EXCEPT !.seen = seen]
  <2>1. seen \in [Products -> 0..MaxStock]
    BY <1>3, CartConstants DEF TypeOK
  <2> HIDE DEF seen
  <2> page[g] \in PageState \ {NoPage}
    BY <1>3, <1>7 DEF CleanPage
  <2>2. /\ pg \in PageState /\ pg.kind = page[g].kind /\ pg.since = page[g].since
        /\ pg.status = page[g].status /\ pg.cart = page[g].cart
        /\ pg.rows = page[g].rows /\ pg.whole = page[g].whole
    BY <2>1 DEF PageState
  <2>3. page' = [page EXCEPT ![g] = pg]
    BY <1>7 DEF CleanPage, seen
  <2>4. page[g].whole /\ PageKnows(page[g])
    BY <1>3, <1>7 DEF PagesKnow, CleanPage
  <2>5. PageKnows(pg)
    <3> HIDE DEF pg
    <3>1. QED
      BY <2>2, <2>4 DEF PageKnows
  <2> HIDE DEF pg
  <2>6. QED
    BY <1>4, <2>2, <2>3, <2>5
<1>8. CASE DropPage(g)
  BY <1>4, <1>8 DEF DropPage, PageState
<1>9. QED
  BY <1>5, <1>6, <1>7, <1>8

LEMMA DeskStep == CartDeskConsistent /\ [DeskNext]_cartDeskVars => CartDeskConsistent'
<1> SUFFICES ASSUME CartDeskConsistent, [DeskNext]_cartDeskVars
             PROVE  CartDeskConsistent'
  OBVIOUS
<1>1. CASE Next /\ UNCHANGED <<page, overtaken>>
  BY <1>1, CustomerStep
<1>2. CASE UNCHANGED cartDeskVars
  BY <1>2, CustomerStep DEF cartDeskVars
<1>3. ASSUME NEW g \in Pages, Desk(g) PROVE CartDeskConsistent'
  BY <1>3, PageReads, SaveRowStep, SaveCartStep, DeleteRowStep, DeleteCartStep DEF Desk
<1>4. QED
  BY <1>1, <1>2, <1>3 DEF DeskNext

\* The customers' part of the step that CustomersOrderOnce takes.
LEMMA CountStep ==
    ASSUME CartsConsistent, OneOrderPerCart, [Next]_vars
    PROVE  OneOrderPerCart'
<1> SUFFICES ASSUME NEW c \in Carts
             PROVE  Len(orders'[c]) = IF status'[c] = "ordered" THEN 1 ELSE 0
  BY DEF OneOrderPerCart
<1>1. /\ Len(orders[c]) = IF status[c] = "ordered" THEN 1 ELSE 0
      /\ orders[c] \in Seq([Items -> 0..MaxQty])
  BY DEF CartsConsistent, TypeOK, OneOrderPerCart
<1>2. CASE SameOrders(c)
  BY <1>1, <1>2 DEF SameOrders
<1>3. CASE CheckedOut(c)
  <2>1. Lines(c) \in [Items -> 0..MaxQty]
    BY RowIsRow, CartConstants DEF Lines, CartsConsistent
  <2>2. Len(Append(orders[c], Lines(c))) = Len(orders[c]) + 1
    BY <1>1, <2>1
  <2>3. QED
    BY <1>1, <1>3, <2>2 DEF CheckedOut
<1>4. QED
  BY <1>2, <1>3, OrdersStep

-----------------------------------------------------------------------------
(* The theorems *)

\* The invariant of the carts with their back office holds for any users,
\* guests, carts, workers and pages.
THEOREM CartDeskAlwaysConsistent == DeskSpec => []CartDeskConsistent
<1>1. DeskInit => CartDeskConsistent
  <2> SUFFICES ASSUME DeskInit PROVE CartDeskConsistent
    OBVIOUS
  <2>1. CartsConsistent
    BY CartsInit DEF DeskInit
  <2>2. page \in [Pages -> PageState] /\ \A g \in Pages : page[g] = NoPage
    BY DEF DeskInit, PageState
  <2>3. OrderedOnce /\ OrderedShowsItsOrder /\ PagesKnow
    BY <2>2 DEF DeskInit, Init, OrderedOnce, OrderedShowsItsOrder, PagesKnow
  <2>4. QED
    BY <2>1, <2>2, <2>3 DEF CartDeskConsistent
<1>2. QED
  BY <1>1, DeskStep, PTL DEF DeskSpec

\* A cart is ordered once, by one order, unless a page of the back office that
\* was loaded before the order was saved after it.
THEOREM CartsOrderedOnce == DeskSpec => []OrderedOnce
<1>1. CartDeskConsistent => OrderedOnce
  BY DEF CartDeskConsistent
<1>2. QED
  BY <1>1, CartDeskAlwaysConsistent, PTL

\* What an ordered cart still shows is what was ordered.
THEOREM OrderedCartsShowTheirOrder == DeskSpec => []OrderedShowsItsOrder
<1>1. CartDeskConsistent => OrderedShowsItsOrder
  BY DEF CartDeskConsistent
<1>2. QED
  BY <1>1, CartDeskAlwaysConsistent, PTL

\* Nobody has two active carts, whatever customers and staff do.
THEOREM AtMostOneActiveCart == DeskSpec => []OneActiveCart
<1>1. ASSUME CartsConsistent, NEW x \in Users \cup Sessions
      PROVE  Cardinality(ActiveCart(x)) <= 1
  <2>1. CASE ActiveCart(x) = {}
    BY <2>1, FS_EmptySet
  <2>2. CASE ActiveCart(x) # {}
    <3>1. PICK c : c \in ActiveCart(x)
      BY <2>2
    <3>2. ActiveCart(x) = {c}
      BY <1>1, <3>1 DEF CartsConsistent
    <3>3. QED
      BY <3>2, FS_Singleton
  <2>3. QED
    BY <2>1, <2>2
<1>2. CartDeskConsistent => OneActiveCart
  BY <1>1 DEF CartDeskConsistent, OneActiveCart
<1>3. QED
  BY <1>2, CartDeskAlwaysConsistent, PTL

\* A step of the back office that ends no submission writes nothing.
LEMMA PageStays ==
    ASSUME page \in [Pages -> PageState], UNCHANGED page, NEW g \in Pages, Desk(g)
    PROVE  UNCHANGED vars
<1>1. page[g] # NoPage => ~EndPage(g)
  BY DEF EndPage
<1>2. QED
  BY <1>1 DEF Desk, LoadPage, LoadRest, CleanPage, DropPage, SaveRow, SaveCart, DeleteRow, DeleteCart

\* A guest's cart is deleted by a login only when a user's cart holds all it
\* held.
THEOREM LoginLosesNothing == DeskSpec => NothingLostAtLogin
<1> DEFINE Kept ==
       \A g \in Carts :
          owner[g] \in Sessions /\ status[g] = "active" /\ status'[g] = "none" =>
             \E c \in Carts : /\ owner'[c] \in Users /\ status'[c] = "active"
                              /\ Present(g) \cup Present(c) \subseteq Present(c)'
<1>1. ASSUME CartDeskConsistent, [DeskNext]_cartDeskVars, UNCHANGED page
      PROVE  Kept
  <2>1. CASE [Next]_vars
    BY <1>1, <2>1, LoginStep DEF CartDeskConsistent, Absorbed
  <2>2. ASSUME NEW g \in Pages, Desk(g) PROVE UNCHANGED vars
    BY <1>1, <2>2, PageStays DEF CartDeskConsistent
  <2>3. QED
    BY <1>1, <2>1, <2>2 DEF DeskNext, cartDeskVars
<1>2. CartDeskConsistent /\ [DeskNext]_cartDeskVars =>
         [UNCHANGED page => Kept]_cartDeskVars
  BY <1>1
<1>3. QED
  BY <1>2, CartDeskAlwaysConsistent, PTL DEF DeskSpec, NothingLostAtLogin

-----------------------------------------------------------------------------
(* What a cart holds of a product.                                          *)

Counts(r) == r.qty > 0 /\ r.status = "active"

\* The rows that Units adds up.
Held(rs, p) == {i \in ItemsOf(p) : Counts(rs[i])}

LEMMA UnitsOfHeld ==
    ASSUME NEW rs, NEW p
    PROVE  Units(rs, p) = SumFunctionOnSet([i \in Items |-> rs[i].qty], Held(rs, p))
<1>1. Held(rs, p) = {i \in ItemsOf(p) : rs[i].qty > 0 /\ rs[i].status = "active"}
  BY DEF Held, Counts
<1>2. QED
  BY <1>1 DEF Units

LEMMA HeldTyped ==
    ASSUME NEW rs \in [Items -> Row], NEW p
    PROVE  /\ IsFiniteSet(Held(rs, p)) /\ Held(rs, p) \subseteq Items
           /\ \A i \in Items : rs[i].qty \in 0..MaxQty /\ rs[i].qty \in Nat
<1>1. Held(rs, p) \subseteq Items /\ IsFiniteSet(Items)
  BY CartConstants DEF Held, ItemsOf
<1>2. IsFiniteSet(Held(rs, p))
  BY <1>1, FS_Subset
<1>3. \A i \in Items : rs[i].qty \in 0..MaxQty
  BY CartConstants DEF Row, NoRow
<1>4. QED
  BY <1>1, <1>2, <1>3, CartConstants

LEMMA UnitsIsNat ==
    ASSUME NEW rs \in [Items -> Row], NEW p
    PROVE  Units(rs, p) \in Nat
<1> DEFINE f == [i \in Items |-> rs[i].qty]
<1>1. IsFiniteSet(Held(rs, p)) /\ \A i \in Held(rs, p) : f[i] \in Nat
  BY HeldTyped
<1>2. Units(rs, p) = SumFunctionOnSet(f, Held(rs, p))
  BY UnitsOfHeld
<1> HIDE DEF f
<1>3. QED
  BY <1>1, <1>2, SumIsNat

\* Only the rows of the product's items count.
LEMMA UnitsSame ==
    ASSUME NEW rs \in [Items -> Row], NEW ts \in [Items -> Row], NEW p,
           \A i \in ItemsOf(p) : rs[i] = ts[i]
    PROVE  Units(rs, p) = Units(ts, p)
<1> DEFINE f == [i \in Items |-> rs[i].qty]
           g == [i \in Items |-> ts[i].qty]
<1>1. Held(rs, p) = Held(ts, p)
  BY DEF Held
<1>2. /\ IsFiniteSet(Held(rs, p))
      /\ \A i \in Held(rs, p) : f[i] \in Int /\ g[i] = f[i]
  BY HeldTyped DEF Held
<1>3. Units(rs, p) = SumFunctionOnSet(f, Held(rs, p))
  BY UnitsOfHeld
<1>4. Units(ts, p) = SumFunctionOnSet(g, Held(ts, p))
  BY UnitsOfHeld
<1> HIDE DEF f, g
<1>5. SumFunctionOnSet(g, Held(rs, p)) = SumFunctionOnSet(f, Held(rs, p))
  BY <1>2, SumSame
<1>6. QED
  BY <1>1, <1>3, <1>4, <1>5

\* A row adds what it holds to what the others hold.
LEMMA UnitsOfOne ==
    ASSUME NEW rs \in [Items -> Row], NEW i \in Items, NEW p, p = ProductOf[i]
    PROVE  Units(rs, p) = Units([rs EXCEPT ![i] = NoRow], p)
                             + IF Counts(rs[i]) THEN rs[i].qty ELSE 0
<1> DEFINE os == [rs EXCEPT ![i] = NoRow]
           f == [j \in Items |-> rs[j].qty]
           g == [j \in Items |-> os[j].qty]
<1>1. NoRow \in Row /\ ~Counts(NoRow)
  BY DEF NoRow, Row, Counts
<1>2. os \in [Items -> Row] /\ os[i] = NoRow /\ \A j \in Items \ {i} : os[j] = rs[j]
  BY <1>1
<1>3. i \in ItemsOf(p)
  BY DEF ItemsOf
<1>4. ItemsOf(p) \subseteq Items
  BY DEF ItemsOf
<1>5. Units(rs, p) = SumFunctionOnSet(f, Held(rs, p))
  BY UnitsOfHeld
<1>6. Units(os, p) = SumFunctionOnSet(g, Held(os, p))
  BY UnitsOfHeld
<1> HIDE DEF os
<1>7. Held(os, p) = Held(rs, p) \ {i}
  BY <1>1, <1>2, <1>4 DEF Held
<1>8. /\ IsFiniteSet(Held(os, p))
      /\ \A j \in Held(os, p) : f[j] \in Int /\ g[j] = f[j]
  <2>1. Held(os, p) \subseteq Items \ {i} /\ IsFiniteSet(Held(os, p))
    BY <1>2, <1>7, HeldTyped
  <2>2. \A j \in Items \ {i} : f[j] = rs[j].qty /\ g[j] = rs[j].qty
    BY <1>2
  <2>3. \A j \in Items : rs[j].qty \in Nat
    BY HeldTyped
  <2>4. QED
    BY <2>1, <2>2, <2>3
<1>9. f[i] = rs[i].qty /\ IsFiniteSet(Held(rs, p)) /\ \A j \in Held(rs, p) : f[j] \in Int
  BY HeldTyped
<1> HIDE DEF f, g
<1>10. SumFunctionOnSet(g, Held(os, p)) = SumFunctionOnSet(f, Held(os, p))
  BY <1>8, SumSame
<1>11. CASE Counts(rs[i])
  <2>1. i \in Held(rs, p)
    BY <1>3, <1>11 DEF Held
  <2>2. SumFunctionOnSet(f, Held(rs, p)) = f[i] + SumFunctionOnSet(f, Held(rs, p) \ {i})
    BY <1>9, <2>1, SumTakeOut
  <2>3. SumFunctionOnSet(f, Held(os, p)) \in Int /\ f[i] \in Int
    BY <1>8, <1>9, <2>1, SumIsInt
  <2>4. Units(rs, p) = Units(os, p) + rs[i].qty
    BY <1>5, <1>6, <1>7, <1>9, <1>10, <2>2, <2>3
  <2>5. QED
    BY <1>11, <2>4 DEF os
<1>12. CASE ~Counts(rs[i])
  <2>1. Held(os, p) = Held(rs, p)
    BY <1>7, <1>12 DEF Held
  <2>2. Units(os, p) \in Nat
    BY <1>2, UnitsIsNat
  <2>3. Units(rs, p) = Units(os, p)
    BY <1>5, <1>6, <1>10, <2>1
  <2>4. QED
    BY <1>12, <2>2, <2>3 DEF os
<1>13. QED
  BY <1>11, <1>12

-----------------------------------------------------------------------------
(* What customers do grows within the stock.                                *)

Within(c, p) == Units(row'[c], p) > Units(row[c], p) => Units(row'[c], p) <= stock[p]

LEMMA SameRowsWithin ==
    ASSUME TypeOK, TypeOK', NEW c \in Carts, NEW p \in Products,
           \A i \in ItemsOf(p) : row'[c][i] = row[c][i]
    PROVE  Within(c, p)
<1>1. row[c] \in [Items -> Row] /\ row'[c] \in [Items -> Row]
  BY DEF TypeOK
<1>2. Units(row'[c], p) = Units(row[c], p)
  <2> DEFINE rs == row[c]
             ts == row'[c]
  <2>1. rs \in [Items -> Row] /\ ts \in [Items -> Row] /\ \A i \in ItemsOf(p) : ts[i] = rs[i]
    BY <1>1
  <2> HIDE DEF rs, ts
  <2>2. Units(ts, p) = Units(rs, p)
    BY <2>1, UnitsSame
  <2>3. QED
    BY <2>2 DEF rs, ts
<1>3. Units(row[c], p) \in Nat
  BY <1>1, UnitsIsNat
<1>4. QED
  BY <1>2, <1>3 DEF Within

\* A call that writes one row, and has asked whether the stock suffices when
\* the row will count.
LEMMA OneRowWithin ==
    ASSUME TypeOK, TypeOK', NEW w, NEW c \in Carts, NEW i \in Items, NEW r \in Row,
           Put(w, c, i, r),
           Counts(r) => OtherUnits(c, i) + r.qty <= stock[ProductOf[i]],
           NEW d \in Carts, NEW p \in Products
    PROVE  Within(d, p)
<1>1. row \in [Carts -> [Items -> Row]] /\ row' = [row EXCEPT ![c][i] = r]
  BY DEF TypeOK, Put
<1>2. CASE d # c \/ ProductOf[i] # p
  <2>1. \A j \in ItemsOf(p) : row'[d][j] = row[d][j]
    BY <1>1, <1>2 DEF ItemsOf
  <2>2. QED
    BY <2>1, SameRowsWithin
<1>3. CASE d = c /\ ProductOf[i] = p
  <2> DEFINE rs == row[c]
             ts == [rs EXCEPT ![i] = r]
             os == [rs EXCEPT ![i] = NoRow]
  <2>1. rs \in [Items -> Row] /\ ts \in [Items -> Row] /\ row'[c] = ts
    BY <1>1
  <2>2. os = [ts EXCEPT ![i] = NoRow] /\ ts[i] = r
    BY <2>1
  <2>3. OtherUnits(c, i) = Units(os, p)
    BY <1>3 DEF OtherUnits
  <2>4. os \in [Items -> Row]
    BY <2>1 DEF Row
  <2>5. rs[i].qty \in Nat /\ r.qty \in Nat
    BY <2>1, <2>2, HeldTyped
  <2> HIDE DEF rs, ts, os
  <2>6. Units(ts, p) = Units(os, p) + IF Counts(r) THEN r.qty ELSE 0
    BY <1>3, <2>1, <2>2, UnitsOfOne
  <2>7. Units(rs, p) = Units(os, p) + IF Counts(rs[i]) THEN rs[i].qty ELSE 0
    BY <1>3, <2>1, UnitsOfOne DEF os
  <2>8. Units(os, p) \in Nat
    BY <2>4, UnitsIsNat
  <2>9. CASE Counts(r)
    BY <1>3, <2>1, <2>3, <2>6, <2>9 DEF Within
  <2>10. CASE ~Counts(r)
    <3>1. Units(ts, p) <= Units(rs, p)
      BY <2>5, <2>6, <2>7, <2>8, <2>10
    <3>2. Units(ts, p) \in Nat /\ Units(rs, p) \in Nat
      BY <2>5, <2>6, <2>7, <2>8
    <3>3. QED
      BY <1>3, <2>1, <3>1, <3>2 DEF Within, rs
  <2>11. QED
    BY <2>9, <2>10
<1>4. QED
  BY <1>2, <1>3

\* Rows that are served one after the other, each no more than what the demands
\* of those before it have left, get no more than there is.
LEMMA ServedInTurn ==
    ASSUME NEW A, IsFiniteSet(A), NEW B, IsFiniteSet(B), A \subseteq B,
           NEW got, NEW asked, NEW rank, NEW there \in Nat,
           \A b \in B : asked[b] \in Nat /\ rank[b] \in Nat,
           \A a \in A : /\ got[a] \in Nat /\ got[a] <= asked[a]
                        /\ got[a] <= there -
                              SumFunctionOnSet(asked, {b \in B : rank[b] < rank[a]}),
           \A a, b \in A : rank[a] = rank[b] => a = b
    PROVE  SumFunctionOnSet(got, A) <= there
<1>1. CASE A = {}
  BY <1>1, SumOfNone
<1>2. CASE A # {}
  <2>1. PICK m \in A : \A a \in A : rank[a] <= rank[m]
    BY <1>2, GreatestNumber
  <2> DEFINE rest == A \ {m}
             before == {b \in B : rank[b] < rank[m]}
  <2>2. rest \subseteq before /\ before \subseteq B
    <3>1. \A a \in rest : rank[a] < rank[m]
      <4> SUFFICES ASSUME NEW a \in rest PROVE rank[a] < rank[m]
        OBVIOUS
      <4>1. rank[a] \in Nat /\ rank[m] \in Nat /\ rank[a] # rank[m] /\ rank[a] <= rank[m]
        BY <2>1
      <4>2. QED
        BY <4>1
    <3>2. QED
      BY <3>1
  <2>3. got[m] \in Nat /\ got[m] <= there - SumFunctionOnSet(asked, before)
    OBVIOUS
  <2>4. /\ \A a \in A : got[a] \in Int /\ asked[a] \in Int
        /\ \A a \in rest : got[a] \in Int /\ asked[a] \in Int /\ got[a] <= asked[a]
    <3>1. \A a \in A : got[a] \in Nat /\ got[a] <= asked[a]
      OBVIOUS
    <3>2. \A a \in A : asked[a] \in Nat
      OBVIOUS
    <3>3. \A n \in Nat : n \in Int
      OBVIOUS
    <3>4. QED
      BY <3>1, <3>2, <3>3
  <2>5. IsFiniteSet(rest) /\ IsFiniteSet(before)
    BY <2>2, FS_Subset
  <2>6. \A b \in before : asked[b] \in Nat /\ asked[b] \in Int
    OBVIOUS
  <2>7. SumFunctionOnSet(got, A) = got[m] + SumFunctionOnSet(got, rest)
    <3>1. \A a \in A : got[a] \in Int
      BY <2>4
    <3>2. QED
      BY <3>1, SumTakeOut
  <2> HIDE DEF rest, before
  <2>8. SumFunctionOnSet(got, rest) <= SumFunctionOnSet(asked, rest)
    BY <2>4, <2>5, SumMonotone
  <2>9. SumFunctionOnSet(asked, rest) <= SumFunctionOnSet(asked, before)
    BY <2>2, <2>5, <2>6, SumOfPart
  <2>10. /\ SumFunctionOnSet(got, rest) \in Int
         /\ SumFunctionOnSet(asked, rest) \in Int
    BY <2>4, <2>5, SumIsInt
  <2>11. SumFunctionOnSet(asked, before) \in Int
    BY <2>5, <2>6, SumIsInt
  <2>12. QED
    BY <2>3, <2>7, <2>8, <2>9, <2>10, <2>11
<1>3. QED
  BY <1>1, <1>2

\* The rows of a merge that are to be active, and what each asks for.
Contenders(g, c, p, latest) ==
    {j \in ItemsOf(p) : Together(g, c, j) > 0 /\ LatestStatus(g, c, j, latest) = "active"}

Asked(g, c) == [j \in Items |-> Together(g, c, j)]

LEMMA TogetherIsNat ==
    ASSUME TypeOK, NEW g \in Carts, NEW c \in Carts
    PROVE  \A j \in Items : Together(g, c, j) \in Nat
<1>1. \A j \in Items : row[g][j].qty \in Nat /\ row[c][j].qty \in Nat
  BY RowIsRow, CartConstants
<1>2. QED
  BY <1>1 DEF Together

\* What a row of a merge is given is no more than it asks for, and no more than
\* is left when the rows ranked before it have what they ask for.
LEMMA MergedShare ==
    ASSUME TypeOK, NEW g \in Carts, NEW c \in Carts, NEW i \in Items, NEW latest, NEW rank,
           Counts(Merged(g, c, i, latest, rank))
    PROVE  LET got == Merged(g, c, i, latest, rank).qty
               before == {j \in Contenders(g, c, ProductOf[i], latest) : rank[j] < rank[i]}
           IN  /\ LatestStatus(g, c, i, latest) = "active"
               /\ got <= Together(g, c, i)
               /\ got <= stock[ProductOf[i]] - SumFunctionOnSet(Asked(g, c), before)
<1> DEFINE units == IF Available(ProductOf[i])
                    THEN Allocated(g, c, i, latest, rank) ELSE 0
           before == {j \in Contenders(g, c, ProductOf[i], latest) : rank[j] < rank[i]}
           asked == SumFunctionOnSet(Asked(g, c), before)
           left == stock[ProductOf[i]] - asked
<1>1. Merged(g, c, i, latest, rank) =
        IF LatestStatus(g, c, i, latest) = "active" /\ units > 0
        THEN [qty |-> units, status |-> "active"]
        ELSE [qty |-> Together(g, c, i), status |-> "saved"]
  BY DEF Merged
<1>2. Allocated(g, c, i, latest, rank) =
        IF Together(g, c, i) < left THEN Together(g, c, i) ELSE left
  <2>1. before = {j \in ItemsOf(ProductOf[i]) : /\ Together(g, c, j) > 0
                                                /\ LatestStatus(g, c, j, latest) = "active"
                                                /\ rank[j] < rank[i]}
    BY DEF Contenders
  <2>2. QED
    BY <2>1 DEF Allocated, Asked
<1>3. stock[ProductOf[i]] \in Nat /\ Together(g, c, i) \in Nat
  BY CartConstants, TogetherIsNat DEF TypeOK
<1>4. asked \in Nat
  <2> DEFINE f == Asked(g, c)
  <2>1. IsFiniteSet(before)
    <3>1. before \subseteq Items /\ IsFiniteSet(Items)
      BY CartConstants DEF Contenders, ItemsOf
    <3>2. QED
      BY <3>1, FS_Subset
  <2>2. \A j \in before : f[j] \in Nat
    BY TogetherIsNat DEF Asked, Contenders, ItemsOf
  <2> HIDE DEF f, before
  <2>3. SumFunctionOnSet(f, before) \in Nat
    BY <2>1, <2>2, SumIsNat
  <2>4. QED
    BY <2>3 DEF f
<1> HIDE DEF units, asked
<1>5. /\ LatestStatus(g, c, i, latest) = "active" /\ units > 0
      /\ Merged(g, c, i, latest, rank).qty = units
  BY <1>1 DEF Counts
<1>6. Available(ProductOf[i])
  BY <1>5 DEF units
<1>7. units <= left /\ units <= Together(g, c, i)
  BY <1>2, <1>3, <1>4, <1>6 DEF units
<1>8. QED
  BY <1>5, <1>7 DEF asked

LEMMA MergedWithin ==
    ASSUME CartsConsistent, NEW u \in Users, NEW c \in Carts,
           NEW latest, NEW rank \in [Items -> 1..Cardinality(Items)],
           IsInjective(rank), MergeApply(u, c, latest, rank),
           NEW d \in Carts, NEW p \in Products
    PROVE  Within(d, p)
<1>1. PICK g \in Carts : g = merge[u].guest /\ g # c
  BY MergingCarts
<1> DEFINE rows == MergedRows(g, c, latest, rank)
           none == [i \in Items |-> NoRow]
<1>2. TypeOK /\ TypeOK'
  BY MergeApplyStep DEF CartsConsistent
<1>3. /\ row' = [row EXCEPT ![c] = rows, ![g] = none]
      /\ rows \in [Items -> Row]
  BY <1>1 DEF MergeApply
<1> HIDE DEF rows, none
<1>4. row'[c] = rows /\ row'[g] = none /\ \A e \in Carts : e # c /\ e # g => row'[e] = row[e]
  BY <1>1, <1>2, <1>3 DEF TypeOK
<1>5. CASE d # c /\ d # g
  <2>1. \A i \in ItemsOf(p) : row'[d][i] = row[d][i]
    BY <1>4, <1>5
  <2>2. QED
    BY <1>2, <2>1, SameRowsWithin
<1>6. CASE d = g
  <2>1. Held(none, p) = {}
    BY DEF Held, Counts, none, NoRow, ItemsOf
  <2>2. Units(none, p) = 0
    BY <2>1, UnitsOfHeld, SumOfNone
  <2>3. stock[p] \in Nat
    BY <1>2, CartConstants DEF TypeOK
  <2>4. QED
    BY <1>4, <1>6, <2>2, <2>3 DEF Within
<1>7. CASE d = c
  <2>1. CASE ~ \E j \in Present(g) : ProductOf[j] = p
    <3>1. \A i \in ItemsOf(p) : rows[i] = row[c][i]
      BY <2>1 DEF rows, MergedRows, ItemsOf
    <3>2. QED
      BY <1>2, <1>4, <1>7, <3>1, SameRowsWithin
  <2>2. CASE \E j \in Present(g) : ProductOf[j] = p
    <3> DEFINE A == Held(rows, p)
               B == Contenders(g, c, p, latest)
               got == [i \in Items |-> rows[i].qty]
               asked == Asked(g, c)
               there == stock[p]
    <3>1. IsFiniteSet(A) /\ A \subseteq ItemsOf(p) /\ A \subseteq Items
      BY <1>3, HeldTyped DEF Held
    <3>2. IsFiniteSet(B) /\ B \subseteq Items
      <4>1. B \subseteq Items /\ IsFiniteSet(Items)
        BY CartConstants DEF Contenders, ItemsOf
      <4>2. QED
        BY <4>1, FS_Subset
    <3>3. there \in Nat
      BY <1>2, CartConstants DEF TypeOK
    <3>4. \A b \in B : asked[b] \in Nat /\ rank[b] \in Nat
      <4>1. \A b \in Items : rank[b] \in Nat
        OBVIOUS
      <4>2. \A b \in Items : asked[b] \in Nat
        BY <1>2, TogetherIsNat DEF Asked
      <4>3. QED
        BY <3>2, <4>1, <4>2
    <3>5. ASSUME NEW i \in A
          PROVE  /\ i \in B /\ got[i] \in Nat /\ got[i] <= asked[i]
                 /\ got[i] <= there - SumFunctionOnSet(asked, {b \in B : rank[b] < rank[i]})
      <4>1. i \in Items /\ ProductOf[i] = p /\ Counts(rows[i])
        BY DEF Held, ItemsOf
      <4>2. got[i] = rows[i].qty /\ got[i] \in Nat
        BY <1>3, <4>1, HeldTyped
      <4>3. Together(g, c, i) \in Nat /\ row[c][i].qty \in Nat /\ row[g][i].qty \in Nat
        BY <1>2, <4>1, TogetherIsNat, RowIsRow, CartConstants
      <4>4. Together(g, c, i) > 0
        <5>1. CASE ~(Together(g, c, i) > 0)
          <6>1. rows[i] = row[c][i]
            BY <4>1, <5>1 DEF rows, MergedRows
          <6>2. row[c][i].qty = 0
            BY <4>3, <5>1 DEF Together
          <6>3. FALSE
            BY <4>1, <6>1, <6>2 DEF Counts
          <6>4. QED
            BY <6>3
        <5>2. QED
          BY <5>1
      <4>5. rows[i] = Merged(g, c, i, latest, rank)
        BY <2>2, <4>1, <4>4 DEF rows, MergedRows
      <4>6. /\ LatestStatus(g, c, i, latest) = "active"
            /\ rows[i].qty <= Together(g, c, i)
            /\ rows[i].qty <= there - SumFunctionOnSet(asked, {b \in B : rank[b] < rank[i]})
        BY <1>2, <4>1, <4>5, MergedShare
      <4>7. i \in B
        BY <4>1, <4>4, <4>6 DEF Contenders, ItemsOf
      <4>8. asked[i] = Together(g, c, i)
        BY <4>1 DEF Asked
      <4>9. QED
        BY <4>2, <4>6, <4>7, <4>8
    <3>6. \A a, b \in A : rank[a] = rank[b] => a = b
      BY <3>1 DEF IsInjective
    <3>7. A \subseteq B
      BY <3>5
    <3>8. Units(rows, p) = SumFunctionOnSet(got, A)
      BY UnitsOfHeld
    <3> HIDE DEF A, B, got, asked, there
    <3>9. SumFunctionOnSet(got, A) <= there
      BY <3>1, <3>2, <3>3, <3>4, <3>5, <3>6, <3>7, ServedInTurn
    <3>10. QED
      BY <1>4, <1>7, <3>8, <3>9 DEF Within, there
  <2>3. QED
    BY <2>1, <2>2
<1>8. QED
  BY <1>5, <1>6, <1>7

LEMMA CallWithin ==
    ASSUME CartsConsistent, CartsConsistent', NEW w, NEW c \in Carts, NEW i \in Items,
           \/ \E n \in 1..MaxQty : Add(w, c, i, n) \/ SetQuantity(w, c, i, n)
           \/ SaveForLater(w, c, i) \/ MoveToCart(w, c, i) \/ Remove(w, c, i),
           NEW d \in Carts, NEW p \in Products
    PROVE  Within(d, p)
<1>1. TypeOK /\ TypeOK'
  BY DEF CartsConsistent
<1>2. /\ row[c][i] \in Row /\ row[c][i].qty \in 0..MaxQty
      /\ row[c][i].status \in {"active", "saved"}
      /\ row[c][i].qty > 0 => row[c][i].qty \in 1..MaxQty
  BY <1>1, RowIsRow
<1>3. ASSUME NEW r \in Row, Put(w, c, i, r),
             Counts(r) => OtherUnits(c, i) + r.qty <= stock[ProductOf[i]]
      PROVE  Within(d, p)
  BY <1>1, <1>3, OneRowWithin
<1>4. OtherUnits(c, i) \in Nat
  <2> DEFINE os == [row[c] EXCEPT ![i] = NoRow]
  <2>1. os \in [Items -> Row]
    BY <1>1 DEF TypeOK, Row
  <2> HIDE DEF os
  <2>2. Units(os, ProductOf[i]) \in Nat
    BY <2>1, UnitsIsNat
  <2>3. QED
    BY <2>2 DEF OtherUnits, os
<1>5. ASSUME NEW n \in 1..MaxQty, Add(w, c, i, n) PROVE Within(d, p)
  <2> DEFINE q == row[c][i].qty + n
             r == [qty |-> q, status |-> "active"]
  <2>1. q \in 1..MaxQty /\ OtherUnits(c, i) + q <= stock[ProductOf[i]]
    BY <1>2, <1>4, <1>5, CartConstants DEF Add
  <2> HIDE DEF q
  <2>2. r \in Row /\ r.qty = q
    BY <2>1 DEF Row
  <2>3. Put(w, c, i, r)
    BY <1>5 DEF Add, q
  <2> HIDE DEF r
  <2>4. QED
    BY <1>3, <2>1, <2>2, <2>3
<1>6. ASSUME NEW n \in 1..MaxQty, SetQuantity(w, c, i, n) PROVE Within(d, p)
  <2> DEFINE r == [qty |-> n, status |-> "active"]
  <2>1. r \in Row /\ r.qty = n
    BY DEF Row
  <2>2. Put(w, c, i, r) /\ OtherUnits(c, i) + n <= stock[ProductOf[i]]
    BY <1>6 DEF SetQuantity
  <2> HIDE DEF r
  <2>3. QED
    BY <1>3, <2>1, <2>2
<1>7. CASE SaveForLater(w, c, i)
  <2> DEFINE r == [row[c][i] EXCEPT !.status = "saved"]
  <2>1. row[c][i].qty > 0 /\ Put(w, c, i, r)
    BY <1>7 DEF SaveForLater, Present
  <2>2. row[c][i] \in [qty : 1..MaxQty, status : {"active", "saved"}]
    BY <1>2, <2>1 DEF Row, NoRow
  <2>3. r \in Row /\ ~Counts(r)
    BY <2>2 DEF Row, Counts
  <2> HIDE DEF r
  <2>4. QED
    BY <1>3, <2>1, <2>3
<1>8. CASE MoveToCart(w, c, i)
  <2> DEFINE r == [row[c][i] EXCEPT !.status = "active"]
  <2>1. /\ row[c][i].qty > 0 /\ Put(w, c, i, r)
        /\ OtherUnits(c, i) + row[c][i].qty <= stock[ProductOf[i]]
    BY <1>8 DEF MoveToCart, Present
  <2>2. row[c][i] \in [qty : 1..MaxQty, status : {"active", "saved"}]
    BY <1>2, <2>1 DEF Row, NoRow
  <2>3. r \in Row /\ r.qty = row[c][i].qty
    BY <2>2 DEF Row
  <2> HIDE DEF r
  <2>4. QED
    BY <1>3, <2>1, <2>3
<1>9. CASE Remove(w, c, i)
  <2>1. NoRow \in Row /\ ~Counts(NoRow) /\ Put(w, c, i, NoRow)
    BY <1>9 DEF NoRow, Row, Counts, Remove
  <2>2. QED
    BY <1>3, <2>1
<1>10. QED
  BY <1>5, <1>6, <1>7, <1>8, <1>9

LEMMA CustomersWithin ==
    ASSUME CartsConsistent, [Next]_vars, NEW d \in Carts, NEW p \in Products
    PROVE  Within(d, p)
<1>1. CartsConsistent'
  BY CartsStep
<1>2. TypeOK /\ TypeOK'
  BY <1>1 DEF CartsConsistent
<1>3. CASE UNCHANGED row
  BY <1>2, <1>3, SameRowsWithin
<1>4. ASSUME NEW w \in Workers, View(w) PROVE Within(d, p)
  <2>1. ASSUME NEW c \in Carts, NEW i \in Items,
               \/ \E n \in 1..MaxQty : Add(w, c, i, n) \/ SetQuantity(w, c, i, n)
               \/ SaveForLater(w, c, i) \/ MoveToCart(w, c, i) \/ Remove(w, c, i)
        PROVE  Within(d, p)
    BY <1>1, <2>1, CallWithin
  <2>2. QED
    BY <1>3, <1>4, <2>1 DEF View, Visit, EndRequest, cartVars
<1>5. ASSUME NEW u \in Users, Merge(u) PROVE Within(d, p)
  <2>1. ASSUME NEW c \in Carts, NEW latest \in [Items -> {"guest", "user"}],
               NEW rank \in [Items -> 1..Cardinality(Items)],
               IsInjective(rank), MergeApply(u, c, latest, rank)
        PROVE  Within(d, p)
    BY <2>1, MergedWithin
  <2>2. QED
    BY <1>3, <1>5, <2>1 DEF Merge, MergeEmpty, MergeLock, MergeFails, cartVars
<1>6. QED
  BY <1>3, <1>4, <1>5 DEF Next, Checkout, ShownChanges, StockMoves, cartVars, vars

\* No request and no merge makes a cart hold more of a product than there is,
\* over all its variants, however many items share the product and in whatever
\* order a merge serves them (merge_guest_cart_to_user, _active_quantity_for_product).
THEOREM CartsGrowWithinStock == DeskSpec => CustomersGrowWithinStock
<1> DEFINE Bounded == \A c \in Carts, p \in Products :
          Units(row'[c], p) > Units(row[c], p) => Units(row'[c], p) <= stock[p]
<1>1. ASSUME CartDeskConsistent, [DeskNext]_cartDeskVars, UNCHANGED page
      PROVE  Bounded
  <2>1. CASE [Next]_vars
    BY <1>1, <2>1, CustomersWithin DEF CartDeskConsistent, Within
  <2>2. ASSUME NEW g \in Pages, Desk(g) PROVE UNCHANGED vars
    BY <1>1, <2>2, PageStays DEF CartDeskConsistent
  <2>3. QED
    BY <1>1, <2>1, <2>2 DEF DeskNext, cartDeskVars
<1>2. CartDeskConsistent /\ [DeskNext]_cartDeskVars =>
         [UNCHANGED page => Bounded]_cartDeskVars
  BY <1>1
<1>3. QED
  BY <1>2, CartDeskAlwaysConsistent, PTL DEF DeskSpec, CustomersGrowWithinStock

\* Without the back office every cart is ordered once.
THEOREM CustomersOrderOnce == Spec => []OneOrderPerCart
<1>1. Init => CartsConsistent /\ OneOrderPerCart
  BY CartsInit DEF Init, OneOrderPerCart
<1>2. CartsConsistent /\ OneOrderPerCart /\ [Next]_vars
        => (CartsConsistent /\ OneOrderPerCart)'
  BY CartsStep, CountStep
<1>3. QED
  BY <1>1, <1>2, PTL DEF Spec

\* Without the back office an ordered cart never gains or changes a row.
THEOREM OrderedCartsKeepTheirRows == Spec => OrderedCartGainsNothing
<1>1. Spec => []CartsConsistent
  BY CartsInit, CartsStep, PTL DEF Spec
<1>2. CartsConsistent /\ [Next]_vars =>
        [\A c \in Carts, i \in Items :
            status[c] = "ordered" => row'[c][i] \in {row[c][i], NoRow}]_vars
  BY RowsWritten
<1>3. QED
  BY <1>1, <1>2, PTL DEF Spec, OrderedCartGainsNothing
=============================================================================
