-------------------------------- MODULE Carts --------------------------------
(***************************************************************************)
(* The carts: cart/services.py with the views that call it (cart/views.py), *)
(* the login that merges a guest's cart into the user's, and the checkout   *)
(* that orders one (OrderService.create_order, orders/services.py).         *)
(*                                                                         *)
(* A service call is a transaction that locks its cart, rows and products   *)
(* before it reads them: one action.  What is not atomic is a request: the  *)
(* view finds the active cart first (get_or_create_cart) and calls the      *)
(* service with it later.  The merge is two actions: it reads rows and      *)
(* products first, and locks the products after that.                       *)
(*                                                                         *)
(* A row is identified by its cart and its item, a product and variant.     *)
(* Prices and addresses are left out.  The recency that decides between the *)
(* rows of a merge is chosen freely.                                        *)
(***************************************************************************)
EXTENDS Integers, Sequences, FiniteSetsExt, Functions

CONSTANTS
    Carts,      \* cart rows that may be created
    Users, Sessions,
    Items,      \* pairs of a product and a variant, or no variant
    Products,
    ProductOf,  \* ProductOf[i]: the product of item i
    MaxStock,   \* bound on stock
    MaxQty,     \* bound on the quantity of a row
    Workers,    \* web workers that can be serving a cart view at once
    None        \* no cart, no owner

ASSUME CartConstants ==
    /\ IsFiniteSet(Items) /\ ProductOf \in [Items -> Products]
    /\ MaxStock \in Nat /\ MaxQty \in Nat
    /\ Users \cap Sessions = {}
    /\ None \notin Carts \cup Users \cup Sessions

VARIABLES
    owner,      \* the user or guest session of a cart
    status,     \* Cart.status: "active" or "ordered"; "none" without a row
    row,        \* row[c][i]: the CartItem; qty 0 without a row
    orders,     \* the orders created from a cart, each its lines' quantities
    stock,      \* Product.stock
    shown,      \* Product.is_active
    request,    \* the cart a worker's view has found, None when idle
    merge       \* a user's merge between its two halves, NoMerge otherwise

cartVars == <<owner, status, row, orders>>
vars == <<owner, status, row, orders, stock, shown, request, merge>>

NoRow == [qty |-> 0, status |-> "saved"]
Row == {NoRow} \cup [qty : 1..MaxQty, status : {"active", "saved"}]
NoMerge == [guest |-> None, into |-> None, seen |-> <<>>]

Init ==
    /\ owner = [c \in Carts |-> None]
    /\ status = [c \in Carts |-> "none"]
    /\ row = [c \in Carts |-> [i \in Items |-> NoRow]]
    /\ orders = [c \in Carts |-> <<>>]
    /\ stock \in [Products -> 0..MaxStock]
    /\ shown = [p \in Products |-> TRUE]
    /\ request = [w \in Workers |-> None]
    /\ merge = [u \in Users |-> NoMerge]

-----------------------------------------------------------------------------
ActiveCart(x) == {c \in Carts : owner[c] = x /\ status[c] = "active"}

\* Product.is_available, with the product's row locked.
Available(p) == shown[p] /\ stock[p] > 0

ItemsOf(p) == {i \in Items : ProductOf[i] = p}
Present(c) == {i \in Items : row[c][i].qty > 0}
Active(c) == {i \in Present(c) : row[c][i].status = "active"}

\* The quantity the active rows rs of a cart hold of product p.
Units(rs, p) ==
    SumFunctionOnSet([i \in Items |-> rs[i].qty],
                     {i \in ItemsOf(p) : rs[i].qty > 0 /\ rs[i].status = "active"})

\* _active_quantity_for_product, the item itself excluded.
OtherUnits(c, i) ==
    Units([row[c] EXCEPT ![i] = NoRow], ProductOf[i])

\* The carts a merge in progress has locked.
Merging(c) == \E u \in Users : merge[u] # NoMerge /\ c \in {merge[u].guest, merge[u].into}

\* The rows it has locked: the guest's, and the user's for the same products.
MergingRow(c, i) ==
    \E u \in Users : merge[u] # NoMerge
        /\ \/ c = merge[u].guest
           \/ c = merge[u].into /\ \E j \in Present(merge[u].guest) :
                                      ProductOf[j] = ProductOf[i]

-----------------------------------------------------------------------------
(* The cart views *)

\* get_or_create_cart.  The unique index on active carts makes a second
\* creation wait for the first: a merge in progress may be creating one.
Visit(w, x, c) ==
    /\ request[w] = None
    /\ \/ c \in ActiveCart(x) /\ UNCHANGED <<owner, status>>
       \/ /\ ActiveCart(x) = {}
          /\ x \in Users => merge[x] = NoMerge
          /\ status[c] = "none" /\ owner[c] = None
          /\ owner' = [owner EXCEPT ![c] = x]
          /\ status' = [status EXCEPT ![c] = "active"]
    /\ request' = [request EXCEPT ![w] = c]
    /\ UNCHANGED <<row, orders, stock, shown, merge>>

\* _lock_active_cart: the cart must still be active, and exist.
LockActiveCart(w, c) ==
    /\ request[w] = c /\ c # None
    /\ ~Merging(c)
    /\ status[c] = "active"

\* The end of a request that leaves row r for item i in cart c.
Put(w, c, i, r) ==
    /\ row' = [row EXCEPT ![c][i] = r]
    /\ request' = [request EXCEPT ![w] = None]
    /\ UNCHANGED <<owner, status, orders, stock, shown, merge>>

\* add_product_to_cart: a saved row becomes active with its quantity.
Add(w, c, i, n) ==
    /\ LockActiveCart(w, c)
    /\ Available(ProductOf[i])
    /\ OtherUnits(c, i) + row[c][i].qty + n <= stock[ProductOf[i]]
    /\ row[c][i].qty + n <= MaxQty
    /\ Put(w, c, i, [qty |-> row[c][i].qty + n, status |-> "active"])

\* update_cart_item_quantity_by_id, of an active row.
SetQuantity(w, c, i, n) ==
    /\ LockActiveCart(w, c)
    /\ i \in Active(c)
    /\ Available(ProductOf[i])
    /\ OtherUnits(c, i) + n <= stock[ProductOf[i]]
    /\ Put(w, c, i, [qty |-> n, status |-> "active"])

\* toggle_cart_item_status_by_id to "saved", always allowed.
SaveForLater(w, c, i) ==
    /\ LockActiveCart(w, c)
    /\ i \in Present(c)
    /\ Put(w, c, i, [row[c][i] EXCEPT !.status = "saved"])

\* toggle_cart_item_status_by_id to "active".
MoveToCart(w, c, i) ==
    /\ LockActiveCart(w, c)
    /\ i \in Present(c)
    /\ Available(ProductOf[i])
    /\ OtherUnits(c, i) + row[c][i].qty <= stock[ProductOf[i]]
    /\ Put(w, c, i, [row[c][i] EXCEPT !.status = "active"])

\* remove_cart_item: it locks the row, not the cart, and asks nothing of the
\* cart's status.
Remove(w, c, i) ==
    /\ request[w] = c /\ c # None
    /\ i \in Present(c)
    /\ ~MergingRow(c, i)
    /\ Put(w, c, i, NoRow)

\* A page view, a refused call, a row that has gone: nothing changes.
EndRequest(w) ==
    /\ request[w] # None
    /\ request' = [request EXCEPT ![w] = None]
    /\ UNCHANGED <<cartVars, stock, shown, merge>>

-----------------------------------------------------------------------------
(* merge_guest_cart_to_user, at login *)

\* The user, both carts and their rows are locked; the rows are read together
\* with their products, whose rows are not.  Without guest rows it ends here.
MergeLock(u, g) ==
    LET mine == ActiveCart(u) IN
    /\ merge[u] = NoMerge
    /\ owner[g] \in Sessions /\ status[g] = "active"
    /\ ~Merging(g) /\ Present(g) # {}
    /\ \E into \in IF mine = {} THEN {None} ELSE mine :
          merge' = [merge EXCEPT ![u] =
              [guest |-> g, into |-> into,
               seen |-> [p \in Products |-> IF shown[p] THEN stock[p] ELSE 0]]]
    /\ UNCHANGED <<cartVars, stock, shown, request>>

\* A guest's empty cart is deleted; the user has a cart from now on.
MergeEmpty(u, g) ==
    /\ merge[u] = NoMerge
    /\ owner[g] \in Sessions /\ status[g] = "active"
    /\ ~Merging(g) /\ Present(g) = {}
    /\ \E c \in Carts :
          /\ \/ c \in ActiveCart(u)
             \/ ActiveCart(u) = {} /\ status[c] = "none" /\ owner[c] = None
          /\ owner' = [owner EXCEPT ![c] = u]
          /\ status' = [status EXCEPT ![c] = "active", ![g] = "none"]
    /\ UNCHANGED <<row, orders, stock, shown, request, merge>>

\* Mutant of Target: the merge always opens a cart.
NewTarget(u, c) == status[c] = "none" /\ owner[c] = None

\* The cart the rows go to: the user's, or a new one.
Target(u, c) ==
    \/ c = merge[u].into
    \/ merge[u].into = None /\ status[c] = "none" /\ owner[c] = None

\* What the two rows of item i hold together.
Together(g, c, i) == row[g][i].qty + row[c][i].qty

\* The status of the row changed last wins: latest says whose that is.
LatestStatus(g, c, i, latest) ==
    IF row[c][i].qty = 0 \/ (row[g][i].qty > 0 /\ latest[i] = "guest")
    THEN row[g][i].status ELSE row[c][i].status

\* Mutant of Allocated: every row is cut to the stock on its own.
CutAlone(g, c, i, latest, rank) ==
    IF Together(g, c, i) < stock[ProductOf[i]]
    THEN Together(g, c, i) ELSE stock[ProductOf[i]]

\* The stock left for item i when rows ranked before it have been served.
Allocated(g, c, i, latest, rank) ==
    LET p == ProductOf[i]
        before == {j \in ItemsOf(p) : /\ Together(g, c, j) > 0
                                      /\ LatestStatus(g, c, j, latest) = "active"
                                      /\ rank[j] < rank[i]}
        left == stock[p] - SumFunctionOnSet([j \in Items |-> Together(g, c, j)], before)
    IN  IF Together(g, c, i) < left THEN Together(g, c, i) ELSE left

\* Mutant of Merged: a row with nothing left for it is dropped.
MergedOrDropped(g, c, i, latest, rank) ==
    LET units == IF Available(ProductOf[i]) THEN Allocated(g, c, i, latest, rank) ELSE 0
    IN  IF LatestStatus(g, c, i, latest) = "saved"
        THEN [qty |-> Together(g, c, i), status |-> "saved"]
        ELSE IF units > 0 THEN [qty |-> units, status |-> "active"] ELSE NoRow

\* The row of item i after the merge: active only as far as the stock goes,
\* saved whole when nothing is left for it.
Merged(g, c, i, latest, rank) ==
    LET units == IF Available(ProductOf[i]) THEN Allocated(g, c, i, latest, rank) ELSE 0
    IN  IF LatestStatus(g, c, i, latest) = "active" /\ units > 0
        THEN [qty |-> units, status |-> "active"]
        ELSE [qty |-> Together(g, c, i), status |-> "saved"]

\* Only rows of products the guest had are touched.
MergedRows(g, c, latest, rank) ==
    [i \in Items |->
        IF Together(g, c, i) > 0 /\ \E j \in Present(g) : ProductOf[j] = ProductOf[i]
        THEN Merged(g, c, i, latest, rank) ELSE row[c][i]]

\* full_clean validates an active row against the product as read with it,
\* before the product's lock was taken.
PassesClean(u, rows) ==
    \A j \in Present(merge[u].guest) : \A i \in ItemsOf(ProductOf[j]) :
        rows[i].status = "active" => rows[i].qty <= merge[u].seen[ProductOf[i]]

\* The products are locked, the rows written, the guest's cart deleted.
MergeApply(u, c, latest, rank) ==
    LET g == merge[u].guest
        rows == MergedRows(g, c, latest, rank) IN
    /\ merge[u] # NoMerge
    /\ Target(u, c)
    /\ PassesClean(u, rows)
    /\ rows \in [Items -> Row]
    /\ row' = [row EXCEPT ![c] = rows, ![g] = [i \in Items |-> NoRow]]
    /\ status' = [status EXCEPT ![c] = "active", ![g] = "none"]
    /\ owner' = [owner EXCEPT ![c] = u]
    /\ merge' = [merge EXCEPT ![u] = NoMerge]
    /\ UNCHANGED <<orders, stock, shown, request>>

\* The validation fails or the request dies: everything is rolled back, and
\* the login with it.
MergeFails(u) ==
    /\ merge[u] # NoMerge
    /\ merge' = [merge EXCEPT ![u] = NoMerge]
    /\ UNCHANGED <<cartVars, stock, shown, request>>

-----------------------------------------------------------------------------
(* Checkout, and the world outside *)

Lines(c) == [i \in Items |-> IF i \in Active(c) THEN row[c][i].qty ELSE 0]

\* Mutant of Checkout: the cart is looked up once, before the user's lock.
CheckoutAgain(u, c) ==
    /\ merge[u] = NoMerge /\ ~Merging(c)
    /\ owner[c] = u /\ status[c] # "none"
    /\ Active(c) # {}
    /\ \A i \in Active(c) : /\ Available(ProductOf[i])
                            /\ Units(row[c], ProductOf[i]) <= stock[ProductOf[i]]
    /\ orders' = [orders EXCEPT ![c] = Append(@, Lines(c))]
    /\ status' = [status EXCEPT ![c] = "ordered"]
    /\ UNCHANGED <<owner, row, stock, shown, request, merge>>

\* CheckoutView.post and create_order: the user, the cart, its active rows and
\* their products are locked; nothing is reserved.
Checkout(u, c) ==
    /\ merge[u] = NoMerge /\ ~Merging(c)
    /\ c \in ActiveCart(u)
    /\ Active(c) # {}
    /\ \A i \in Active(c) : /\ Available(ProductOf[i])
                            /\ Units(row[c], ProductOf[i]) <= stock[ProductOf[i]]
    /\ orders' = [orders EXCEPT ![c] = Append(@, Lines(c))]
    /\ status' = [status EXCEPT ![c] = "ordered"]
    /\ UNCHANGED <<owner, row, stock, shown, request, merge>>

\* Payments and the back office move stock and visibility (module Payments).
StockMoves(p, n) ==
    /\ stock' = [stock EXCEPT ![p] = n]
    /\ UNCHANGED <<cartVars, shown, request, merge>>

ShownChanges(p) ==
    /\ shown' = [shown EXCEPT ![p] = ~@]
    /\ UNCHANGED <<cartVars, stock, request, merge>>

View(w) ==
    \/ \E x \in Users \cup Sessions, c \in Carts : Visit(w, x, c)
    \/ \E c \in Carts, i \in Items :
          \/ \E n \in 1..MaxQty : Add(w, c, i, n) \/ SetQuantity(w, c, i, n)
          \/ SaveForLater(w, c, i) \/ MoveToCart(w, c, i) \/ Remove(w, c, i)
    \/ EndRequest(w)

Merge(u) ==
    \/ \E g \in Carts : MergeEmpty(u, g) \/ MergeLock(u, g)
    \/ \E c \in Carts, latest \in [Items -> {"guest", "user"}],
          rank \in [Items -> 1..Cardinality(Items)] :
          IsInjective(rank) /\ MergeApply(u, c, latest, rank)
    \/ MergeFails(u)

Next ==
    \/ \E w \in Workers : View(w)
    \/ \E u \in Users : Merge(u) \/ \E c \in Carts : Checkout(u, c)
    \/ \E p \in Products : ShownChanges(p) \/ \E n \in 0..MaxStock : StockMoves(p, n)

Spec == Init /\ [][Next]_vars

-----------------------------------------------------------------------------
(* Properties *)

TypeOK ==
    /\ owner \in [Carts -> Users \cup Sessions \cup {None}]
    /\ status \in [Carts -> {"none", "active", "ordered"}]
    /\ row \in [Carts -> [Items -> Row]]
    /\ orders \in [Carts -> Seq([Items -> 0..MaxQty])]
    /\ stock \in [Products -> 0..MaxStock]
    /\ shown \in [Products -> BOOLEAN]
    /\ request \in [Workers -> Carts \cup {None}]
    /\ merge \in [Users -> {NoMerge} \cup
                     [guest : Carts, into : Carts \cup {None},
                      seen : [Products -> 0..MaxStock]]]

\* Two clicks on "order", a login in another tab, a stale cart page: as far as
\* customers go a cart is ordered exactly once, by one order (CheckoutView.post,
\* create_order).
OneOrderPerCart ==
    \A c \in Carts : Len(orders[c]) = IF status[c] = "ordered" THEN 1 ELSE 0

\* A user or guest session never has two active carts, whatever merges,
\* visits, checkouts and staff do (the unique constraints on Cart).
OneActiveCart ==
    \A x \in Users \cup Sessions : Cardinality(ActiveCart(x)) <= 1

\* An ordered cart gains and changes nothing any more by its customer: a
\* request that found it active is refused, whatever it asks, except a removal.
OrderedCartGainsNothing ==
    [][\A c \in Carts, i \in Items :
          status[c] = "ordered" => row'[c][i] \in {row[c][i], NoRow}]_vars

\* What a merge between its halves knows of the carts it has locked.
MergesKnow ==
    \A u \in Users : merge[u] # NoMerge =>
        /\ merge[u].guest \in Carts
        /\ owner[merge[u].guest] \in Sessions /\ status[merge[u].guest] = "active"
        /\ IF merge[u].into = None THEN ActiveCart(u) = {}
           ELSE merge[u].into \in ActiveCart(u)
        /\ \A v \in Users : merge[v] # NoMerge /\ merge[v].guest = merge[u].guest
                            => v = u

\* The conjunction that is inductive; OneActiveCart without counting.
CartsConsistent ==
    /\ TypeOK
    /\ MergesKnow
    /\ \A x \in Users \cup Sessions : \A c, d \in ActiveCart(x) : c = d

\* ARCHITECTURE_LOCK.md: "The source cart is marked ordered ...; cart rows are
\* not deleted."  The active rows of an ordered cart are those of its order.
OrderedRowsKept ==
    \A c \in Carts : status[c] = "ordered" => orders[c] = <<Lines(c)>>
=============================================================================
