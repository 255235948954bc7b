------------------------------ MODULE CartDesk ------------------------------
(***************************************************************************)
(* The cart back office (cart/admin.py) beside the carts' services.  Its    *)
(* pages lock nothing: a submission loads the cart and then its rows, or    *)
(* one row and then its cart, validates them against the products as read   *)
(* then, and saves what it has loaded, whatever customers have done between *)
(* any two of its queries.                                                  *)
(* CartAdmin and CartItemAdmin have no save_model, and save() without       *)
(* update_fields writes every column, the read-only ones too: a cart's      *)
(* status as it was, and a row that has gone once more.                     *)
(***************************************************************************)
EXTENDS Carts

CONSTANTS
    Pages       \* submissions of staff that can be in progress at once

VARIABLES
    page,       \* what a submission has loaded, NoPage without one
    overtaken   \* history: carts written by a page that was begun before their order

cartDeskVars == <<vars, page, overtaken>>

NoPage == [kind |-> "none"]
Unread == [p \in {} |-> 0]

DeskInit == Init /\ page = [g \in Pages |-> NoPage] /\ overtaken = {}

\* What the pages write leaves alone.
customerVars == <<orders, stock, shown, request, merge>>

\* get_object: the first query, of a cart (kind "cart") or of one row (kind
\* "row").  The page's field since is history: the cart's status at this moment.
\* Bound: no page of a cart that was overtaken before.
LoadPage(g, c, k, is) ==
    /\ page[g] = NoPage
    /\ status[c] # "none" /\ c \notin overtaken
    /\ is \subseteq Present(c)
    /\ Cardinality(is) = IF k = "row" THEN 1 ELSE 0
    /\ page' = [page EXCEPT ![g] =
          [kind |-> k, cart |-> c, owner |-> owner[c], since |-> status[c],
           status |-> IF k = "cart" THEN status[c] ELSE "none",
           rows |-> [i \in is |-> row[c][i]], whole |-> FALSE, seen |-> Unread]]
    /\ UNCHANGED <<vars, overtaken>>

\* A later query: the inline rows of the cart, or obj.cart of the row, which
\* has to exist.
LoadRest(g) ==
    LET c == page[g].cart IN
    /\ page[g] # NoPage /\ ~page[g].whole
    /\ \/ /\ page[g].kind = "cart"
          /\ page' = [page EXCEPT ![g].whole = TRUE,
                                  ![g].rows = [i \in Present(c) |-> row[c][i]]]
       \/ /\ page[g].kind = "row" /\ status[c] # "none"
          /\ page' = [page EXCEPT ![g].whole = TRUE, ![g].status = status[c]]
    /\ UNCHANGED <<vars, overtaken>>

\* full_clean reads the products of the rows, without a lock.
CleanPage(g) ==
    /\ page[g] # NoPage /\ page[g].whole /\ page[g].seen = Unread
    /\ page' = [page EXCEPT ![g].seen =
                   [p \in Products |-> IF shown[p] THEN stock[p] ELSE 0]]
    /\ UNCHANGED <<vars, overtaken>>

\* Mutant of PassesPage: the rows of an ordered cart can be edited.
PassesEdited(g, new) ==
    /\ page[g].seen # Unread
    /\ \A i \in DOMAIN new : new[i].status = "active" =>
                                new[i].qty <= page[g].seen[ProductOf[i]]

\* Every row that stays passes CartItem.clean; the rows of a cart that was
\* found ordered are read-only and cannot be deleted.
PassesPage(g, new) ==
    /\ page[g].seen # Unread
    /\ \A i \in DOMAIN new : new[i].status = "active" =>
                                new[i].qty <= page[g].seen[ProductOf[i]]
    /\ page[g].status = "ordered" => new = page[g].rows

\* The rows is of the page's cart become new: an update, or the insert of a row
\* that has gone, which waits for a merge that holds the cart.
WriteRows(g, is, new) ==
    LET c == page[g].cart IN
    /\ \A i \in is : ~MergingRow(c, i)
    /\ is \subseteq Present(c) \/ ~Merging(c)
    /\ is = {} \/ status[c] # "none"
    /\ row' = [row EXCEPT ![c] = [i \in Items |-> IF i \in is THEN new[i] ELSE row[c][i]]]

\* A submission ends; did it write to a cart ordered since its first query?
EndPage(g) ==
    LET c == page[g].cart IN
    /\ page' = [page EXCEPT ![g] = NoPage]
    /\ overtaken' = IF status[c] = "ordered" /\ page[g].since # "ordered"
                    THEN overtaken \cup {c} ELSE overtaken

\* CartItemAdmin: the row is saved even when nothing on the page has changed.
SaveRow(g, new) ==
    /\ page[g].kind = "row"
    /\ PassesPage(g, new) /\ \A i \in DOMAIN new : new[i] # NoRow
    /\ WriteRows(g, DOMAIN new, new)
    /\ EndPage(g)
    /\ UNCHANGED <<owner, status, customerVars>>

\* CartAdmin: the cart is saved as it was loaded, with the inline rows that were
\* changed or marked for deletion.  The unique index allows one active cart.
SaveCart(g, new) ==
    LET c == page[g].cart
        o == page[g].owner IN
    /\ page[g].kind = "cart"
    /\ PassesPage(g, new)
    /\ ~Merging(c)
    /\ page[g].status = "active" =>
          ActiveCart(o) \subseteq {c} /\ (o \in Users => merge[o] = NoMerge)
    /\ WriteRows(g, {i \in DOMAIN new : new[i] # page[g].rows[i]}, new)
    /\ owner' = [owner EXCEPT ![c] = o]
    /\ status' = [status EXCEPT ![c] = page[g].status]
    /\ EndPage(g)
    /\ UNCHANGED customerVars

\* The delete views: has_delete_permission looks at the status as loaded.
DeleteRow(g) ==
    /\ page[g].kind = "row" /\ page[g].whole /\ page[g].status # "ordered"
    /\ WriteRows(g, DOMAIN page[g].rows, [i \in DOMAIN page[g].rows |-> NoRow])
    /\ EndPage(g)
    /\ UNCHANGED <<owner, status, customerVars>>

DeleteCart(g) ==
    LET c == page[g].cart IN
    /\ page[g].kind = "cart" /\ page[g].whole /\ page[g].status # "ordered"
    /\ ~Merging(c) /\ status[c] # "none"
    /\ status' = [status EXCEPT ![c] = "none"]
    /\ row' = [row EXCEPT ![c] = [i \in Items |-> NoRow]]
    /\ EndPage(g)
    /\ UNCHANGED <<owner, customerVars>>

\* A form that is refused, or a write that a constraint refuses.
DropPage(g) ==
    /\ page[g] # NoPage
    /\ page' = [page EXCEPT ![g] = NoPage]
    /\ UNCHANGED <<vars, overtaken>>

Desk(g) ==
    \/ \E c \in Carts, k \in {"cart", "row"}, is \in SUBSET Items : LoadPage(g, c, k, is)
    \/ /\ page[g] # NoPage
       /\ \/ \E new \in [DOMAIN page[g].rows -> Row] : SaveRow(g, new) \/ SaveCart(g, new)
          \/ LoadRest(g) \/ CleanPage(g) \/ DeleteRow(g) \/ DeleteCart(g) \/ DropPage(g)

DeskNext ==
    \/ Next /\ UNCHANGED <<page, overtaken>>
    \/ \E g \in Pages : Desk(g)

DeskSpec == DeskInit /\ [][DeskNext]_cartDeskVars

-----------------------------------------------------------------------------
(* Properties *)

PageState ==
    {NoPage} \cup
    [kind : {"cart", "row"}, cart : Carts, owner : Users \cup Sessions \cup {None},
     since : {"active", "ordered"}, status : {"none", "active", "ordered"},
     rows : UNION {[is -> Row] : is \in SUBSET Items}, whole : BOOLEAN,
     seen : {Unread} \cup [Products -> 0..MaxStock]]

\* Only a page whose first query came before the order, and its save after it,
\* can bring an ordered cart back to be ordered again: any other cart has one
\* order when it is ordered and none before (CartAdmin saves the loaded status).
OrderedOnce ==
    \A c \in Carts \ overtaken :
        Len(orders[c]) = IF status[c] = "ordered" THEN 1 ELSE 0

\* What an ordered cart still shows is what was ordered: rows may have been
\* removed, and put back by a page of later, but none was added or changed.  A
\* page begun before the order is excused: a row's page that finds the cart
\* ordered afterwards still saves its read-only quantity, as read before.
OrderedShowsItsOrder ==
    \A c \in Carts \ overtaken : status[c] = "ordered" =>
        \A i \in Active(c) : row[c][i].qty = orders[c][1][i]

\* What a cart holds of a product over all its variants grows only up to the
\* stock there is at that moment, whatever staff have put into its rows: by no
\* request and by no merge beyond it.
CustomersGrowWithinStock ==
    [][UNCHANGED page => \A c \in Carts, p \in Products :
          Units(row'[c], p) > Units(row[c], p) => Units(row'[c], p) <= stock[p]]_cartDeskVars

\* When a guest's cart is deleted at login everything the guest had chosen is
\* in the user's cart, active or saved, beside all the user had there.
NothingLostAtLogin ==
    [][UNCHANGED page => \A g \in Carts :
          owner[g] \in Sessions /\ status[g] = "active" /\ status'[g] = "none" =>
             \E c \in Carts : /\ owner'[c] \in Users /\ status'[c] = "active"
                              /\ Present(g) \cup Present(c) \subseteq Present(c)']_cartDeskVars

\* What a page has loaded; one begun after the order has the ordered cart.
PageKnows(pg) ==
    LET c == pg.cart IN
    /\ pg.whole \/ pg.seen = Unread
    /\ pg.kind = "cart" => pg.status = pg.since
    /\ pg.since = "ordered" /\ c \notin overtaken =>
          /\ status[c] = "ordered"
          /\ pg.whole => pg.status = "ordered"
          /\ \A i \in DOMAIN pg.rows : pg.rows[i].status = "active" =>
                pg.rows[i].qty = orders[c][1][i]

PagesKnow == \A g \in Pages : page[g] # NoPage => PageKnows(page[g])

\* The inductive invariant of the carts with their back office.
CartDeskConsistent ==
    /\ CartsConsistent
    /\ page \in [Pages -> PageState]
    /\ OrderedOnce
    /\ OrderedShowsItsOrder
    /\ PagesKnow

\* orders/tests.py: an ordered cart's status is read-only in the admin site
\* ("freezes identity and lifecycle fields"), so that no page makes an ordered
\* cart the customer's active one again.
OrderedNotReopened ==
    [][\A c \in Carts : status[c] = "ordered" => status'[c] # "active"]_cartDeskVars
=============================================================================
