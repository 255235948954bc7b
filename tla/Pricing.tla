------------------------------- MODULE Pricing -------------------------------
(***************************************************************************)
(* What a customer is asked to pay: the price a cart row keeps since the    *)
(* customer last touched it (cart/services.py, cart/models.py), the totals  *)
(* of the checkout page (cart/views.py and its template) and of the order   *)
(* (OrderService.calculate_order_totals, Order.save), and the amount of the *)
(* payment, while staff edit prices and shipping methods.                   *)
(*                                                                         *)
(* A cart price has two decimals, an order's amounts have none: amounts are *)
(* counted in parts of a toman and the columns of an order round them.      *)
(* One cart, the order made from it, one shipping method; who may order and *)
(* whether the stock is there is in Carts.                                  *)
(***************************************************************************)
EXTENDS Integers, FiniteSetsExt

CONSTANTS
    Items,      \* a product with a variant of it, or without
    Products,
    ProductOf,  \* ProductOf[i]: the product of item i
    Adjust,     \* Adjust[i]: the variant's price_adjustment, of either sign
    Toman,      \* parts of a toman, 100 in the code
    Prices,     \* prices staff may enter (product_price_gte_0)
    OldPrices,  \* old prices staff may enter, which nothing validates
    Costs,      \* shipping costs and free-shipping thresholds, whole tomans
    MaxQty,     \* bound on the quantity of a row
    None        \* no page, no order

ASSUME PricingConstants ==
    /\ IsFiniteSet(Items)
    /\ ProductOf \in [Items -> Products]
    /\ Adjust \in [Items -> Int]
    /\ Toman \in Nat \ {0} /\ MaxQty \in Nat
    /\ Prices \subseteq Nat /\ OldPrices \subseteq Int
    /\ \A c \in Costs : c \in Nat /\ c % Toman = 0

VARIABLES
    price,      \* Product.price
    oldPrice,   \* Product.old_price, 0 when there is none
    method,     \* the ShippingMethod
    row,        \* the active cart rows: quantity and unit_price_snapshot
    page,       \* what the checkout page says is payable, None once the rows
                \* or the method are no longer those it showed
    order,      \* the order's amounts
    due         \* Payment.amount, 0 before the order

staffVars == <<price, oldPrice, method>>
vars == <<price, oldPrice, method, row, page, order, due>>

NoRow == [qty |-> 0, snapshot |-> 0]

Init ==
    /\ price \in [Products -> Prices]
    /\ oldPrice = [p \in Products |-> 0]
    /\ method \in [cost : Costs, threshold : Costs, active : {TRUE}]
    /\ row = [i \in Items |-> NoRow]
    /\ page = None
    /\ order = None
    /\ due = 0

-----------------------------------------------------------------------------
\* _unit_price: less than nothing, if the variant takes off more than the price.
UnitPrice(i) == price[ProductOf[i]] + Adjust[i]

\* CartItem.unit_old_price: the price before, when there is one and it was higher.
UnitOldPrice(i) ==
    IF oldPrice[ProductOf[i]] # 0 /\ oldPrice[ProductOf[i]] > row[i].snapshot
    THEN oldPrice[ProductOf[i]] ELSE row[i].snapshot

Total(unit) == SumFunctionOnSet([i \in Items |-> row[i].qty * unit[i]], Items)

\* Mutant of Subtotal: the rows are priced anew.
RepricedSubtotal == Total([i \in Items |-> UnitPrice(i)])

\* Cart.total_price and Cart.discount_amount.
Subtotal == Total([i \in Items |-> row[i].snapshot])
Discount == Total([i \in Items |-> UnitOldPrice(i)]) - Subtotal

\* ShippingMethod.calculate_shipping_cost.
ShippingCost(total) ==
    IF method.threshold > 0 /\ total >= method.threshold THEN 0 ELSE method.cost

\* What a column without decimals stores of an amount: the nearest toman, the
\* one further from zero of two (PostgreSQL's numeric).
HalfUp(x) == ((2 * x + Toman) \div (2 * Toman)) * Toman
Rounded(x) == IF x < 0 THEN -HalfUp(-x) ELSE HalfUp(x)

\* Order.save.
FinalAmount(subtotal, discount, shipping) ==
    IF subtotal - discount + shipping < 0 THEN 0
    ELSE subtotal - discount + shipping

-----------------------------------------------------------------------------
\* Staff edit prices and the shipping method.  A method that an order uses is
\* read-only (ShippingMethodAdmin).
Reprice(p) ==
    /\ price' \in {[price EXCEPT ![p] = x] : x \in Prices}
    /\ oldPrice' \in {[oldPrice EXCEPT ![p] = x] : x \in OldPrices \cup {0}}
    /\ UNCHANGED <<method, row, page, order, due>>

EditMethod ==
    /\ \/ order = None /\ method' \in [cost : Costs, threshold : Costs, active : BOOLEAN]
       \/ method' = [method EXCEPT !.active = ~@]
    /\ page' = None
    /\ UNCHANGED <<price, oldPrice, row, order, due>>

\* Every cart service that leaves a row active prices it anew.
PutRow(i, n) ==
    /\ order = None
    /\ row' = [row EXCEPT ![i] = [qty |-> n, snapshot |-> UnitPrice(i)]]
    /\ page' = None
    /\ UNCHANGED <<staffVars, order, due>>

TakeRow(i) ==
    /\ order = None
    /\ row' = [row EXCEPT ![i] = NoRow]
    /\ page' = None
    /\ UNCHANGED <<staffVars, order, due>>

HasRows == \E i \in Items : row[i].qty > 0

\* CheckoutView.get: the page adds the shipping it was given to the cart's
\* total as it displays it.
ShowCheckout ==
    /\ order = None /\ HasRows /\ method.active
    /\ page' = Rounded(Subtotal) + ShippingCost(Subtotal)
    /\ UNCHANGED <<staffVars, row, order, due>>

\* calculate_order_totals, as the order's columns store it.
Totals ==
    LET shipping == ShippingCost(Subtotal) IN
    [subtotal |-> Rounded(Subtotal), discount |-> Rounded(Discount),
     shipping |-> Rounded(shipping),
     final |-> Rounded(FinalAmount(Subtotal, Discount, shipping))]

\* CheckoutView.post and create_order, whatever the page says.
PlaceOrder ==
    /\ order = None /\ HasRows /\ method.active
    /\ order' = Totals
    /\ due' = Totals.final
    /\ UNCHANGED <<staffVars, row, page>>

\* Mutant of SaveOrderForm: Order.save works the shipping out again.
SaveReshipped ==
    /\ order # None
    /\ order' = [order EXCEPT !.final = FinalAmount(order.subtotal, order.discount,
                                                    ShippingCost(order.subtotal))]
    /\ UNCHANGED <<staffVars, row, page, due>>

\* The order form of the admin site saves the whole row: final_amount is
\* computed again, now from the stored amounts.
SaveOrderForm ==
    /\ order # None
    /\ order' = [order EXCEPT !.final = FinalAmount(order.subtotal, order.discount,
                                                    order.shipping)]
    /\ UNCHANGED <<staffVars, row, page, due>>

\* PaymentService.initiate, when it does not reuse a live transaction.
InitiatePayment ==
    /\ order # None
    /\ due' = order.final
    /\ UNCHANGED <<staffVars, row, page, order>>

Next ==
    \/ \E p \in Products : Reprice(p)
    \/ EditMethod
    \/ \E i \in Items : TakeRow(i) \/ \E n \in 1..MaxQty : PutRow(i, n)
    \/ ShowCheckout \/ PlaceOrder \/ SaveOrderForm \/ InitiatePayment

Spec == Init /\ [][Next]_vars

-----------------------------------------------------------------------------
(* Properties *)

WholeTomans == {x \in Int : x % Toman = 0}
Amounts == WholeTomans \cap Nat

\* What an order stores and asks for are whole tomans.  A variant may be priced
\* below zero, and so may the sum of the rows; the discount, the shipping, what
\* the order comes to and what a payment asks for never are negative.
PricingTypeOK ==
    /\ price \in [Products -> Nat] /\ oldPrice \in [Products -> Int]
    /\ method \in [cost : Costs, threshold : Costs, active : BOOLEAN]
    /\ row \in [Items -> [qty : Nat, snapshot : Int]]
    /\ page = None \/ page \in Int
    /\ \/ order = None
       \/ order \in [subtotal : WholeTomans, discount : Amounts,
                     shipping : Amounts, final : Amounts]
    /\ due \in Amounts

Ordered == order = None /\ order' # None

\* A customer who orders what the checkout page showed, by the method it
\* showed, is not asked for more than it said, whatever staff have done to the
\* prices since (unit_price_snapshot, unit_old_price, free shipping).  Of a cart
\* that comes to less than nothing the page may show less than the order asks.
PageIsKept ==
    [][Ordered /\ page # None /\ Subtotal >= 0 => order'.final <= page]_vars

\* Rounding each amount of an order by itself, and saving the order again from
\* the rounded ones, moves what is due by a toman at most; a payment and its
\* order never disagree by more (Order.save, create_order, initiate).
DriftsOneToman ==
    order # None =>
        LET sum == FinalAmount(order.subtotal, order.discount, order.shipping) IN
        \A x, y \in {due, order.final, sum} : x - y <= Toman

\* ARCHITECTURE_LOCK.md: "CartItem.unit_price_snapshot is the cart price
\* authority for order creation."
SnapshotIsAuthority ==
    [][Ordered => order'.final = Rounded(Subtotal) + order'.shipping]_vars
=============================================================================
