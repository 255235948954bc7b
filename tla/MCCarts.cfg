\* Two requests in flight beside logins that merge, checkouts and a third cart;
\* one request beside a page of the back office.
CONSTANTS
    v1 = v1
    v2 = v2
    mug = mug
    None = None
    Carts = {c1, c2, c3}
    Users = {user}
    Sessions = {session}
    Items <- MCItems
    Products = {mug}
    ProductOf <- MCProductOf
    MaxStock = 2
    MaxQty = 2
    Workers = {w1, w2}
    Pages = {g1}
SPECIFICATION MCSpec
SYMMETRY WorkersAndCarts
INVARIANTS
    OrderedOnce
    OrderedShowsItsOrder
    OneActiveCart
PROPERTIES
    CustomersGrowWithinStock
    NothingLostAtLogin
CHECK_DEADLOCK FALSE
