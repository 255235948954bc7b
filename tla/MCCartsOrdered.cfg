CONSTANTS
    v1 = v1
    v2 = v2
    mug = mug
    None = None
    Carts = {c1, c2, c3}
    Users = {user}
    Sessions = {session}
    Items <- MCItems
    Products = {mug}
    ProductOf <- MCProductOf
    MaxStock = 2
    MaxQty = 2
    Workers = {w1, w2}
    Pages = {g1}
SPECIFICATION ShopSpec
SYMMETRY WorkersAndCarts
INVARIANT
    OrderedRowsKept
CHECK_DEADLOCK FALSE
