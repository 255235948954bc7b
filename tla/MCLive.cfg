\* Two transactions at once; two category forms over two categories.
CONSTANTS
    o1 = o1
    alice = alice
    bob = bob
    cartA = cartA
    cartB = cartB
    cartG = cartG
    None = None
    Orders <- MCOrders
    Users <- MCUsers
    Staff = {bob}
    Carts <- MCCarts
    Guests = {cartG}
    Products = {1, 2}
    LineIds = {1, 2}
    LineOrder <- MCLineOrder
    LineProduct <- MCLineProduct
    CartRows = {1, 2, 3, 4}
    RowCart <- MCRowCart
    RowProduct <- MCRowProduct
    Customer <- MCCustomer
    OrderCart <- MCOrderCart
    CartOf <- MCCartOf
    Workers = {w1, w2}
    Cats = {c1, c2}
    Editors = {e1, e2}
    NoCat = NoCat
    NoRow = NoRow
SPECIFICATION LiveSpec
PROPERTIES
    EveryTransactionEnds
    EveryWalkEnds
