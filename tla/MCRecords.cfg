\* Two requests at once on addresses, categories and reviews; two
\* transactions at once over one order, two products, three carts; the
\* repair of three order items.
CONSTANTS
    north = north
    sari = sari
    shiraz = shiraz
    Customers = {k1, k2}
    AddressIds = {i1, i2, i3}
    Provinces = {north}
    Cities = {sari, shiraz}
    CitiesOf <- MCCitiesOf
    AdminPlaces <- MCAdminPlaces
    Tabs = {w1, w2}
    NoTab = NoTab
    NoAddress = NoAddress
    Cats = {i1, i2, i3}
    Editors = {w1, w2}
    NoCat = NoCat
    NoRow = NoRow
    ReviewIds = {k1, k2}
    Pairs = {b1}
    Texts = {t1, t2}
    Desks = {w1, w2}
    NoReview = NoReview
    o1 = o1
    alice = alice
    bob = bob
    cartA = cartA
    cartB = cartB
    cartG = cartG
    None = None
    Orders <- MCOrders
    Users <- MCUsers
    Staff = {bob}
    Carts <- MCCarts
    Guests = {cartG}
    Products = {1, 2}
    LineIds = {1, 2}
    LineOrder <- MCLineOrder
    LineProduct <- MCLineProduct
    CartRows = {1, 2, 3, 4}
    RowCart <- MCRowCart
    RowProduct <- MCRowProduct
    Customer <- MCCustomer
    OrderCart <- MCOrderCart
    CartOf <- MCCartOf
    Workers = {w1, w2}
    Items = {i1, i2, i3}
    Goods = {t1, t2}
    Null = Null
    NoItem = NoItem
SPECIFICATION RecordsSpec
SYMMETRY Alike
INVARIANTS
    OneDefault
    LocksExclude
    
    RepairIsWhole
    ForeignKeysBack
PROPERTIES
    DefaultHandedOver
    CycleOnlyByRace
    PublishedByStaff
    HistoryKept
