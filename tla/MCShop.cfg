\* Two login requests for one phone; two user forms over two accounts and an
\* owner; prices of 1, 1.5 and 2.5 tomans, a variant 2 tomans cheaper, old
\* prices of -0.5, 1.5 and 2.5, shipping of 1 or free from 4.
CONSTANTS
    Phones = {phone}
    Codes = {k1, k2}
    Requests = {r1, r2}
    MaxAttempts = 2
    NoCode = NoCode
    NoPhone = NoPhone
    u1 = u1
    u2 = u2
    owner = owner
    Staff <- MCStaff
    Owners <- MCOwners
    Forms = {f1, f2}
    NoForm = NoForm
    NoUser = NoUser
    v1 = v1
    v2 = v2
    mug = mug
    None = None
    Items = {v1, v2}
    Products = {mug}
    ProductOf <- MCProductOf
    Adjust <- MCAdjust
    Toman = 2
    Prices = {2, 3, 5}
    OldPrices <- MCOldPrices
    Costs = {0, 2, 8}
    MaxQty = 2
SPECIFICATION ShopSpec
SYMMETRY Alike
INVARIANTS
    LoginTypeOK
    StoredCodeWasSent
    VerifiedByCode
    OneAccountPerPhone
    SingleManager
    DriftsOneToman
PROPERTIES
    AppointedActive
    RoleAndPanelTogether
    PageIsKept
