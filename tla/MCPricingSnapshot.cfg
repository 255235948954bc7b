\* What ARCHITECTURE_LOCK.md says of the prices an order is made of: one row,
\* whole tomans, no shipping cost.
CONSTANTS
    v1 = v1
    v2 = v2
    mug = mug
    None = None
    Items = {v1}
    Products = {mug}
    ProductOf <- MCProductOf
    Adjust <- MCAdjust
    Toman = 1
    Prices = {2}
    OldPrices = {3}
    Costs = {0}
    MaxQty = 1
SPECIFICATION Spec
PROPERTY
    SnapshotIsAuthority
