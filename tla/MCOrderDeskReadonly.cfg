\* What the read-only fields of the order form promise.
CONSTANTS
    o1 = o1
    o2 = o2
    p = p
    None = None
    Orders <- MCOrders
    Legacy = {o2}
    Products = {p}
    Qty <- MCQty
    InitialStock <- MCStock
    MaxStock = 3
    Txns = {t1, t2}
    Gateways = {zarinpal}
    Handlers = {h1, h2}
    OperatorQty = {1}
    MaxMovements = 0
SPECIFICATION DeskSpec
SYMMETRY WorkersAndTxns
PROPERTY
    FormKeepsReadonly
CHECK_DEADLOCK FALSE
