\* Two orders for the units of p, two callbacks at once, a retry.
CONSTANTS
    o1 = o1
    o2 = o2
    p = p
    q = q
    None = None
    Orders <- MCOrders
    Legacy = {o2}
    Products <- MCProducts
    Qty <- MCQty
    InitialStock <- MCFirst
    MaxStock = 2
    Txns = {t1, t2}
    Gateways = {zarinpal}
    Handlers = {h1, h2}
    OperatorQty = {1}
    MaxMovements = 1
SPECIFICATION Spec
SYMMETRY WorkersAndTxns
INVARIANTS
    TypeOK
    FulfilmentBacked
    SettledNotPayable
    GoodsTakenOnce
    LedgerExplainsStock
PROPERTIES
    SettlementIsFinal
    StatusLifeCycle
    ImplementsSettlement
CHECK_DEADLOCK FALSE
