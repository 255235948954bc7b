CONSTANTS
    o1 = o1
    p = p
    zarinpal = zarinpal
    mock = mock
    None = None
    Orders = {o1}
    Legacy = {}
    Products = {p}
    Qty <- MCQty
    InitialStock <- MCStock
    MaxStock = 1
    Txns = {t1, t2}
    Gateways = {zarinpal, mock}
    Remote = {zarinpal}
    Handlers = {h1, h2}
    OperatorQty = {1}
    MaxMovements = 0
    Amounts = {0, 1, 2}
    Unit = 10
SPECIFICATION GatewaySpec
SYMMETRY Alike
INVARIANTS
    ProviderAgrees
PROPERTIES
    OnlyCurrentSettles
    LiveTransactionKept
    ImplementsPayments
CHECK_DEADLOCK FALSE
