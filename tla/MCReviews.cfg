\* A review edited while a page that showed it approved is open.
CONSTANTS
    ReviewIds = {i1, i2}
    Pairs = {b1, b2}
    Texts = {t1, t2}
    Desks = {d1, d2}
    NoReview = NoReview
SPECIFICATION ReviewSpec
SYMMETRY Alike
PROPERTY
    EditAwaitsApproval
