\* One order, two requests side by side: an administrator and the storefront.
SPECIFICATION Spec
CONSTANTS
    Orders = {o1}
    Items = {i1}
    Carts = {c1}
    Requests = {r1, r2}
    None = None
    MaxRequests = 4
    MaxEntries = 1
    CartOf <- SharedCart
    Quantity <- OneOfEach
    InitialStock <- TwoPieces
    Backordered = {}
    Unmanaged = {}
    Missing = {}
    Handlers = {"submit", "admin"}
SYMMETRY Symmetry
CHECK_DEADLOCK FALSE
PROPERTIES StatusFollowsTable
