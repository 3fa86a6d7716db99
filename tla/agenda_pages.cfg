SPECIFICATION AllSpec
CONSTANTS
  None = None
  alpha = alpha
  beta = beta
  gamma = gamma
  d1 = d1
  d2 = d2
  e1 = e1
  p1 = p1
  p2 = p2
  w1 = w1
  w2 = w2
  w3 = w3
  x1 = x1
  Users = {"ann", "bob", "cyd"}
  Admins = {}
  Companies = {"acme", "beta"}
  Company <- CompanyOf
  Products = {"p", "q"}
  Allowed <- AllowedTo
  Timeout = 1
  DeleteOnPush = TRUE
  Kinds = {"home"}
  MaxChanges = 2
  MaxUnderWay = 2
INVARIANT DashboardInv
INVARIANT AgendaLists
INVARIANT AgendaControls
CHECK_DEADLOCK FALSE
