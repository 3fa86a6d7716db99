SPECIFICATION AllSpec
CONSTANTS
  None = None
  alpha = alpha
  beta = beta
  gamma = gamma
  politics = politics
  sport = sport
  t1 = t1
  i1 = i1
  ann = ann
  bob = bob
  comp1 = comp1
  comp2 = comp2
  prod1 = prod1
  text2 = text2
  Stores = {"notifications", "wire", "profile"}
  MaxOutages = 3
INVARIANT SocketInv
PROPERTY Reconnects
PROPERTY LoadingEnds
PROPERTY ServerWorkEnds
CHECK_DEADLOCK FALSE
