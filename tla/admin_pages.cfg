SPECIFICATION AllSpec
CONSTANTS
  None = None
  me = me
  ann = ann
  bob = bob
  cid = cid
  comp1 = comp1
  comp2 = comp2
  prod1 = prod1
  prod2 = prod2
  prod3 = prod3
  text1 = text1
  text2 = text2
  u1 = u1
  u2 = u2
  alpha = alpha
  beta = beta
  ua = ua
  ub = ub
  wire = wire
  agenda = agenda
  i1 = i1
  i2 = i2
  n1 = n1
  n2 = n2
  s1 = s1
  s2 = s2
  o1 = o1
  o2 = o2
  p1 = p1
  p2 = p2
  Companies = {alpha, beta}
  Users = {ua}
  Sections = {wire}
  Products = {prod1}
  SectionOf <- WireProduct
  EmbedTypes = {}
  MayEmpty = TRUE
  MaxSaves = 2
INVARIANT AccountsManaged
INVARIANT PermissionsInv
INVARIANT SettingsAgree
PROPERTY SavesKeep
PROPERTY FormTellsGrant
CHECK_DEADLOCK FALSE
