SPECIFICATION AllSpec
CONSTANTS
  None = None
  alpha = alpha
  beta = beta
  gamma = gamma
  delta = delta
  politics = politics
  sport = sport
  q1 = q1
  n1 = n1
  n2 = n2
  p1 = p1
  k1 = k1
  s1 = s1
  t1 = t1
  t2 = t2
  t3 = t3
  fu = fu
  fc = fc
  nu = nu
  nc = nc
  i1 = i1
  i2 = i2
  Workers = {w1, w2}
  Day = 12
  Period = 2
  Window = 2
  RunLimit = 4
  Grain = 6
  ChosenTimes = {0, 6}
  Horizon = 11
  MaxHands = 1
INVARIANT WireLists
INVARIANT StoryActions
INVARIANT SearchesAgree
INVARIANT StoriesShown
INVARIANT ReadersSettings
INVARIANT ServedOnce
 
PROPERTY SavedAsMeant
CHECK_DEADLOCK FALSE
