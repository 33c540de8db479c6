SPECIFICATION Spec
CONSTANTS
  p1 = p1
  w1 = w1
  w2 = w2
  w3 = w3
  Users = {p1}
  None = None
  NoUser = NoUser
  Visits = {w1, w2}
  Streams = {w1, w2}
  Suitable = {p1}
  Delay = 1
  Cap = 8
  SessionTTL = 3
  SessionNegTTL = 1
  PermTTL = 2
  NegTTL = 2
  Interval = 4
  Channels = {w1, w2, w3}
  Nobody = Nobody
  AnswerTTL = 2
  SharedTTL = 1
  BeatEvery = 2
  MaxPerUser = 2
  MaxTotal = 2
  k1 = k1
  Challenges = {k1}
  Posts = {w1, w2}
  Anybody = Anybody
  Undecided = Undecided
  Offers <- MCOffers
SYMMETRY MCSymmetry
CHECK_DEADLOCK FALSE
INVARIANTS
  ChannelsCounted
PROPERTIES
  SiteBounded
  StreamBounded
  ChannelBounded
  ConsentBounded
