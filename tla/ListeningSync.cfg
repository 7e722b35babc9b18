SPECIFICATION FairSpec
CONSTANTS
  alice = alice
  bob = bob
  shared = shared
  private = private
  n1 = n1
  n2 = n2
  n3 = n3
  Devices = {shared, private}
  Users = {alice, bob}
  Accounts <- Signing
  Started <- SignedIn
  Settled = {private}
  FirstDocs <- BothOrFirst
  Players = {shared}
  Cards <- Handled
  News = {n1, n2, n3}
  Known = {n1, n2}
  MaxQueue = 2
  Flush = Flush
  None = None
  Guest = Guest
  MaxTime = 3
  MaxRequests = 2
  MaxMoves = 2
  MaxActs = 3
CHECK_DEADLOCK FALSE
INVARIANTS
  LeakIsExplained
PROPERTIES
  PlayedCardStays
  NeverOlder
  ChangeArrives
