SPECIFICATION FairSpec
CONSTANTS
  shared = shared
  private = private
  alice = alice
  bob = bob
  Devices = {shared, private}
  Users = {alice, bob}
  Accounts <- OwnAndShared
  Started <- HereOrAlice
  Saved = {s}
  Read = {}
  Retention <- OneTick
  Flush = Flush
  None = None
  Guest = Guest
  MaxTime = 3
  MaxEdits = 3
  MaxRequests = 2
  MaxMoves = 2
INVARIANTS
  NoResurrection
  LeakIsExplained
PROPERTIES
  RemovalNotForgotten
  RemovalArrives
CHECK_DEADLOCK FALSE
