\* One opener, one addressee, one request at a time beside the event loop.
CONSTANTS
  alice = alice
  bob = bob
  carol = carol
  Actors = {alice, bob, carol}
  Opener = alice
  System = system
  None = None
  Threads = {t1}
  Loop = loop
  Openings <- MCOpenings
  Requests <- MCRequests
  Closings = {"accepted", "withdrawn"}
  Heirs = {bob}
  Threshold = 2
  MaxRetries = 1
  ScanLimit = 5
  LaterLimit = 3
  MaxEvents = 3
  MaxNudges = 2
SPECIFICATION FairSpec
INVARIANTS GovTypeOK SpeechWithinCap ClosedByQuorum AutoDeferOnce
PROPERTY ObligationEnds
CHECK_DEADLOCK FALSE
