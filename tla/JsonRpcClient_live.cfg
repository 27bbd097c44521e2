\* A request and a notification contend for the slot beside two batches; the server may stop reading for good, and sends requests of its own.
SPECIFICATION FairSpec
CONSTANTS
  r1 = r1  r2 = r2  n1 = n1  b1 = b1  b2 = b2
  None = None
  Requests = {r1}
  Notes = {n1}
  Batches = {b1, b2}
  Uris <- TwoBatches
  QueueCap = 1
  ServerTalks = TRUE
  StdoutEnds = FALSE
PROPERTIES EveryCallReturns FailureReleasesEveryone ImplementsOutbox
