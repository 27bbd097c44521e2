\* One request to a server that stops reading.
SPECIFICATION FairSpec
CONSTANTS
  r1 = r1  r2 = r2  n1 = n1  b1 = b1  b2 = b2
  None = None
  Requests = {r1}
  Notes = {}
  Batches = {}
  Uris <- NoBatches
  QueueCap = 1
  ServerTalks = FALSE
  StdoutEnds = TRUE
PROPERTY RequestsTimeOut
