\* Two requests and a notification contend for the slot; a close batch overflows the channel.
SPECIFICATION Spec
CONSTANTS
  r1 = r1  r2 = r2  n1 = n1  b1 = b1  b2 = b2
  None = None
  Requests = {r1, r2}
  Notes = {n1}
  Batches = {b1}
  Uris <- OneBatch
  QueueCap = 1
  ServerTalks = FALSE
  StdoutEnds = TRUE
SYMMETRY Symmetry
INVARIANTS OneNormalFrame NobodyIsStuck NoOrphanedRequest OnlyDroppedRequestsLinger NoWaiterAfterFailure AnswersAreResponses AckIsBarrier NoOvertaking
PROPERTIES NothingBegunAfterFailure
