\* Two passes in a row over two known documents, an unknown one and the enriched file.
SPECIFICATION FairSpec
CONSTANTS
  f = f  d1 = d1  d2 = d2  u = u
  NumPasses = 2
  Docs = {f, d1, d2, u}
  Primary = f
  Provided = {f, d1, d2}
  MaxAsks = 2
  QueueCap = 1
INVARIANTS CloseIsOwed
PROPERTIES QueriesFindDocuments NeverReopened AnswerLeavesNothing DocumentsAreClosed
