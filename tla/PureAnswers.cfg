\* Every line of up to five characters, every index of up to three entities.
SPECIFICATION Spec
CONSTANTS
  Characters = {"a", "1", "q", "b", ".", "/", "*", " ", "w", "e"}
  MaxLength = 5
  Files <- Alike
  Root <- W
  Outside <- External
  LastLine = 2
  MaxEntities = 3
  Rules <- SomeRules
  Stamps <- SomeStamps
  MaxEvidence = 3
INVARIANTS MemberIsNext InnermostWins FilesAreToldApart StampsComeBack
PROPERTIES FindsTheWords WordsAreLookedAt
