\* Every pass about every entity, and over three identifiers.
SPECIFICATION Spec
CONSTANTS
  Entities <- SmallEntities
  Order <- SmallOrder
  Root <- W
  File <- App
  Positions <- SmallPositions
  Provisions <- SmallProvisions
  Locations <- SmallLocations
  MaxAnswer = 2
INVARIANTS FailuresAreErrors EdgesAreAnswers MemberEdgesAreProven ModulesAreNotUsed NamedOnce
