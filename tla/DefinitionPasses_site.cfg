\* The evidence of a type used is where the type is defined.
SPECIFICATION Spec
CONSTANTS
  Entities <- SmallEntities
  Order <- SmallOrder
  Root <- W
  File <- App
  Positions <- SmallPositions
  Provisions <- SmallProvisions
  Locations <- SmallLocations
  MaxAnswer = 1
INVARIANT EvidenceIsCallSite
