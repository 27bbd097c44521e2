\* Every order of up to four calls about two languages, required or not.
SPECIFICATION Spec
CONSTANTS
  Languages = {python, rust}
  python = python
  rust = rust
  Capabilities <- All
  Minimum <- Floor
  Servers <- SomeServers
  MaxCalls = 4
INVARIANT CitableMeansClean
PROPERTY FailuresStay
