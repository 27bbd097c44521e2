\* A file that was attempted and has no outcome.
SPECIFICATION Spec
CONSTANTS
  Languages = {python, rust}
  python = python
  rust = rust
  Capabilities <- All
  Minimum <- Floor
  Servers <- SomeServers
  MaxCalls = 4
INVARIANT NothingSilentlyUnenriched
