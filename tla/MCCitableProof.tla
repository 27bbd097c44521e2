--------------------------- MODULE MCCitableProof ---------------------------
(* Values for CitableProof: a server above the floor, and three that lack one  *)
(* of its capabilities, two of which report the same.                         *)
EXTENDS CitableProof, TLC

Floor == {"definition", "references"}
All   == {"definition", "references", "callHierarchy"}

Answer(d, r, h) == ("definition" :> d) @@ ("references" :> r) @@ ("callHierarchy" :> h)

SomeServers == {
  Answer("true", "options", "options"), Answer("true", "false", "absent"),
  Answer("absent", "true", "true"), Answer("false", "true", "options")}
=============================================================================
