-------------------------- MODULE MCScopedDocuments --------------------------
(* An instance of ScopedDocuments for TLC: the enriched file, two documents   *)
(* the provider knows, and one it does not.                                   *)
EXTENDS ScopedDocuments, TLC

CONSTANTS f, d1, d2, u
=============================================================================
