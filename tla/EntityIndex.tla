----------------------------- MODULE EntityIndex -----------------------------
(***************************************************************************)
(* The spatial index of src/enrichment.rs: from a file and a line to the    *)
(* entity that is there.                                                    *)
(*                                                                         *)
(* A path is the sequence of its pieces, separators among them, cut fine    *)
(* enough that a suffix of the string is a suffix of the sequence.  An      *)
(* index is a record: the entities in the order they were given, each       *)
(* [file, start, end, ...] with lines of its file, and the order in which   *)
(* the hash map enumerates the files, which is fixed but unknown.           *)
(***************************************************************************)
EXTENDS Integers, Sequences, SequencesExt

NoPath   == <<>>   \* of a URI that is not a file's
NoEntity == 0      \* an entity is known by its number in the index

FilesOf(entities) == {entities[i].file : i \in DOMAIN entities}

\* The orders in which a map may enumerate the keys S.
Enumerations(S) == {s \in [1 .. Cardinality(S) -> S] : ToSet(s) = S}

EndsWith(s, t) == IsSuffix(t, s)

\* The indexed files that may be the one of a path: a URI's path is absolute, the
\* names are relative, and it is enough that one ends in the other.
LookAlikes(index, path) ==
  {k \in FilesOf(index.entities) : EndsWith(path, k) \/ EndsWith(k, path)}

FirstOf(order, S) ==
  order[CHOOSE n \in DOMAIN order : order[n] \in S /\ \A m \in 1 .. n - 1 : order[m] \notin S]

\* Mutant: files go by the last piece of their names.
FirstNamesake(index, path) ==
  LET namesakes == {k \in FilesOf(index.entities) : Last(k) = Last(path)}
  IN IF namesakes # {} THEN FirstOf(index.order, namesakes) ELSE NoPath

\* entries_for_path: the file of that very name, or else the first look-alike
\* the map enumerates.
FileFor(index, path) ==
  IF path \in FilesOf(index.entities) THEN path
  ELSE IF LookAlikes(index, path) # {} THEN FirstOf(index.order, LookAlikes(index, path))
  ELSE NoPath

Holds(e, line) == e.start <= line /\ line <= e.end

EntitiesInFile(index, path) ==
  {i \in DOMAIN index.entities : path # NoPath /\ index.entities[i].file = FileFor(index, path)}

\* Mutant: the first span that contains the line.
FirstStart(index, i, j) ==
  LET d == index.entities[i]
      e == index.entities[j]
  IN d.start < e.start \/ (d.start = e.start /\ i <= j)

\* min_by_key: the shorter span, then the later start, then the earlier entry
\* of a list stably sorted by start.
Before(index, i, j) ==
  LET d == index.entities[i]
      e == index.entities[j]
  IN \/ d.end - d.start < e.end - e.start
     \/ d.end - d.start = e.end - e.start /\ (d.start > e.start \/ (d.start = e.start /\ i <= j))

\* find_at, for the path of a URI.
FindAt(index, path, line) ==
  LET here == {i \in EntitiesInFile(index, path) : Holds(index.entities[i], line)}
  IN IF here = {} THEN NoEntity
     ELSE CHOOSE i \in here : \A j \in here : Before(index, i, j)
=============================================================================
