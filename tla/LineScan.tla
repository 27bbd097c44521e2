------------------------------ MODULE LineScan ------------------------------
(***************************************************************************)
(* Where the passes over identifiers look: the scan of a line for words     *)
(* (identifier_positions_in_line, src/file_enrichment.rs) and the member    *)
(* expression at a word (member_expression_at, src/enrichment.rs).          *)
(*                                                                         *)
(* A line is a sequence of characters of these kinds; columns count from 1. *)
(***************************************************************************)
EXTENDS Integers, Sequences, FiniteSets, SequencesExt

Letter    == "a"  \* or an underscore
Digit     == "1"
Quote     == "q"
Backslash == "b"
Dot       == "."
Slash     == "/"
Star      == "*"
Space     == " "
Accented  == "w"  \* a letter of two bytes, and one unit of UTF-16
Emoji     == "e"  \* two units of UTF-16, and four bytes

NoMember == 0

IsAlphabetic(c) == c \in {Letter, Accented}

\* The character at a column, if the line has one there.
At(s, i) == IF i \in DOMAIN s THEN s[i] ELSE "end"

InWord(c) == IsAlphabetic(c) \/ c = Digit

StartsWith(s, t) == IsPrefix(t, s)

\* The line without the spaces before its first character.
Trimmed(s) ==
  LET first == SelectInSeq(s, LAMBDA c : c # Space)
  IN IF first = 0 THEN <<>> ELSE SubSeq(s, first, Len(s))

LooksLikeComment(s) ==
  LET t == Trimmed(s)
  IN StartsWith(t, <<Slash, Slash>>) \/ StartsWith(t, <<Slash, Star>>) \/ StartsWith(t, <<Star>>)

\* A quote toggles unless the character before it is a backslash.
Toggles(s, i) == s[i] = Quote /\ At(s, i - 1) # Backslash

\* Mutant: letters after a digit begin a word.
StartsAfterDigit(s, i) == IsAlphabetic(s[i]) /\ ~IsAlphabetic(At(s, i - 1))

StartsWord(s, i) == IsAlphabetic(s[i]) /\ ~InWord(At(s, i - 1))

\* How often a character occurs before column i.
CountBefore(s, i, c) == Cardinality({k \in 1 .. i - 1 : s[k] = c})

\* The bytes and the units of UTF-16 before column i.
BytesBefore(s, i) == i - 1 + CountBefore(s, i, Accented) + 3 * CountBefore(s, i, Emoji)
UnitsBefore(s, i) == i - 1 + CountBefore(s, i, Emoji)

\* Mutant: columns count bytes.
ColumnInBytes(s, i) == 1 + BytesBefore(s, i)

\* The column reported for a character: columns count characters.
Column(s, i) == i

\* Whether the scan is in a string once it has passed i characters.
InString(s) ==
  LET inside[i \in 0 .. Len(s)] ==
        IF i = 0 THEN FALSE ELSE IF Toggles(s, i) THEN ~inside[i - 1] ELSE inside[i - 1]
  IN inside

\* What it has found by then: a character that begins a word is no quote.
Found(s) ==
  LET found[i \in 0 .. Len(s)] ==
        IF i = 0 THEN <<>>
        ELSE IF ~InString(s)[i] /\ StartsWord(s, i) THEN Append(found[i - 1], Column(s, i))
        ELSE found[i - 1]
  IN found

\* identifier_positions_in_line
IdentifierPositions(s) == IF LooksLikeComment(s) THEN <<>> ELSE Found(s)[Len(s)]

\* The first column from i on that is not in a word.
EndOfWord(s, i) == CHOOSE e \in i .. Len(s) + 1 :
  ~InWord(At(s, e)) /\ \A k \in i .. e - 1 : InWord(s[k])

\* Mutant: a number after the dot is a member.
MemberOrNumber(s, i) ==
  LET dot == EndOfWord(s, i)
  IN IF IsAlphabetic(At(s, i)) /\ At(s, dot) = Dot /\ InWord(At(s, dot + 1)) THEN dot + 1 ELSE NoMember

\* member_expression_at: both halves start like identifiers.
MemberAt(s, i) ==
  LET dot == EndOfWord(s, i)
  IN IF IsAlphabetic(At(s, i)) /\ At(s, dot) = Dot /\ IsAlphabetic(At(s, dot + 1)) THEN dot + 1 ELSE NoMember

-----------------------------------------------------------------------------
(* The line as a compiler reads it: in a string a backslash takes the next   *)
(* character with it.                                                        *)
Reads(state, c) ==
  CASE state = "code"   -> IF c = Quote THEN "string" ELSE "code"
    [] state = "string" -> IF c = Quote THEN "code" ELSE IF c = Backslash THEN "escape" ELSE "string"
    [] state = "escape" -> "string"

Lexed(s) ==
  LET after[i \in 0 .. Len(s)] == IF i = 0 THEN "code" ELSE Reads(after[i - 1], s[i])
  IN after

\* The columns where a word begins that is in no string.
WordsOf(s) ==
  {i \in DOMAIN s : Lexed(s)[i - 1] = "code" /\ IsAlphabetic(s[i]) /\ (i > 1 => ~InWord(s[i - 1]))}

\* The character the server looks at for a column: it counts units of UTF-16,
\* and takes the middle of a character for its beginning.
LooksAt(s, column) ==
  CHOOSE i \in 1 .. Len(s) + 1 :
    /\ UnitsBefore(s, i) < column /\ (i <= Len(s) => column <= UnitsBefore(s, i + 1))
=============================================================================
