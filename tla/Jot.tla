--------------------------------- MODULE Jot ---------------------------------
(***************************************************************************)
(* One note of the Jotpad service, internal/jot: compare-and-swap on a     *)
(* version, and a three-way merge of stale writes against the one shadowed *)
(* revision.  Notes and owners never meet (the row is keyed by both), so   *)
(* one row is all there is to model.                                       *)
(*                                                                         *)
(* A text is the number of times it holds each word: a merge is told apart *)
(* by the words it keeps, drops and repeats, not by where they stand.      *)
(***************************************************************************)
EXTENDS Integers, FiniteSets

CONSTANTS
  Word,     \* the words users type, each of them once
  MaxLen,   \* cap on a note's length (100,000 characters in the code)
  NoBase    \* base_version of a row that never had a previous revision

ASSUME JotAssumption == IsFiniteSet(Word) /\ MaxLen \in Nat /\ NoBase \notin Nat

Text  == [Word -> Nat]
Blank == [w \in Word |-> 0]

\* The words of a text, numbered so that a repeated one counts each time.
Copies(text) == UNION {{w} \X (1 .. text[w]) : w \in Word}
Length(text) == Cardinality(Copies(text))

Pad == [text : Text, version : Nat]
Row == [text : Text, version : Nat, baseText : Text, baseVersion : Nat \cup {NoBase}]

\* No row yet: empty at version 0.
Unwritten == [text |-> Blank, version |-> 0, baseText |-> Blank, baseVersion |-> NoBase]

\* Service.Get
Get(row) == [text |-> row.text, version |-> row.version]

\* The merge base: the shadowed revision, or the stored one if there is none.
Shadow(row) ==
  IF row.baseVersion = NoBase THEN Get(row)
  ELSE [text |-> row.baseText, version |-> row.baseVersion]

\* diffmatchpatch: the changes that lead from one text to another, applied to a
\* third.  Every hunk is taken to apply.
Patched(from, to, text) ==
  [w \in Word |-> LET n == text[w] + to[w] - from[w] IN IF n < 0 THEN 0 ELSE n]

\* Slip: the stale text replaces the stored one.
TheirsWins(row, text) == text

\* Service.merge
Merge(row, text) == Patched(Shadow(row).text, text, row.text)

\* The text a write would store.
Next(row, text, base) == IF base = row.version THEN text ELSE Merge(row, text)

\* Slip: only the client's own text is held to the cap.
TooLongUnmerged(row, text, base) == Length(text) > MaxLen

\* ErrTooLong, before or after the merge: nothing is stored.
TooLong(row, text, base) == Length(text) > MaxLen \/ Length(Next(row, text, base)) > MaxLen

\* Service.Set: the row after the write.
Store(row, text, base) ==
  IF TooLong(row, text, base) THEN row
  ELSE [text |-> Next(row, text, base), version |-> row.version + 1,
        baseText |-> row.text, baseVersion |-> row.version]
=============================================================================
