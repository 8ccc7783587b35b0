------------------------------ MODULE EditMaps ------------------------------
(***************************************************************************)
(* The edit algebra of parser/reparse.rs: single contiguous edits, chains  *)
(* of them, the check that a chain turns one text into another, the edit   *)
(* recovered from two texts, and the mapping of a node's range through an  *)
(* edit.  The incremental parser and a pending rename both rest on it.     *)
(***************************************************************************)
EXTENDS LineIndex

\* Edit: replace start .. end of the old text.
Edit(start, end, insert) == [start |-> start, end |-> end, insert |-> insert]

Delta(e) == Len(e.insert) - (e.end - e.start)

\* Edit::fits
Fits(e, old) ==
  /\ e.start <= e.end /\ e.end <= Len(old)
  /\ IsBoundary(old, e.start) /\ IsBoundary(old, e.end)

\* Edit::apply
Apply(e, old) == Splice(old, e.start, e.end, e.insert)

\* Edit::produces
Produces(e, old, target) == Fits(e, old) /\ Apply(e, old) = target

\* edits_produce: the text after each edit, or FALSE once one does not fit.
EditsProduce(old, edits, target) ==
  LET step(text, e) == IF text.ok /\ Fits(e, text.of)
                       THEN [ok |-> TRUE, of |-> Apply(e, text.of)]
                       ELSE [ok |-> FALSE, of |-> <<>>]
      result == FoldLeft(step, [ok |-> TRUE, of |-> old], edits)
  IN  result.ok /\ result.of = target

-----------------------------------------------------------------------------
(* diff_edit: the common prefix and suffix, each cut back to a boundary.   *)

Largest(S) == CHOOSE x \in S : \A y \in S : y <= x
Smaller(a, b) == IF a < b THEN a ELSE b

\* (wrong) The suffix may reach back into the common prefix.
DiffEditOverlapping(old, new) ==
  LET common == Largest({k \in 0 .. Smaller(Len(old), Len(new)) :
                           SubSeq(old, 1, k) = SubSeq(new, 1, k)})
      prefix == Largest({k \in 0 .. common : k = 0 \/ IsBoundary(old, k)})
      tail(t, k) == SubSeq(t, Len(t) - k + 1, Len(t))
      shared == Largest({k \in 0 .. Smaller(Len(old), Len(new)) :
                           tail(old, k) = tail(new, k)})
      suffix == Largest({k \in 0 .. shared :
                  k = 0 \/ (IsBoundary(old, Len(old) - k) /\ IsBoundary(new, Len(new) - k))})
  IN  Edit(prefix, Len(old) - suffix, SubSeq(new, prefix + 1, Len(new) - suffix))

DiffEdit(old, new) ==
  LET common == Largest({k \in 0 .. Smaller(Len(old), Len(new)) :
                           SubSeq(old, 1, k) = SubSeq(new, 1, k)})
      prefix == Largest({k \in 0 .. common : k = 0 \/ IsBoundary(old, k)})
      tail(t, k) == SubSeq(t, Len(t) - k + 1, Len(t))
      shared == Largest({k \in 0 .. Smaller(Len(old) - prefix, Len(new) - prefix) :
                           tail(old, k) = tail(new, k)})
      suffix == Largest({k \in 0 .. shared :
                  k = 0 \/ (IsBoundary(old, Len(old) - k) /\ IsBoundary(new, Len(new) - k))})
  IN  Edit(prefix, Len(old) - suffix, SubSeq(new, prefix + 1, Len(new) - suffix))

-----------------------------------------------------------------------------
(* Ranges through edits.                                                   *)

NoRange == [start |-> -1, end |-> -1]

\* map_range_through_edit
MapRange(range, e) ==
  IF range.end <= e.start THEN range
  ELSE IF range.start >= e.end
  THEN [start |-> range.start + Delta(e), end |-> range.end + Delta(e)]
  ELSE NoRange

\* (wrong) Each range is mapped through the last edit only.
MapRangeThroughLast(range, edits) == MapRange(range, edits[Len(edits)])

\* map_range_through_edits
MapRangeThrough(range, edits) ==
  FoldLeft(LAMBDA r, e : IF r = NoRange THEN r ELSE MapRange(r, e), range, edits)
=============================================================================
