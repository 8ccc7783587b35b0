----------------------------- MODULE TextEdits -----------------------------
(***************************************************************************)
(* One open document under didChange: the main loop splices its text and   *)
(* patches its line index, records the precise edits for a rename that was *)
(* prepared and for the lint request, and the lint thread parses the text  *)
(* incrementally off the previous parse with those edits, or with the one  *)
(* edit that diff_edit recovers.                                           *)
(*                                                                         *)
(* A node of the syntax tree is a name, and a name is a line of the text.  *)
(* `mark` remembers which bytes belong to the name a rename was prepared   *)
(* on, whatever the edits move around it.                                  *)
(***************************************************************************)
EXTENDS EditMaps

CONSTANTS
  InitialTexts, \* texts a document may be opened with, or replaced by
  Inserts,      \* what the client inserts
  Encoding,     \* the negotiated position encoding
  Positions,    \* [line, character] positions the client sends
  MaxLen,       \* bytes of a text
  MaxChanges    \* content changes the client sends

ASSUME TextEditsAssumption ==
  /\ \A t \in InitialTexts \cup Inserts : IsText(t) /\ Len(t) <= MaxLen
  /\ Encoding \in Encodings
  /\ Positions \subseteq [line : Nat, character : Nat]
  /\ MaxLen \in Nat /\ MaxChanges \in Nat

VARIABLES
  text, index,  \* the live TextBuffer
  anchor,       \* RenameAnchor of the document
  mark,         \* per byte of text: it is one of the name the anchor is on
  request,      \* the pending lint request, coalesced
  parsed,       \* the text whose parse the database holds (PrevParse)
  changes       \* how many changes were sent

vars == <<text, index, anchor, mark, request, parsed, changes>>

NoAnchor == [range |-> NoRange, text |-> <<>>, precise |-> FALSE, edits |-> <<>>]
NoRequest == [pending |-> FALSE, text |-> <<>>, edits |-> <<>>]

Unmarked(t) == [i \in 1 .. Len(t) |-> FALSE]

Init ==
  /\ text \in InitialTexts
  /\ index = NewIndex(text)
  /\ anchor = NoAnchor
  /\ mark = Unmarked(text)
  /\ request = [pending |-> TRUE, text |-> text, edits |-> <<>>]
  /\ parsed = <<>>
  /\ changes = 0

-----------------------------------------------------------------------------
(* didChange.                                                              *)

\* RenameAnchor::record_edits
RecordEdits(edits, precise) ==
  anchor' = IF anchor = NoAnchor THEN anchor
            ELSE IF precise /\ anchor.precise THEN [anchor EXCEPT !.edits = @ \o edits]
            ELSE [anchor EXCEPT !.precise = FALSE, !.edits = <<>>]

\* send_lint and enqueue: a superseded request hands its edits on.
SendLint(newText, edits) ==
  request' = [pending |-> TRUE, text |-> newText,
              edits |-> IF request.pending THEN request.edits \o edits ELSE edits]

\* The coercion of TextBuffer::apply_edit: an inverted range is empty.
Clamp(t, from, to) ==
  LET start == Smaller(from, Len(t))
      end == Smaller(IF to < start THEN start ELSE to, Len(t))
  IN  [start |-> Largest({o \in 0 .. start : IsBoundary(t, o)}),
       end |-> CHOOSE o \in end .. Len(t) :
                 IsBoundary(t, o) /\ \A p \in end .. o - 1 : ~IsBoundary(t, p)]

\* A ranged change: the positions resolve against the patched index, the edit
\* is recorded as resolved, the buffer coerces it.
ChangeRange(fromPos, toPos, insert) ==
  /\ changes < MaxChanges
  /\ LET from == ByteAt(index, fromPos, Encoding)
         to == ByteAt(index, toPos, Encoding)
         cut == Clamp(text, from, to)
         newText == Splice(text, cut.start, cut.end, insert)
         edit == Edit(from, to, insert)
     IN  /\ Len(newText) <= MaxLen
         /\ text' = newText
         /\ index' = Patch(index, cut.start, cut.end, insert)
         /\ mark' = Splice(mark, cut.start, cut.end, Unmarked(insert))
         /\ RecordEdits(<<edit>>, TRUE)
         /\ SendLint(newText, <<edit>>)
  /\ changes' = changes + 1
  /\ UNCHANGED parsed

\* A change without a range replaces the document.
ChangeAll(newText) ==
  /\ changes < MaxChanges
  /\ text' = newText
  /\ index' = NewIndex(newText)
  /\ mark' = Unmarked(newText)
  /\ RecordEdits(<<>>, FALSE)
  /\ SendLint(newText, <<>>)
  /\ changes' = changes + 1
  /\ UNCHANGED parsed

-----------------------------------------------------------------------------
(* Rename.                                                                 *)

\* The names of a text: its non-empty lines, without the line feed.
IsName(t, range) ==
  /\ 0 <= range.start /\ range.start < range.end /\ range.end <= Len(t)
  /\ range.start > 0 => t[range.start] = Newline
  /\ range.end < Len(t) => t[range.end + 1] = Newline
  /\ \A i \in range.start + 1 .. range.end : t[i] # Newline

\* compute_prepare_rename
PrepareRename(range) ==
  /\ IsName(text, range)
  /\ anchor = NoAnchor
  /\ anchor' = [range |-> range, text |-> text, precise |-> TRUE, edits |-> <<>>]
  /\ mark' = [i \in 1 .. Len(text) |-> i > range.start /\ i <= range.end]
  /\ UNCHANGED <<text, index, request, parsed, changes>>

\* rename_cursor_offset: the prepared node in the current text, if any.
RenameTarget(t, a) ==
  LET mapped == IF t = a.text THEN a.range
                ELSE IF a.precise /\ a.edits # <<>> /\ EditsProduce(a.text, a.edits, t)
                THEN MapRangeThrough(a.range, a.edits)
                ELSE MapRange(a.range, DiffEdit(a.text, t))
  IN  IF IsName(t, mapped) THEN mapped ELSE NoRange

\* on_rename consumes the anchor.
Rename ==
  /\ anchor # NoAnchor
  /\ anchor' = NoAnchor
  /\ mark' = Unmarked(text)
  /\ UNCHANGED <<text, index, request, parsed, changes>>

-----------------------------------------------------------------------------
(* The lint thread: parsed_document.                                       *)

\* (wrong) The staged edits are applied without comparing with the input text.
ReparseUnverified(prev, edits, target) ==
  IF edits # <<>> /\ Fits(edits[1], prev) THEN Apply(edits[1], prev)
  ELSE Apply(DiffEdit(prev, target), prev)

\* The text the new tree is of: the staged edits if they lead to the input
\* text, else the one edit recovered from both texts.
Reparse(prev, edits, target) ==
  IF edits # <<>> /\ EditsProduce(prev, edits, target)
  THEN FoldLeft(LAMBDA t, e : Apply(e, t), prev, edits)
  ELSE Apply(DiffEdit(prev, target), prev)

Lint ==
  /\ request.pending
  /\ parsed' = IF parsed = request.text THEN parsed
               ELSE Reparse(parsed, request.edits, request.text)
  /\ request' = NoRequest
  /\ UNCHANGED <<text, index, anchor, mark, changes>>

Next ==
  \/ \E from, to \in Positions, insert \in Inserts : ChangeRange(from, to, insert)
  \/ \E t \in InitialTexts : ChangeAll(t)
  \/ \E start, end \in 0 .. MaxLen : PrepareRename([start |-> start, end |-> end])
  \/ Rename
  \/ Lint

Spec == Init /\ [][Next]_vars

-----------------------------------------------------------------------------
TypeOK ==
  /\ IsText(text) /\ Len(text) <= MaxLen
  /\ DOMAIN mark = DOMAIN text
  /\ IsText(parsed)
  /\ changes \in 0 .. MaxChanges

\* "The result is bit-identical to LineIndex::new(edited_text)": a buffer's
\* index after any sequence of edits is the index of its text.
PatchedIndexIsRebuilt == index = NewIndex(text)

\* Positions and byte offsets convert back and forth: every character boundary
\* survives the round trip, and every position a client can send resolves to a
\* character boundary, the last one at or before it on its line.
PositionsAreConsistent ==
  /\ \A o \in {x \in 0 .. Len(text) : IsBoundary(text, x)} :
       ByteAt(index, BytePosition(index, o, Encoding), Encoding) = o
  /\ \A p \in Positions :
       LET o == ByteAt(index, p, Encoding)
       IN  /\ IsBoundary(text, o)
           /\ p.line < Cardinality(index.lines) /\ LineOf(index, o) = p.line =>
                /\ BytePosition(index, o, Encoding).character <= p.character
                /\ \A x \in o + 1 .. Len(text) :
                     LineOf(index, x) = p.line /\ IsBoundary(text, x) =>
                       BytePosition(index, x, Encoding).character > p.character

\* A rename prepared on a name and applied after edits changes that name or,
\* where the edits cannot be followed, one spelled the same: never other bytes.
\* Followed through the recorded edits it is the very name, moved.
RenameFindsTheName ==
  LET target == RenameTarget(text, anchor)
      bytes(t, r) == [i \in 1 .. r.end - r.start |-> t[r.start + i]]
  IN  anchor # NoAnchor /\ target # NoRange =>
        /\ bytes(text, target) = bytes(anchor.text, anchor.range)
        /\ anchor.precise /\ text # anchor.text /\ EditsProduce(anchor.text, anchor.edits, text) =>
             \A i \in target.start + 1 .. target.end : mark[i]

\* "it never produces a wrong mapping" (reparse.rs on diff_edit): a rename
\* whose edits were lost lands on the name it was prepared on, or nowhere.
DiffNeverMisplaces ==
  LET target == RenameTarget(text, anchor)
  IN  anchor # NoAnchor /\ target # NoRange /\ text # anchor.text =>
        \A i \in target.start + 1 .. target.end : mark[i]

\* The edit recovered from two texts is one a buffer can take, and leads from
\* one to the other: what the incremental parse and the rename fall back to.
DiffEditIsExact ==
  LET e == DiffEdit(parsed, text)
  IN  Fits(e, parsed) /\ IsText(e.insert) /\ Apply(e, parsed) = text

\* Staged edits decide how fast a parse is, never of what text: after the
\* lint of the newest buffer the database holds the parse of that buffer,
\* coalesced requests, replaced documents and coerced ranges notwithstanding.
ParseIsOfTheText == ~request.pending => parsed = text
=============================================================================
