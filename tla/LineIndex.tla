----------------------------- MODULE LineIndex -----------------------------
(***************************************************************************)
(* text/buffer.rs and text/line_index.rs: a buffer of UTF-8 bytes and the  *)
(* table of its line starts and wide characters, which every didChange     *)
(* patches instead of rebuilding, and the conversion between byte offsets  *)
(* and LSP positions that all ranges of the server go through.             *)
(*                                                                         *)
(* A text is a sequence of bytes, byte offset o is the gap before t[o+1].  *)
(* The sorted vectors of the index are sets.                               *)
(***************************************************************************)
EXTENDS Naturals, Integers, Sequences, FiniteSets, SequencesExt

CONSTANTS
  Bytes,      \* the bytes that occur
  Newline,    \* the line feed
  Width       \* [Bytes -> 0 .. 4]: length of the character a byte starts,
              \* 0 for a continuation byte

ASSUME BytesAssumption ==
  /\ Width \in [Bytes -> 0 .. 4]
  /\ Newline \in Bytes /\ Width[Newline] = 1

Continues(b) == Width[b] = 0

\* Well-formed UTF-8: each character's continuation bytes follow its first.
IsText(t) ==
  /\ t \in Seq(Bytes)
  /\ \A i \in 1 .. Len(t) :
       IF Continues(t[i]) THEN i > 1 /\ \E j \in 1 .. i - 1 : j + Width[t[j]] > i
       ELSE /\ i + Width[t[i]] <= Len(t) + 1
            /\ \A j \in i + 1 .. i + Width[t[i]] - 1 : Continues(t[j])

\* str::is_char_boundary
IsBoundary(t, o) == o \in 0 .. Len(t) /\ (o = Len(t) \/ ~Continues(t[o + 1]))

-----------------------------------------------------------------------------
(* The index.                                                              *)

\* LineIndex::new
NewIndex(t) ==
  [lines |-> {0} \cup {i \in 1 .. Len(t) : t[i] = Newline},
   wide  |-> {[start |-> i - 1, end |-> i - 1 + Width[t[i]]] :
                i \in {k \in 1 .. Len(t) : Width[t[k]] > 1}},
   len   |-> Len(t)]

\* TextBuffer::apply_edit: the text with start .. end replaced.
Splice(t, start, end, insert) ==
  [k \in 1 .. Len(t) - (end - start) + Len(insert) |->
     IF k <= start THEN t[k]
     ELSE IF k <= start + Len(insert) THEN insert[k - start]
     ELSE t[k - Len(insert) + (end - start)]]

\* (wrong) A line that starts where the edit ends is shifted, not replaced.
PatchKeepingLastLine(index, start, end, insert) ==
  LET shift == Len(insert) - (end - start)
      added == NewIndex(insert)
  IN  [lines |-> {s \in index.lines : s <= start}
                 \cup {start + s : s \in added.lines \ {0}}
                 \cup {s + shift : s \in {l \in index.lines : l >= end /\ l > start}},
       wide  |-> {w \in index.wide : w.start < start}
                 \cup {[start |-> start + w.start, end |-> start + w.end] : w \in added.wide}
                 \cup {[start |-> w.start + shift, end |-> w.end + shift] :
                         w \in {x \in index.wide : x.start >= end}},
       len   |-> index.len + shift]

\* LineIndex::apply_edit: entries before the edit stay, those of the replaced
\* bytes go, those of the insertion come in, the rest shifts.
Patch(index, start, end, insert) ==
  LET shift == Len(insert) - (end - start)
      added == NewIndex(insert)
  IN  [lines |-> {s \in index.lines : s <= start}
                 \cup {start + s : s \in added.lines \ {0}}
                 \cup {s + shift : s \in {l \in index.lines : l > end}},
       wide  |-> {w \in index.wide : w.start < start}
                 \cup {[start |-> start + w.start, end |-> start + w.end] : w \in added.wide}
                 \cup {[start |-> w.start + shift, end |-> w.end + shift] :
                         w \in {x \in index.wide : x.start >= end}},
       len   |-> index.len + shift]

-----------------------------------------------------------------------------
(* Positions.                                                              *)

Encodings == {"utf-8", "utf-16", "utf-32"}

\* Metric::wide_units
Units(w, encoding) ==
  CASE encoding = "utf-8"  -> w.end - w.start
    [] encoding = "utf-16" -> IF w.end - w.start = 4 THEN 2 ELSE 1
    [] encoding = "utf-32" -> 1

LineOf(index, o) == Cardinality({s \in index.lines : s <= o}) - 1

LineStart(index, line) ==
  CHOOSE s \in index.lines : Cardinality({l \in index.lines : l < s}) = line

\* col_in: the byte distance minus what each wide character before the offset
\* falls short of its bytes.
ColIn(index, lineStart, o, encoding) ==
  LET before == {w \in index.wide : w.start >= lineStart /\ w.end <= o}
  IN  (o - lineStart)
        - FoldSet(LAMBDA w, n : n + (w.end - w.start) - Units(w, encoding), 0, before)

\* byte_to_position
BytePosition(index, offset, encoding) ==
  LET o == IF offset < index.len THEN offset ELSE index.len
      line == LineOf(index, o)
  IN  [line |-> line, character |-> ColIn(index, LineStart(index, line), o, encoding)]

\* The wide characters of a line that byte_at_col's walk does not pass: with
\* them the column would be exceeded.
NotPassed(index, lineStart, lineEnd, column, encoding) ==
  {w \in index.wide : /\ lineStart <= w.start /\ w.start < lineEnd
                      /\ ColIn(index, lineStart, w.start, encoding) + Units(w, encoding) > column}

\* (wrong) A column inside a wide character resolves to the byte that far in.
StopInsideWide(index, lineStart, lineEnd, column, encoding) ==
  LET in == {w \in NotPassed(index, lineStart, lineEnd, column, encoding) :
               ColIn(index, lineStart, w.start, encoding) < column}
  IN  IF in = {} THEN lineEnd
      ELSE LET w == CHOOSE x \in in : TRUE
           IN  w.start + column - ColIn(index, lineStart, w.start, encoding)

\* Where that walk ends at the latest: at the first of them or with the line.
Stop(index, lineStart, lineEnd, column, encoding) ==
  LET stops == {lineEnd} \cup {w.start : w \in NotPassed(index, lineStart, lineEnd, column, encoding)}
  IN  CHOOSE s \in stops : \A x \in stops : s <= x

\* position_to_byte / byte_at_col: the bytes before the end of the walk are
\* ASCII, one column each, as far back as the walk looks.
ByteAt(index, position, encoding) ==
  IF position.line >= Cardinality(index.lines) THEN index.len
  ELSE
    LET lineStart == LineStart(index, position.line)
        lineEnd == IF position.line + 1 = Cardinality(index.lines) THEN index.len
                   ELSE LineStart(index, position.line + 1)
        stop == Stop(index, lineStart, lineEnd, position.character, encoding)
        beyond == ColIn(index, lineStart, stop, encoding) - position.character
    IN  IF beyond > 0 THEN stop - beyond ELSE stop
=============================================================================
