----------------------------- MODULE TextProofs -----------------------------
(***************************************************************************)
(* The edit algebra and what it is for, for every text, edit and client.   *)
(*                                                                         *)
(* First what Splice, Patch and MapRange compute; then diff_edit, chains   *)
(* of edits as traces (the folds of the code, one edit at a time), columns *)
(* as distances minus a shortfall, the walk of byte_at_col; last the       *)
(* inductive invariant of the document, InStep and Anchored, and the       *)
(* properties the run checks.                                              *)
(***************************************************************************)
EXTENDS TextEdits, FiniteSetTheorems, WellFoundedInduction, TLAPS

Shift(start, end, insert) == Len(insert) - (end - start)

\* The length of a spliced text.
LEMMA SpliceLen ==
  ASSUME NEW t \in Seq(Bytes), NEW insert \in Seq(Bytes),
         NEW start \in Nat, NEW end \in Nat, start <= end, end <= Len(t)
  PROVE  /\ Shift(start, end, insert) \in Int
         /\ Len(t) + Shift(start, end, insert) \in Nat
         /\ Len(Splice(t, start, end, insert)) = Len(t) + Shift(start, end, insert)
BY DEF Splice, Shift

\* The bytes before the edit stay where they are.
LEMMA SpliceHead ==
  ASSUME NEW t \in Seq(Bytes), NEW insert \in Seq(Bytes),
         NEW start \in Nat, NEW end \in Nat, start <= end, end <= Len(t),
         NEW k \in 1 .. start
  PROVE  /\ k \in 1 .. Len(t) /\ k \in 1 .. Len(Splice(t, start, end, insert))
         /\ Splice(t, start, end, insert)[k] = t[k]
<1>1. k \in 1 .. Len(t) - (end - start) + Len(insert)
  OBVIOUS
<1> QED BY <1>1 DEF Splice

\* The insertion follows them.
LEMMA SpliceMiddle ==
  ASSUME NEW t \in Seq(Bytes), NEW insert \in Seq(Bytes),
         NEW start \in Nat, NEW end \in Nat, start <= end, end <= Len(t),
         NEW k \in 1 .. Len(insert)
  PROVE  /\ start + k \in 1 .. Len(Splice(t, start, end, insert))
         /\ Splice(t, start, end, insert)[start + k] = insert[k]
<1>1. start + k \in 1 .. Len(t) - (end - start) + Len(insert)
  OBVIOUS
<1>2. ~(start + k <= start) /\ start + k <= start + Len(insert) /\ (start + k) - start = k
  OBVIOUS
<1> QED BY <1>1, <1>2 DEF Splice

\* The bytes after the edit shift by the difference of the lengths.
LEMMA SpliceTail ==
  ASSUME NEW t \in Seq(Bytes), NEW insert \in Seq(Bytes),
         NEW start \in Nat, NEW end \in Nat, start <= end, end <= Len(t),
         NEW k \in end + 1 .. Len(t)
  PROVE  /\ k \in 1 .. Len(t)
         /\ k + Shift(start, end, insert) \in 1 .. Len(Splice(t, start, end, insert))
         /\ k + Shift(start, end, insert) > start + Len(insert)
         /\ Splice(t, start, end, insert)[k + Shift(start, end, insert)] = t[k]
<1> DEFINE j == k + Shift(start, end, insert)
<1>1. j \in 1 .. Len(t) - (end - start) + Len(insert) /\ j > start + Len(insert) /\ ~(j <= start)
  BY DEF Shift
<1>2. j - Len(insert) + (end - start) = k
  BY DEF Shift
<1>3. Splice(t, start, end, insert)[j] = t[j - Len(insert) + (end - start)]
  <2> HIDE DEF j
  <2> QED BY <1>1 DEF Splice
<1>4. Len(Splice(t, start, end, insert)) = Len(t) - (end - start) + Len(insert)
  BY DEF Splice
<1> QED BY <1>1, <1>2, <1>3, <1>4

\* Every byte of a spliced text is one of the three.
LEMMA SpliceCases ==
  ASSUME NEW t \in Seq(Bytes), NEW insert \in Seq(Bytes),
         NEW start \in Nat, NEW end \in Nat, start <= end, end <= Len(t),
         NEW i \in 1 .. Len(Splice(t, start, end, insert))
  PROVE  \/ i \in 1 .. start
         \/ \E k \in 1 .. Len(insert) : i = start + k
         \/ \E k \in end + 1 .. Len(t) : i = k + Shift(start, end, insert)
<1>1. i \in 1 .. Len(t) + Shift(start, end, insert)
  BY SpliceLen
<1>2. CASE i <= start
  BY <1>1, <1>2
<1>3. CASE i > start /\ i <= start + Len(insert)
  <2>1. i - start \in 1 .. Len(insert) /\ i = start + (i - start)
    BY <1>1, <1>3
  <2> QED BY <2>1
<1>4. CASE i > start + Len(insert)
  <2> DEFINE k == i - Shift(start, end, insert)
  <2>1. k \in end + 1 .. Len(t) /\ i = k + Shift(start, end, insert)
    BY <1>1, <1>4 DEF Shift
  <2> HIDE DEF k
  <2> QED BY <2>1
<1> QED BY <1>1, <1>2, <1>3, <1>4

-----------------------------------------------------------------------------
Starts(t) == {i \in 1 .. Len(t) : t[i] = Newline}

\* LineIndex::apply_edit is LineIndex::new of the edited text, for the line
\* starts: the entries of the replaced bytes are the ones after start up to end.
LEMMA PatchedLines ==
  ASSUME NEW t \in Seq(Bytes), NEW insert \in Seq(Bytes),
         NEW start \in Nat, NEW end \in Nat, start <= end, end <= Len(t)
  PROVE  Patch(NewIndex(t), start, end, insert).lines
           = NewIndex(Splice(t, start, end, insert)).lines
<1> DEFINE new == Splice(t, start, end, insert)
           shift == Shift(start, end, insert)
           kept == {s \in {0} \cup Starts(t) : s <= start}
           added == {start + s : s \in ({0} \cup Starts(insert)) \ {0}}
           moved == {s + shift : s \in {l \in {0} \cup Starts(t) : l > end}}
           rebuilt == {0} \cup Starts(new)
<1>1. kept \subseteq rebuilt
  <2> SUFFICES ASSUME NEW s \in 1 .. Len(t), s \in Starts(t), s <= start
               PROVE  s \in Starts(new)
    BY DEF Starts
  <2>1. s \in 1 .. start
    OBVIOUS
  <2> QED BY <2>1, SpliceHead DEF Starts
<1>2. added \subseteq rebuilt
  <2> SUFFICES ASSUME NEW s \in 1 .. Len(insert), insert[s] = Newline
               PROVE  start + s \in Starts(new)
    BY DEF Starts
  <2> QED BY SpliceMiddle DEF Starts
<1>3. moved \subseteq rebuilt
  <2> SUFFICES ASSUME NEW s \in 1 .. Len(t), t[s] = Newline, s > end
               PROVE  s + shift \in Starts(new)
    BY DEF Starts
  <2>1. s \in end + 1 .. Len(t)
    OBVIOUS
  <2> QED BY <2>1, SpliceTail DEF Starts
<1>4. rebuilt \subseteq kept \cup added \cup moved
  <2> SUFFICES ASSUME NEW i \in 1 .. Len(new), new[i] = Newline
               PROVE  i \in kept \cup added \cup moved
    <3>1. 0 \in kept
      OBVIOUS
    <3> QED BY <3>1 DEF Starts
  <2>1. CASE i \in 1 .. start
    BY <2>1, SpliceHead DEF Starts
  <2>2. ASSUME NEW k \in 1 .. Len(insert), i = start + k
        PROVE  i \in added
    <3>1. insert[k] = Newline
      BY <2>2, SpliceMiddle
    <3>2. k \in ({0} \cup Starts(insert)) \ {0}
      BY <3>1 DEF Starts
    <3> QED BY <3>2, <2>2
  <2>3. ASSUME NEW k \in end + 1 .. Len(t), i = k + shift
        PROVE  i \in moved
    <3>1. t[k] = Newline /\ k \in 1 .. Len(t) /\ k > end
      BY <2>3, SpliceTail
    <3>2. k \in {l \in {0} \cup Starts(t) : l > end}
      BY <3>1 DEF Starts
    <3> QED BY <3>2, <2>3
  <2> QED BY <2>1, <2>2, <2>3, SpliceCases
<1>5. Patch(NewIndex(t), start, end, insert).lines = kept \cup added \cup moved
  BY DEF Patch, NewIndex, Shift, Starts
<1>6. NewIndex(new).lines = rebuilt
  BY DEF NewIndex, Starts
<1> QED BY <1>1, <1>2, <1>3, <1>4, <1>5, <1>6
-----------------------------------------------------------------------------
Leads(t) == {i \in 1 .. Len(t) : Width[t[i]] > 1}
Wide(t, i) == [start |-> i - 1, end |-> i - 1 + Width[t[i]]]
Moved(w, shift) == [start |-> w.start + shift, end |-> w.end + shift]

\* The same for the wide characters: one that starts inside the edit goes,
\* one that starts at its end shifts.
LEMMA PatchedWide ==
  ASSUME NEW t \in Seq(Bytes), NEW insert \in Seq(Bytes),
         NEW start \in Nat, NEW end \in Nat, start <= end, end <= Len(t)
  PROVE  Patch(NewIndex(t), start, end, insert).wide
           = NewIndex(Splice(t, start, end, insert)).wide
<1> DEFINE new == Splice(t, start, end, insert)
           shift == Shift(start, end, insert)
           old == {Wide(t, i) : i \in Leads(t)}
           kept == {w \in old : w.start < start}
           added == {Moved(w, start) : w \in {Wide(insert, i) : i \in Leads(insert)}}
           moved == {Moved(w, shift) : w \in {x \in old : x.start >= end}}
           rebuilt == {Wide(new, i) : i \in Leads(new)}
<1>0. /\ \A s \in Seq(Bytes) : \A i \in 1 .. Len(s) : Width[s[i]] \in Nat
      /\ shift \in Int
  <2>1. shift \in Int
    BY SpliceLen
  <2>2. ASSUME NEW s \in Seq(Bytes), NEW i \in 1 .. Len(s)
        PROVE  Width[s[i]] \in Nat
    <3>1. s[i] \in Bytes
      OBVIOUS
    <3>2. Width[s[i]] \in 0 .. 4
      BY <3>1, BytesAssumption
    <3> QED BY <3>2
  <2> QED BY <2>1, <2>2
<1>1. \A k \in 1 .. start : k \in Leads(t) =>
        k \in Leads(new) /\ Wide(new, k) = Wide(t, k)
  BY SpliceHead DEF Leads, Wide
<1>2. \A k \in Leads(insert) :
        start + k \in Leads(new) /\ Wide(new, start + k) = Moved(Wide(insert, k), start)
  <2> SUFFICES ASSUME NEW k \in Leads(insert)
               PROVE  start + k \in Leads(new) /\ Wide(new, start + k) = Moved(Wide(insert, k), start)
    OBVIOUS
  <2>1. k \in 1 .. Len(insert) /\ Width[insert[k]] > 1
    BY DEF Leads
  <2>2. start + k \in 1 .. Len(new) /\ new[start + k] = insert[k]
    BY <2>1, SpliceMiddle
  <2>3. (start + k) - 1 = (k - 1) + start /\ Width[insert[k]] \in Nat
    BY <2>1, <1>0
  <2>4. (start + k) - 1 + Width[insert[k]] = (k - 1 + Width[insert[k]]) + start
    BY <2>1, <2>3
  <2> QED BY <2>1, <2>2, <2>3, <2>4 DEF Leads, Wide, Moved
<1>3. \A k \in end + 1 .. Len(t) : k \in Leads(t) =>
        k + shift \in Leads(new) /\ Wide(new, k + shift) = Moved(Wide(t, k), shift)
  <2> SUFFICES ASSUME NEW k \in end + 1 .. Len(t), k \in Leads(t)
               PROVE  k + shift \in Leads(new) /\ Wide(new, k + shift) = Moved(Wide(t, k), shift)
    OBVIOUS
  <2>1. /\ k \in 1 .. Len(t) /\ Width[t[k]] > 1
        /\ k + shift \in 1 .. Len(new) /\ new[k + shift] = t[k]
    BY SpliceTail DEF Leads
  <2>2. (k + shift) - 1 = (k - 1) + shift /\ Width[t[k]] \in Nat
    BY <2>1, <1>0
  <2>3. (k + shift) - 1 + Width[t[k]] = (k - 1 + Width[t[k]]) + shift
    <3>1. PICK w \in Nat, d \in Int : w = Width[t[k]] /\ d = shift
      BY <2>2, <1>0
    <3>2. (k + d) - 1 + w = (k - 1 + w) + d
      BY <3>1
    <3> QED BY <3>1, <3>2
  <2> QED BY <2>1, <2>2, <2>3 DEF Leads, Wide, Moved
<1>4. kept \subseteq rebuilt
  <2> SUFFICES ASSUME NEW i \in Leads(t), Wide(t, i).start < start
               PROVE  Wide(t, i) \in rebuilt
    OBVIOUS
  <2>1. i \in 1 .. start
    BY DEF Leads, Wide
  <2> QED BY <2>1, <1>1
<1>5. added \subseteq rebuilt
  BY <1>2
<1>6. moved \subseteq rebuilt
  <2> SUFFICES ASSUME NEW i \in Leads(t), Wide(t, i).start >= end
               PROVE  Moved(Wide(t, i), shift) \in rebuilt
    OBVIOUS
  <2>1. i \in end + 1 .. Len(t)
    BY DEF Leads, Wide
  <2> QED BY <2>1, <1>3
<1>7. rebuilt \subseteq kept \cup added \cup moved
  <2> SUFFICES ASSUME NEW i \in Leads(new) PROVE Wide(new, i) \in kept \cup added \cup moved
    OBVIOUS
  <2>0. i \in 1 .. Len(new) /\ Width[new[i]] > 1
    BY DEF Leads
  <2>1. CASE i \in 1 .. start
    <3>1. i \in Leads(t)
      <4>1. i \in 1 .. Len(t) /\ new[i] = t[i]
        BY <2>1, SpliceHead
      <4> QED BY <2>0, <4>1 DEF Leads
    <3>2. Wide(new, i) = Wide(t, i)
      BY <3>1, <2>1, <1>1
    <3>3. Wide(t, i).start < start
      BY <2>1 DEF Wide
    <3> QED BY <3>1, <3>2, <3>3
  <2>2. ASSUME NEW k \in 1 .. Len(insert), i = start + k
        PROVE  Wide(new, i) \in added
    <3>1. k \in Leads(insert)
      BY <2>0, <2>2, SpliceMiddle DEF Leads
    <3> QED BY <3>1, <2>2, <1>2
  <2>3. ASSUME NEW k \in end + 1 .. Len(t), i = k + shift
        PROVE  Wide(new, i) \in moved
    <3>1. k \in Leads(t)
      BY <2>0, <2>3, SpliceTail DEF Leads
    <3>2. Wide(t, k).start >= end
      BY <2>3 DEF Wide
    <3>3. Wide(new, i) = Moved(Wide(t, k), shift)
      BY <3>1, <2>3, <1>3
    <3> QED BY <3>1, <3>2, <3>3
  <2> QED BY <2>0, <2>1, <2>2, <2>3, SpliceCases
<1>8. Patch(NewIndex(t), start, end, insert).wide = kept \cup added \cup moved
  <2>1. NewIndex(t).wide = old /\ NewIndex(insert).wide = {Wide(insert, i) : i \in Leads(insert)}
    BY DEF NewIndex, Leads, Wide
  <2>2. Patch(NewIndex(t), start, end, insert).wide =
          {w \in NewIndex(t).wide : w.start < start}
          \cup {[start |-> start + w.start, end |-> start + w.end] : w \in NewIndex(insert).wide}
          \cup {[start |-> w.start + shift, end |-> w.end + shift] :
                  w \in {x \in NewIndex(t).wide : x.start >= end}}
    BY Zenon DEF Patch, Shift
  <2>3. \A k \in Leads(insert) :
          [start |-> start + Wide(insert, k).start, end |-> start + Wide(insert, k).end]
            = Moved(Wide(insert, k), start)
    BY <1>0 DEF Leads, Wide, Moved
  <2>4. {[start |-> start + w.start, end |-> start + w.end] :
            w \in {Wide(insert, i) : i \in Leads(insert)}} = added
    BY <2>3
  <2>5. {[start |-> w.start + shift, end |-> w.end + shift] :
            w \in {x \in old : x.start >= end}} = moved
    BY DEF Moved
  <2> QED BY <2>1, <2>2, <2>4, <2>5
<1>9. NewIndex(new).wide = rebuilt
  BY DEF NewIndex, Leads, Wide
<1> QED BY <1>4, <1>5, <1>6, <1>7, <1>8, <1>9

\* "The result is bit-identical to LineIndex::new(edited_text)" (LineIndex::
\* apply_edit), for every text and every edit within it.
THEOREM PatchIsRebuild ==
  ASSUME NEW t \in Seq(Bytes), NEW insert \in Seq(Bytes),
         NEW start \in Nat, NEW end \in Nat, start <= end, end <= Len(t)
  PROVE  Patch(NewIndex(t), start, end, insert) = NewIndex(Splice(t, start, end, insert))
<1>1. Patch(NewIndex(t), start, end, insert).len = NewIndex(Splice(t, start, end, insert)).len
  BY SpliceLen DEF Patch, NewIndex, Shift
<1>2. Patch(NewIndex(t), start, end, insert).lines = NewIndex(Splice(t, start, end, insert)).lines
  BY PatchedLines
<1>3. Patch(NewIndex(t), start, end, insert).wide = NewIndex(Splice(t, start, end, insert)).wide
  BY PatchedWide
<1>4. \A a, b : (\E l, w, n : a = [lines |-> l, wide |-> w, len |-> n]) /\
                (\E l, w, n : b = [lines |-> l, wide |-> w, len |-> n]) /\
                a.lines = b.lines /\ a.wide = b.wide /\ a.len = b.len => a = b
  OBVIOUS
<1>5. \E l, w, n : Patch(NewIndex(t), start, end, insert) = [lines |-> l, wide |-> w, len |-> n]
  BY Zenon DEF Patch
<1>6. \E l, w, n : NewIndex(Splice(t, start, end, insert)) = [lines |-> l, wide |-> w, len |-> n]
  BY Zenon DEF NewIndex
<1> QED BY <1>1, <1>2, <1>3, <1>4, <1>5, <1>6

-----------------------------------------------------------------------------
\* A range that map_range_through_edit maps holds, in the edited text, the
\* very bytes it held before.
THEOREM MappedRangeKeepsItsBytes ==
  ASSUME NEW old \in Seq(Bytes), NEW insert \in Seq(Bytes),
         NEW start \in Nat, NEW end \in Nat, start <= end, end <= Len(old),
         NEW a \in Nat, NEW b \in Nat, a <= b, b <= Len(old),
         MapRange([start |-> a, end |-> b], Edit(start, end, insert)) # NoRange
  PROVE  LET m == MapRange([start |-> a, end |-> b], Edit(start, end, insert))
             new == Apply(Edit(start, end, insert), old)
         IN  /\ m.end - m.start = b - a
             /\ \A i \in 1 .. b - a :
                  m.start + i \in 1 .. Len(new) /\ new[m.start + i] = old[a + i]
<1> DEFINE r == [start |-> a, end |-> b]
           e == Edit(start, end, insert)
           m == MapRange(r, e)
           new == Splice(old, start, end, insert)
           shift == Shift(start, end, insert)
<1>0. Apply(e, old) = new /\ Delta(e) = shift /\ shift \in Int
  BY SpliceLen DEF Apply, Edit, Delta, Shift
<1> DEFINE Goal(s, n) == /\ m.end - m.start = b - a
                         /\ \A i \in 1 .. b - a : s + i \in 1 .. Len(n) /\ n[s + i] = old[a + i]
<1> SUFFICES Goal(m.start, new)
  BY <1>0, Zenon
<1>1. CASE b <= start
  <2>1. m = r
    BY <1>1 DEF MapRange, Edit
  <2>2. \A i \in 1 .. b - a : a + i \in 1 .. start
    BY <1>1
  <2>3. ASSUME NEW i \in 1 .. b - a PROVE a + i \in 1 .. Len(new) /\ new[a + i] = old[a + i]
    <3>1. PICK j \in 1 .. start : j = a + i
      BY <2>2
    <3>2. j \in 1 .. Len(new) /\ new[j] = old[j]
      BY SpliceHead
    <3> QED BY <3>1, <3>2
  <2>4. m.start = a /\ m.end = b
    BY <2>1
  <2> HIDE DEF m, new
  <2> QED BY <2>3, <2>4
<1>2. CASE ~(b <= start) /\ a >= end
  <2>1. m.start = a + shift /\ m.end = b + shift
    BY <1>2, <1>0 DEF MapRange, Edit
  <2>2. \A i \in 1 .. b - a : a + i \in end + 1 .. Len(old)
    BY <1>2
  <2>3. \A i \in 1 .. b - a :
          (a + i) + shift \in 1 .. Len(new) /\ new[(a + i) + shift] = old[a + i]
    <3> SUFFICES ASSUME NEW i \in 1 .. b - a
                 PROVE  (a + i) + shift \in 1 .. Len(new) /\ new[(a + i) + shift] = old[a + i]
      OBVIOUS
    <3>1. PICK j \in end + 1 .. Len(old) : j = a + i
      BY <2>2
    <3>2. j + shift \in 1 .. Len(new) /\ new[j + shift] = old[j]
      BY SpliceTail
    <3> QED BY <3>1, <3>2
  <2>4. \A i \in 1 .. b - a : m.start + i = (a + i) + shift
    BY <2>1, <1>0
  <2>5. m.end - m.start = b - a
    BY <2>1, <1>0
  <2>6. \A i \in 1 .. b - a : m.start + i \in 1 .. Len(new) /\ new[m.start + i] = old[a + i]
    BY <2>3, <2>4
  <2> HIDE DEF m, new
  <2> QED BY <2>6, <2>5
<1>3. CASE ~(b <= start) /\ ~(a >= end)
  <2>1. m = NoRange
    BY <1>3 DEF MapRange, Edit
  <2> QED BY <2>1
<1> QED BY <1>1, <1>2, <1>3

-----------------------------------------------------------------------------
(* Text, spliced: characters and boundaries.                               *)

\* The order of the naturals is well founded: a set of them has a least one.
LEMMA LeastNatural ==
  ASSUME NEW T, T \subseteq Nat, T # {}
  PROVE  \E x \in T : \A y \in T : x <= y
<1>1. PICK x \in T : \A y \in T : <<y, x>> \notin OpToRel(<, Nat)
  BY NatLessThanWellFounded, WFMin
<1>2. \A y \in T : ~ (y < x)
  BY <1>1 DEF OpToRel
<1> QED BY <1>2

\* Induction up to n, for a set of naturals.
LEMMA CountUp ==
  ASSUME NEW n \in Nat, NEW G, 0 \in G, \A k \in 1 .. n : k - 1 \in G => k \in G
  PROVE  \A k \in 0 .. n : k \in G
<1> SUFFICES ASSUME {k \in 0 .. n : k \notin G} # {} PROVE FALSE
  OBVIOUS
<1> DEFINE T == {k \in 0 .. n : k \notin G}
<1>1. PICK k \in T : \A y \in T : k <= y
  <2>1. T \subseteq Nat /\ T # {}
    OBVIOUS
  <2> HIDE DEF T
  <2> QED BY <2>1, LeastNatural
<1>2. k \in 1 .. n /\ k \notin G /\ k - 1 \in 0 .. n
  OBVIOUS
<1>3. k - 1 \in G
  BY <1>1, <1>2
<1> QED BY <1>2, <1>3

\* A bounded set of positions has a greatest one, which is its Max.
LEMMA GreatestOf ==
  ASSUME NEW n \in Nat, NEW s, s \subseteq 1 .. n, s # {}
  PROVE  Max(s) \in s /\ \A y \in s : Max(s) >= y
<1> DEFINE T == {n - x : x \in s}
<1>1. PICK z \in T : \A y \in T : z <= y
  <2>1. \A x \in s : n - x \in Nat
    OBVIOUS
  <2>2. T \subseteq Nat /\ T # {}
    BY <2>1
  <2> HIDE DEF T
  <2> QED BY <2>2, LeastNatural
<1>2. PICK x \in s : z = n - x
  BY <1>1
<1>3. \A y \in s : x >= y
  <2> TAKE y \in s
  <2>1. n - y \in T /\ x \in Nat /\ y \in Nat
    OBVIOUS
  <2> QED BY <2>1, <1>1, <1>2
<1> QED BY <1>2, <1>3 DEF Max

\* The last position is the Max of the sets that hold it.
LEMMA GreatestIs ==
  ASSUME NEW n \in Nat, NEW s, s \subseteq 1 .. n, n \in s
  PROVE  Max(s) = n
<1>1. Max(s) \in s /\ \A y \in s : Max(s) >= y
  BY GreatestOf
<1>2. Max(s) \in 1 .. n /\ Max(s) >= n
  BY <1>1
<1> QED BY <1>2

\* The greatest element of a bounded set.
LEMMA LargestOf ==
  ASSUME NEW n \in Nat, NEW s, s \subseteq 0 .. n, s # {}
  PROVE  Largest(s) \in s /\ \A y \in s : y <= Largest(s)
<1> DEFINE T == {n - x : x \in s}
<1>1. PICK z \in T : \A y \in T : z <= y
  <2>1. \A x \in s : n - x \in Nat
    OBVIOUS
  <2>2. T \subseteq Nat /\ T # {}
    BY <2>1
  <2> HIDE DEF T
  <2> QED BY <2>2, LeastNatural
<1>2. PICK x \in s : z = n - x
  BY <1>1
<1>3. \A y \in s : x >= y
  <2> TAKE y \in s
  <2>1. n - y \in T /\ x \in Nat /\ y \in Nat
    OBVIOUS
  <2> QED BY <2>1, <1>1, <1>2
<1> QED BY <1>2, <1>3 DEF Largest

-----------------------------------------------------------------------------
\* Texts.
LEMMA Widths ==
  /\ \A b \in Bytes : Width[b] \in Nat
  /\ \A t \in Seq(Bytes) : \A i \in 1 .. Len(t) : t[i] \in Bytes /\ Width[t[i]] \in Nat
BY BytesAssumption

\* A text begins and ends between characters.
LEMMA TextEnds ==
  ASSUME NEW t, IsText(t)
  PROVE  t \in Seq(Bytes) /\ Len(t) \in Nat /\ IsBoundary(t, 0) /\ IsBoundary(t, Len(t))
BY DEF IsText, IsBoundary

\* What IsText says of one byte.
LEMMA TextAt ==
  ASSUME NEW t, IsText(t), NEW k \in 1 .. Len(t)
  PROVE  /\ Continues(t[k]) => k > 1 /\ \E j \in 1 .. k - 1 : j + Width[t[j]] > k
         /\ ~ Continues(t[k]) => /\ k + Width[t[k]] <= Len(t) + 1
                                /\ \A j \in k + 1 .. k + Width[t[k]] - 1 : Continues(t[j])
         /\ Width[t[k]] \in Nat /\ Len(t) \in Nat
BY Widths DEF IsText

\* No character reaches over a boundary.
LEMMA NoneReachesOver ==
  ASSUME NEW t, IsText(t), NEW o, IsBoundary(t, o), NEW j \in 1 .. o
  PROVE  j + Width[t[j]] <= o + 1
<1>1. t \in Seq(Bytes) /\ o \in 0 .. Len(t) /\ j \in 1 .. Len(t) /\ Width[t[j]] \in Nat
  BY Widths DEF IsText, IsBoundary
<1>2. CASE Continues(t[j])
  BY <1>1, <1>2 DEF Continues
<1>3. CASE ~ Continues(t[j])
  <2> SUFFICES ASSUME j + Width[t[j]] > o + 1 PROVE FALSE
    BY <1>1
  <2>1. /\ j + Width[t[j]] <= Len(t) + 1
        /\ \A k \in j + 1 .. j + Width[t[j]] - 1 : Continues(t[k])
    BY <1>1, <1>3 DEF IsText
  <2>2. o + 1 \in j + 1 .. j + Width[t[j]] - 1 /\ o # Len(t)
    BY <1>1, <2>1
  <2> QED BY <2>1, <2>2 DEF IsBoundary
<1> QED BY <1>2, <1>3

\* u is what t holds between a and b.
Part(u, t, a, b) ==
  IsText(u) /\ Len(u) = b - a /\ \A i \in 1 .. b - a : u[i] = t[a + i]

\* What lies between two boundaries is a text.
LEMMA SubText ==
  ASSUME NEW t, IsText(t), NEW a, NEW b, IsBoundary(t, a), IsBoundary(t, b), a <= b
  PROVE  Part(SubSeq(t, a + 1, b), t, a, b)
<1>1. t \in Seq(Bytes) /\ a \in 0 .. Len(t) /\ b \in 0 .. Len(t) /\ Len(t) \in Nat
  BY DEF IsText, IsBoundary
<1>2. PICK u : u = SubSeq(t, a + 1, b)
  OBVIOUS
<1>3. u \in Seq(Bytes) /\ Len(u) = b - a /\ \A i \in 1 .. b - a : u[i] = t[a + i]
  <2>1. \A k \in a + 1 .. b : k \in 1 .. Len(t) /\ t[k] \in Bytes
    BY <1>1
  <2> QED BY <1>1, <1>2, <2>1
<1>4. ASSUME NEW i \in 1 .. b - a, Continues(u[i])
      PROVE  i > 1 /\ \E j \in 1 .. i - 1 : j + Width[u[j]] > i
  <2>1. a + i \in 1 .. Len(t) /\ Continues(t[a + i])
    BY <1>1, <1>3, <1>4
  <2>2. PICK j \in 1 .. (a + i) - 1 : j + Width[t[j]] > a + i
    BY <2>1, TextAt
  <2>3. Width[t[j]] \in Nat
    BY <1>1, <2>1, Widths
  <2>4. ~ (j <= a)
    <3> SUFFICES ASSUME j <= a PROVE FALSE
      OBVIOUS
    <3>1. j \in 1 .. a
      BY <1>1
    <3>2. j + Width[t[j]] <= a + 1
      BY <3>1, NoneReachesOver
    <3> QED BY <1>1, <2>2, <2>3, <3>2
  <2>5. j - a \in 1 .. i - 1 /\ j - a \in 1 .. b - a /\ a + (j - a) = j
    BY <1>1, <2>4
  <2>6. u[j - a] = t[j] /\ (j - a) + Width[t[j]] > i
    BY <1>1, <1>3, <2>2, <2>3, <2>5
  <2> QED BY <1>1, <2>5, <2>6
<1>5. ASSUME NEW i \in 1 .. b - a, ~ Continues(u[i])
      PROVE  /\ i + Width[u[i]] <= (b - a) + 1
             /\ \A j \in i + 1 .. i + Width[u[i]] - 1 : Continues(u[j])
  <2>1. a + i \in 1 .. Len(t) /\ ~ Continues(t[a + i]) /\ u[i] = t[a + i] /\ Width[t[a + i]] \in Nat
    BY <1>1, <1>3, <1>5, Widths
  <2>2. \A j \in (a + i) + 1 .. (a + i) + Width[t[a + i]] - 1 : Continues(t[j])
    BY <2>1 DEF IsText
  <2>3. (a + i) + Width[t[a + i]] <= b + 1
    <3>1. a + i \in 1 .. b
      BY <1>1
    <3> QED BY <3>1, NoneReachesOver
  <2>4. i + Width[u[i]] <= (b - a) + 1
    BY <1>1, <2>1, <2>3
  <2>5. ASSUME NEW j \in i + 1 .. i + Width[u[i]] - 1 PROVE Continues(u[j])
    <3>1. PICK w \in Nat : w = Width[t[a + i]] /\ w = Width[u[i]]
      BY <2>1
    <3>2. j \in i + 1 .. i + w - 1 /\ i + w <= (b - a) + 1
      BY <2>4, <3>1
    <3>3. j \in 1 .. b - a /\ a + j \in (a + i) + 1 .. (a + i) + w - 1
      BY <1>1, <3>2
    <3>4. Continues(t[a + j])
      BY <2>2, <3>1, <3>3
    <3> QED BY <1>3, <3>3, <3>4
  <2> QED BY <2>4, <2>5
<1>6. IsText(u)
  BY <1>1, <1>3, <1>4, <1>5 DEF IsText
<1> QED BY <1>2, <1>3, <1>6 DEF Part

\* u is s followed by t.
Joined(u, s, t) ==
  /\ IsText(u) /\ Len(u) = Len(s) + Len(t)
  /\ \A i \in 1 .. Len(s) : u[i] = s[i]
  /\ \A i \in 1 .. Len(t) : u[Len(s) + i] = t[i]

\* Texts follow each other as a text.
LEMMA JoinText ==
  ASSUME NEW s, NEW t, IsText(s), IsText(t)
  PROVE  Joined(s \o t, s, t)
<1>1. s \in Seq(Bytes) /\ t \in Seq(Bytes) /\ Len(s) \in Nat /\ Len(t) \in Nat
  BY DEF IsText
<1>2. PICK u : u = s \o t
  OBVIOUS
<1>3. PICK m, n \in Nat : m = Len(s) /\ n = Len(t)
  BY <1>1
<1>4. /\ u \in Seq(Bytes) /\ Len(u) = m + n
      /\ \A i \in 1 .. m : u[i] = s[i]
      /\ \A i \in 1 .. n : u[m + i] = t[i]
  BY <1>1, <1>2, <1>3
<1>5. \A i \in 1 .. m + n : i \in 1 .. m \/ (i - m \in 1 .. n /\ m + (i - m) = i)
  BY <1>3
<1>6. ASSUME NEW i \in 1 .. m + n, Continues(u[i])
      PROVE  i > 1 /\ \E j \in 1 .. i - 1 : j + Width[u[j]] > i
  <2>1. CASE i \in 1 .. m
    <3>1. i > 1 /\ \E j \in 1 .. i - 1 : j + Width[s[j]] > i
      BY <1>3, <1>4, <1>6, <2>1 DEF IsText
    <3>2. \A j \in 1 .. i - 1 : u[j] = s[j]
      BY <1>4, <2>1
    <3> QED BY <3>1, <3>2
  <2>2. CASE i - m \in 1 .. n /\ m + (i - m) = i
    <3>1. Continues(t[i - m])
      BY <1>4, <1>6, <2>2
    <3>2. PICK j \in 1 .. (i - m) - 1 : j + Width[t[j]] > i - m
      BY <1>3, <2>2, <3>1 DEF IsText
    <3>3. j \in 1 .. n /\ m + j \in 1 .. i - 1 /\ Width[t[j]] \in Nat
      BY <1>1, <1>3, <2>2, Widths
    <3>4. u[m + j] = t[j] /\ (m + j) + Width[t[j]] > i
      BY <1>3, <1>4, <3>2, <3>3
    <3> QED BY <3>3, <3>4
  <2> QED BY <1>5, <2>1, <2>2
<1>7. ASSUME NEW i \in 1 .. m + n, ~ Continues(u[i])
      PROVE  /\ i + Width[u[i]] <= (m + n) + 1
             /\ \A j \in i + 1 .. i + Width[u[i]] - 1 : Continues(u[j])
  <2>1. CASE i \in 1 .. m
    <3>1. /\ u[i] = s[i] /\ i + Width[s[i]] <= m + 1 /\ Width[s[i]] \in Nat
          /\ \A j \in i + 1 .. i + Width[s[i]] - 1 : Continues(s[j])
      BY <1>1, <1>3, <1>4, <1>7, <2>1, Widths DEF IsText
    <3>2. PICK w \in Nat : w = Width[s[i]]
      BY <3>1
    <3>3. \A j \in i + 1 .. i + w - 1 : j \in 1 .. m /\ Continues(s[j])
      BY <2>1, <3>1, <3>2
    <3>4. \A j \in i + 1 .. i + w - 1 : Continues(u[j])
      BY <3>3, <1>4
    <3> QED BY <1>3, <2>1, <3>1, <3>2, <3>4
  <2>2. CASE i - m \in 1 .. n /\ m + (i - m) = i
    <3>1. PICK k \in 1 .. n : k = i - m /\ i = m + k
      BY <2>2
    <3>2. /\ u[i] = t[k] /\ k + Width[t[k]] <= n + 1 /\ Width[t[k]] \in Nat
          /\ \A j \in k + 1 .. k + Width[t[k]] - 1 : Continues(t[j])
      <4>1. u[i] = t[k]
        BY <1>4, <3>1
      <4>2. ~ Continues(t[k]) /\ k \in 1 .. Len(t)
        BY <1>3, <1>7, <4>1
      <4>3. Width[t[k]] \in Nat
        BY <1>1, <4>2, Widths
      <4>4. /\ k + Width[t[k]] <= Len(t) + 1
            /\ \A j \in k + 1 .. k + Width[t[k]] - 1 : Continues(t[j])
        BY <4>2 DEF IsText
      <4> QED BY <1>3, <4>1, <4>3, <4>4
    <3>5. PICK w \in Nat : w = Width[t[k]]
      BY <3>2
    <3>3. ASSUME NEW j \in i + 1 .. i + w - 1 PROVE Continues(u[j])
      <4>1. k + w <= n + 1 /\ \A x \in k + 1 .. k + w - 1 : Continues(t[x])
        BY <3>2, <3>5
      <4>2. j - m \in k + 1 .. k + w - 1 /\ j - m \in 1 .. n /\ m + (j - m) = j
        <5>1. i = m + k /\ i + w <= m + n + 1
          BY <3>1, <4>1
        <5>2. j \in Int /\ i < j /\ j < i + w
          OBVIOUS
        <5> QED BY <5>1, <5>2
      <4> QED BY <1>4, <4>1, <4>2
    <3>4. i + Width[t[k]] <= (m + n) + 1
      BY <3>1, <3>2
    <3> QED BY <3>2, <3>3, <3>4, <3>5
  <2> QED BY <1>5, <2>1, <2>2
<1>8. IsText(u)
  BY <1>3, <1>4, <1>6, <1>7 DEF IsText
<1> QED BY <1>2, <1>3, <1>4, <1>8 DEF Joined

\* A text with bytes between two boundaries replaced by a text is a text.
LEMMA SpliceText ==
  ASSUME NEW t, IsText(t), NEW insert, IsText(insert),
         NEW start, NEW end, IsBoundary(t, start), IsBoundary(t, end), start <= end
  PROVE  /\ IsText(Splice(t, start, end, insert))
         /\ start \in Nat /\ end \in Nat /\ end <= Len(t)
<1>1. /\ t \in Seq(Bytes) /\ insert \in Seq(Bytes) /\ Len(t) \in Nat
      /\ start \in Nat /\ end \in Nat /\ end <= Len(t)
  BY DEF IsText, IsBoundary
<1>2. IsBoundary(t, 0) /\ IsBoundary(t, Len(t)) /\ 0 <= start
  BY <1>1, TextEnds
<1>3. PICK u, v : u = SubSeq(t, 1, start) /\ v = SubSeq(t, end + 1, Len(t))
  OBVIOUS
<1>4. /\ IsText(u) /\ Len(u) = start
      /\ \A i \in 1 .. start : u[i] = t[i]
  <2>1. Part(SubSeq(t, 0 + 1, start), t, 0, start)
    BY <1>2, SubText
  <2>2. start - 0 = start /\ 0 + 1 = 1 /\ \A i \in 1 .. start : 0 + i = i
    BY <1>1
  <2> QED BY <1>3, <2>1, <2>2 DEF Part
<1>5. /\ IsText(v) /\ Len(v) = Len(t) - end
      /\ \A i \in 1 .. Len(t) - end : v[i] = t[end + i]
  <2>1. Part(SubSeq(t, end + 1, Len(t)), t, end, Len(t))
    BY <1>1, <1>2, SubText
  <2> QED BY <1>3, <2>1 DEF Part
<1>6. /\ IsText(u \o insert) /\ Len(u \o insert) = start + Len(insert)
      /\ \A i \in 1 .. start : (u \o insert)[i] = u[i]
      /\ \A i \in 1 .. Len(insert) : (u \o insert)[start + i] = insert[i]
  <2>1. Joined(u \o insert, u, insert)
    BY <1>4, JoinText
  <2> QED BY <1>4, <2>1 DEF Joined
<1>7. PICK w : w = u \o insert
  OBVIOUS
<1>8. PICK x : x = w \o v
  OBVIOUS
<1>9. /\ IsText(x) /\ Len(x) = Len(w) + Len(v)
      /\ \A i \in 1 .. Len(w) : x[i] = w[i]
      /\ \A i \in 1 .. Len(v) : x[Len(w) + i] = v[i]
  <2>1. Joined(w \o v, w, v)
    BY <1>5, <1>6, <1>7, JoinText
  <2> QED BY <1>8, <2>1 DEF Joined
<1>10. x = Splice(t, start, end, insert)
  <2>1. PICK n \in Nat : n = Len(insert)
    BY <1>1
  <2>2. PICK m \in Nat : m = Len(t)
    BY <1>1
  <2>3. x \in Seq(Bytes) /\ Len(x) = m - (end - start) + n
    BY <1>5, <1>6, <1>7, <1>9, <2>1, <2>2, <1>1 DEF IsText
  <2>4. x = [k \in 1 .. m - (end - start) + n |-> x[k]]
    BY <2>3
  <2>5. ASSUME NEW k \in 1 .. m - (end - start) + n
        PROVE  x[k] = IF k <= start THEN t[k]
                      ELSE IF k <= start + n THEN insert[k - start]
                      ELSE t[k - n + (end - start)]
    <3>1. CASE k <= start
      <4>1. k \in 1 .. start /\ k \in 1 .. start + n
        BY <1>1, <3>1
      <4> QED BY <4>1, <1>4, <1>6, <1>7, <1>9, <2>1, <3>1
    <3>2. CASE ~ (k <= start) /\ k <= start + n
      <4>1. k - start \in 1 .. n /\ k \in 1 .. start + n /\ start + (k - start) = k
        BY <1>1, <3>2
      <4>2. w[k] = insert[k - start]
        BY <4>1, <1>6, <1>7, <2>1
      <4> QED BY <4>1, <4>2, <1>6, <1>7, <1>9, <2>1, <3>2
    <3>3. CASE ~ (k <= start) /\ ~ (k <= start + n)
      <4>1. PICK i : i = k - (start + n)
        OBVIOUS
      <4>2. /\ i \in 1 .. m - end /\ k = (start + n) + i
            /\ end + i = k - n + (end - start)
        BY <1>1, <2>2, <3>3, <4>1
      <4>3. x[k] = v[i]
        BY <4>2, <1>5, <1>6, <1>7, <1>9, <2>1, <2>2
      <4>4. v[i] = t[end + i]
        BY <4>2, <1>5, <2>2
      <4> QED BY <3>3, <4>2, <4>3, <4>4
    <3> QED BY <3>1, <3>2, <3>3
  <2>6. Splice(t, start, end, insert) =
          [k \in 1 .. m - (end - start) + n |->
             IF k <= start THEN t[k]
             ELSE IF k <= start + n THEN insert[k - start]
             ELSE t[k - n + (end - start)]]
    BY <2>1, <2>2 DEF Splice
  <2> QED BY <2>4, <2>5, <2>6
<1> QED BY <1>1, <1>9, <1>10

\* A boundary of a text is one of every text that begins with the same bytes.
LEMMA SharedBoundary ==
  ASSUME NEW s, IsText(s), NEW t, IsText(t), NEW o, IsBoundary(s, o), o <= Len(t),
         \A i \in 1 .. o : s[i] = t[i]
  PROVE  IsBoundary(t, o)
<1>1. o \in 0 .. Len(t) /\ o \in Nat /\ Len(t) \in Nat
  BY DEF IsText, IsBoundary
<1>2. ASSUME o # Len(t), Continues(t[o + 1]) PROVE FALSE
  <2>1. o + 1 \in 1 .. Len(t) /\ (o + 1) - 1 = o
    BY <1>1, <1>2
  <2>2. PICK j \in 1 .. o : j + Width[t[j]] > o + 1
    BY <1>2, <2>1, TextAt
  <2>3. j + Width[s[j]] <= o + 1
    BY NoneReachesOver
  <2>4. s[j] = t[j] /\ j \in 1 .. Len(t)
    BY <1>1
  <2>5. Width[t[j]] \in Nat
    BY <2>4, TextAt
  <2> QED BY <1>1, <2>2, <2>3, <2>4, <2>5
<1> QED BY <1>1, <1>2 DEF IsBoundary

-----------------------------------------------------------------------------
(* The edit recovered from two texts.                                      *)

\* A byte of a part.
LEMMA PartAt ==
  ASSUME NEW s \in Seq(Bytes), NEW from \in Nat, NEW to \in Nat, 1 <= from, to <= Len(s),
         NEW i \in Nat, 1 <= i, from + i - 1 <= to
  PROVE  SubSeq(s, from, to)[i] = s[from + i - 1]
OBVIOUS

\* The bytes of equal parts of two sequences are equal.
LEMMA EqualParts ==
  ASSUME NEW s \in Seq(Bytes), NEW t \in Seq(Bytes), NEW a \in Nat, NEW b \in Nat, NEW k \in Nat,
         a + k <= Len(s), b + k <= Len(t),
         SubSeq(s, a + 1, a + k) = SubSeq(t, b + 1, b + k)
  PROVE  \A i \in 1 .. k : s[a + i] = t[b + i]
<1>1. ASSUME NEW i \in 1 .. k PROVE SubSeq(s, a + 1, a + k)[i] = s[a + i]
  <2>1. PICK from \in Nat, to \in Nat : from = a + 1 /\ to = a + k
    OBVIOUS
  <2>2. /\ 1 <= from /\ to <= Len(s) /\ i \in Nat /\ 1 <= i
        /\ from + i - 1 <= to /\ from + i - 1 = a + i
    BY <2>1
  <2>3. SubSeq(s, from, to)[i] = s[from + i - 1]
    BY <2>2, PartAt
  <2> QED BY <2>1, <2>2, <2>3
<1>2. ASSUME NEW i \in 1 .. k PROVE SubSeq(t, b + 1, b + k)[i] = t[b + i]
  <2>1. PICK from \in Nat, to \in Nat : from = b + 1 /\ to = b + k
    OBVIOUS
  <2>2. /\ 1 <= from /\ to <= Len(t) /\ i \in Nat /\ 1 <= i
        /\ from + i - 1 <= to /\ from + i - 1 = b + i
    BY <2>1
  <2>3. SubSeq(t, from, to)[i] = t[from + i - 1]
    BY <2>2, PartAt
  <2> QED BY <2>1, <2>2, <2>3
<1> QED BY <1>1, <1>2

Shares(old, new, p, s) ==
  /\ p \in Nat /\ s \in Nat /\ p + s <= Len(old) /\ p + s <= Len(new)
  /\ IsBoundary(old, p) /\ IsBoundary(new, p)
  /\ IsBoundary(old, Len(old) - s) /\ IsBoundary(new, Len(new) - s)
  /\ \A i \in 1 .. p : old[i] = new[i]
  /\ \A i \in 1 .. s : old[(Len(old) - s) + i] = new[(Len(new) - s) + i]

\* diff_edit keeps a prefix and a suffix that both texts share.
LEMMA DiffShares ==
  ASSUME NEW old, IsText(old), NEW new, IsText(new)
  PROVE  \E p, s : /\ Shares(old, new, p, s)
                   /\ DiffEdit(old, new) = Edit(p, Len(old) - s, SubSeq(new, p + 1, Len(new) - s))
<1>1. old \in Seq(Bytes) /\ new \in Seq(Bytes) /\ Len(old) \in Nat /\ Len(new) \in Nat
  BY DEF IsText
<1>2. PICK m \in Nat, n \in Nat : m = Len(old) /\ n = Len(new)
  BY <1>1
<1> DEFINE Heads == {k \in 0 .. Smaller(m, n) : SubSeq(old, 1, k) = SubSeq(new, 1, k)}
<1>3. PICK common : common = Largest(Heads)
  OBVIOUS
<1>4. /\ common \in Nat /\ common <= m /\ common <= n
      /\ \A i \in 1 .. common : old[i] = new[i]
  <2>1. Smaller(m, n) \in Nat /\ Smaller(m, n) <= m /\ Smaller(m, n) <= n
    BY DEF Smaller
  <2>2. 0 \in Heads /\ Heads \subseteq 0 .. Smaller(m, n)
    <3>1. SubSeq(old, 1, 0) = <<>> /\ SubSeq(new, 1, 0) = <<>>
      BY <1>1
    <3> QED BY <2>1, <3>1
  <2>3. common \in Heads
    <3> HIDE DEF Heads
    <3> QED BY <1>3, <2>1, <2>2, LargestOf
  <2>4. common \in 0 .. Smaller(m, n) /\ SubSeq(old, 1, common) = SubSeq(new, 1, common)
    BY <2>3
  <2>5. common \in Nat /\ common <= m /\ common <= n
    BY <2>1, <2>4
  <2>6. \A i \in 1 .. common : old[0 + i] = new[0 + i]
    <3>1. 0 + common = common /\ 0 + 1 = 1
      BY <2>5
    <3> QED BY <1>1, <1>2, <2>4, <2>5, <3>1, EqualParts
  <2>7. \A i \in 1 .. common : 0 + i = i
    OBVIOUS
  <2> QED BY <2>5, <2>6, <2>7
<1> DEFINE Cuts == {k \in 0 .. common : k = 0 \/ IsBoundary(old, k)}
<1>5. PICK p : p = Largest(Cuts)
  OBVIOUS
<1>6. /\ p \in Nat /\ p <= common /\ IsBoundary(old, p) /\ IsBoundary(new, p)
      /\ \A i \in 1 .. p : old[i] = new[i]
  <2>1. 0 \in Cuts /\ Cuts \subseteq 0 .. common
    BY <1>4
  <2>2. p \in Cuts
    <3> HIDE DEF Cuts
    <3> QED BY <1>4, <1>5, <2>1, LargestOf
  <2>3. p \in 0 .. common /\ IsBoundary(old, p)
    BY <2>2, TextEnds
  <2>4. p \in Nat /\ p <= common /\ \A i \in 1 .. p : old[i] = new[i]
    BY <1>4, <2>3
  <2>5. p <= Len(new)
    BY <1>2, <1>4, <2>4
  <2>6. IsBoundary(new, p)
    BY <2>3, <2>4, <2>5, SharedBoundary
  <2> QED BY <2>3, <2>4, <2>6
<1> DEFINE tail(t, k) == SubSeq(t, Len(t) - k + 1, Len(t))
           Tails == {k \in 0 .. Smaller(m - p, n - p) : tail(old, k) = tail(new, k)}
<1>7. PICK shared : shared = Largest(Tails)
  OBVIOUS
<1>8. /\ shared \in Nat /\ p + shared <= m /\ p + shared <= n
      /\ \A i \in 1 .. shared : old[(m - shared) + i] = new[(n - shared) + i]
  <2>1. /\ Smaller(m - p, n - p) \in Nat
        /\ Smaller(m - p, n - p) <= m - p /\ Smaller(m - p, n - p) <= n - p
    BY <1>4, <1>6 DEF Smaller
  <2>2. 0 \in Tails /\ Tails \subseteq 0 .. Smaller(m - p, n - p)
    <3>1. tail(old, 0) = <<>> /\ tail(new, 0) = <<>>
      BY <1>1
    <3> QED BY <2>1, <3>1
  <2>3. shared \in Tails
    <3> HIDE DEF Tails
    <3> QED BY <1>7, <2>1, <2>2, LargestOf
  <2>4. shared \in 0 .. Smaller(m - p, n - p) /\ tail(old, shared) = tail(new, shared)
    BY <2>3
  <2>5. shared \in Nat /\ p + shared <= m /\ p + shared <= n
    BY <1>6, <2>1, <2>4
  <2>6. m - shared \in Nat /\ n - shared \in Nat /\ (m - shared) + shared = m /\ (n - shared) + shared = n
    BY <1>6, <2>5
  <2>7. SubSeq(old, (m - shared) + 1, (m - shared) + shared)
          = SubSeq(new, (n - shared) + 1, (n - shared) + shared)
    BY <1>2, <2>4, <2>6
  <2>8. (m - shared) + shared <= Len(old) /\ (n - shared) + shared <= Len(new)
    BY <1>2, <2>6
  <2>9. \A i \in 1 .. shared : old[(m - shared) + i] = new[(n - shared) + i]
    BY <1>1, <2>5, <2>6, <2>7, <2>8, EqualParts
  <2> QED BY <2>5, <2>9
<1> DEFINE Ends == {k \in 0 .. shared :
                      k = 0 \/ (IsBoundary(old, Len(old) - k) /\ IsBoundary(new, Len(new) - k))}
<1>9. PICK s : s = Largest(Ends)
  OBVIOUS
<1>10. /\ s \in Nat /\ s <= shared
       /\ IsBoundary(old, m - s) /\ IsBoundary(new, n - s)
  <2>1. 0 \in Ends /\ Ends \subseteq 0 .. shared
    BY <1>8
  <2>2. s \in Ends
    <3> HIDE DEF Ends
    <3> QED BY <1>8, <1>9, <2>1, LargestOf
  <2>3. IsBoundary(old, m - 0) /\ IsBoundary(new, n - 0)
    <3>1. m - 0 = Len(old) /\ n - 0 = Len(new)
      BY <1>2
    <3> QED BY <3>1, TextEnds
  <2> QED BY <1>2, <1>8, <2>2, <2>3
<1>11. \A i \in 1 .. s : old[(m - s) + i] = new[(n - s) + i]
  <2> SUFFICES ASSUME NEW i \in 1 .. s PROVE old[(m - s) + i] = new[(n - s) + i]
    OBVIOUS
  <2>1. PICK j : j = (shared - s) + i
    OBVIOUS
  <2>2. j \in 1 .. shared /\ (m - shared) + j = (m - s) + i /\ (n - shared) + j = (n - s) + i
    BY <1>8, <1>10, <2>1
  <2> QED BY <1>8, <2>2
<1>12. Shares(old, new, p, s)
  <2>1. p + s <= m /\ p + s <= n
    BY <1>6, <1>8, <1>10
  <2> QED BY <1>2, <1>6, <1>10, <1>11, <2>1 DEF Shares
<1>13. DiffEdit(old, new) = Edit(p, Len(old) - s, SubSeq(new, p + 1, Len(new) - s))
  BY <1>2, <1>3, <1>5, <1>7, <1>9, Zenon DEF DiffEdit
<1> QED BY <1>12, <1>13

\* The edit recovered from two texts is one the old one can take, of a text,
\* and leads to the new one (diff_edit), for every two texts.
LEMMA DiffExact ==
  ASSUME NEW old, IsText(old), NEW new, IsText(new)
  PROVE  /\ Fits(DiffEdit(old, new), old)
         /\ IsText(DiffEdit(old, new).insert)
         /\ Apply(DiffEdit(old, new), old) = new
<1>1. PICK p, s : /\ Shares(old, new, p, s)
                  /\ DiffEdit(old, new) = Edit(p, Len(old) - s, SubSeq(new, p + 1, Len(new) - s))
  BY DiffShares
<1>2. PICK m \in Nat, n \in Nat : m = Len(old) /\ n = Len(new)
  BY DEF IsText
<1>3. /\ p \in Nat /\ s \in Nat /\ p + s <= m /\ p + s <= n
      /\ IsBoundary(old, p) /\ IsBoundary(new, p) /\ IsBoundary(old, m - s) /\ IsBoundary(new, n - s)
      /\ \A i \in 1 .. p : old[i] = new[i]
      /\ \A i \in 1 .. s : old[(m - s) + i] = new[(n - s) + i]
  BY <1>1, <1>2 DEF Shares
<1>4. PICK u : u = SubSeq(new, p + 1, n - s)
  OBVIOUS
<1>5. IsText(u) /\ Len(u) = (n - s) - p /\ \A i \in 1 .. (n - s) - p : u[i] = new[p + i]
  <2>1. p <= n - s
    BY <1>3
  <2>2. Part(SubSeq(new, p + 1, n - s), new, p, n - s)
    BY <1>3, <2>1, SubText
  <2> QED BY <1>4, <2>2 DEF Part
<1>6. DiffEdit(old, new) = [start |-> p, end |-> m - s, insert |-> u]
  BY <1>1, <1>2, <1>4 DEF Edit
<1>7. Fits(DiffEdit(old, new), old)
  <2>1. p <= m - s /\ m - s <= m
    BY <1>3
  <2> QED BY <1>2, <1>3, <1>6, <2>1 DEF Fits
<1>8. Splice(old, p, m - s, u) = new
  <2>1. m - ((m - s) - p) + Len(u) = n
    BY <1>3, <1>5
  <2>2. ASSUME NEW k \in 1 .. n
        PROVE  (IF k <= p THEN old[k]
                ELSE IF k <= p + Len(u) THEN u[k - p]
                ELSE old[k - Len(u) + ((m - s) - p)]) = new[k]
    <3>1. p + Len(u) = n - s
      BY <1>3, <1>5
    <3>2. CASE k <= p
      BY <1>3, <3>2
    <3>3. CASE ~ (k <= p) /\ k <= n - s
      <4>1. k - p \in 1 .. (n - s) - p /\ p + (k - p) = k
        BY <1>3, <3>3
      <4> QED BY <1>5, <3>1, <3>3, <4>1
    <3>4. CASE ~ (k <= p) /\ ~ (k <= n - s)
      <4>1. PICK i : i = k - (n - s)
        OBVIOUS
      <4>2. /\ i \in 1 .. s /\ (n - s) + i = k
            /\ k - ((n - s) - p) + ((m - s) - p) = (m - s) + i
        BY <1>3, <3>4, <4>1
      <4> QED BY <1>3, <1>5, <3>1, <3>4, <4>2
    <3> QED BY <3>1, <3>2, <3>3, <3>4
  <2>3. Splice(old, p, m - s, u) = [k \in 1 .. n |-> new[k]]
    BY <1>2, <2>1, <2>2 DEF Splice
  <2>4. new = [k \in 1 .. n |-> new[k]]
    BY <1>2 DEF IsText
  <2> QED BY <2>3, <2>4
<1> QED BY <1>5, <1>6, <1>7, <1>8 DEF Apply

-----------------------------------------------------------------------------
(* Chains of edits.                                                        *)

-----------------------------------------------------------------------------
(* Folds over the edits of a chain.  A fold is a recursive function on the *)
(* sets of positions; what follows turns it into a trace, one value after  *)
(* each edit, which an invariant can be carried along.                     *)

\* edits_produce after one more edit.
Checked(x, e) == IF x.ok /\ Fits(e, x.of)
                 THEN [ok |-> TRUE, of |-> Apply(e, x.of)]
                 ELSE [ok |-> FALSE, of |-> <<>>]

\* The step of each of the three folds: apply the edit to a text, check that
\* it fits, map a range through it.
Step(kind, x, e) ==
  IF kind = "apply" THEN Apply(e, x)
  ELSE IF kind = "check" THEN Checked(x, e)
  ELSE IF x = NoRange THEN x ELSE MapRange(x, e)

IsFold(it, n, kind, base, edits) ==
  it = [s \in SUBSET (1 .. n) |->
          IF s = {} THEN base ELSE Step(kind, it[s \ {Max(s)}], edits[Max(s)])]

\* The recursion has a solution.
LEMMA FoldExists ==
  ASSUME NEW kind, NEW base, NEW edits, NEW n \in Nat
  PROVE  \E it : IsFold(it, n, kind, base, edits)
<1> DEFINE G == {k \in Nat : \E it : IsFold(it, k, kind, base, edits)}
<1>1. 0 \in G
  <2>1. IsFold([s \in SUBSET (1 .. 0) |-> base], 0, kind, base, edits)
    <3>1. \A s \in SUBSET (1 .. 0) : s = {}
      OBVIOUS
    <3> QED BY <3>1 DEF IsFold
  <2> QED BY <2>1
<1>2. ASSUME NEW k \in 1 .. n, k - 1 \in G PROVE k \in G
  <2>1. PICK old : IsFold(old, k - 1, kind, base, edits)
    BY <1>2
  <2> DEFINE it == [s \in SUBSET (1 .. k) |->
                      IF k \in s THEN Step(kind, old[s \ {k}], edits[k]) ELSE old[s]]
  <2>2. \A s \in SUBSET (1 .. k) : k \notin s => s \in SUBSET (1 .. k - 1)
    OBVIOUS
  <2>3. \A s \in SUBSET (1 .. k) : s \ {k} \in SUBSET (1 .. k) /\ k \notin s \ {k}
    OBVIOUS
  <2>4. k \in Nat
    OBVIOUS
  <2>5. ASSUME NEW s \in SUBSET (1 .. k), s # {}
        PROVE  it[s] = Step(kind, it[s \ {Max(s)}], edits[Max(s)])
    <3>1. CASE k \in s
      <4>1. Max(s) = k
        BY <3>1, <2>4, GreatestIs
      <4>2. it[s \ {k}] = old[s \ {k}] /\ it[s] = Step(kind, old[s \ {k}], edits[k])
        BY <3>1, <2>3
      <4> HIDE DEF it
      <4> QED BY <4>1, <4>2
    <3>2. CASE k \notin s
      <4>1. it[s] = old[s] /\ it[s \ {Max(s)}] = old[s \ {Max(s)}]
        BY <3>2
      <4>2. old[s] = Step(kind, old[s \ {Max(s)}], edits[Max(s)])
        BY <3>2, <2>1, <2>2, <2>5 DEF IsFold
      <4> HIDE DEF it
      <4> QED BY <4>1, <4>2
    <3> QED BY <3>1, <3>2
  <2>6. it[{}] = base
    <3>1. {} \in SUBSET (1 .. k) /\ {} \in SUBSET (1 .. k - 1) /\ k \notin {}
      OBVIOUS
    <3> QED BY <3>1, <2>1 DEF IsFold
  <2>7. it = [s \in SUBSET (1 .. k) |-> it[s]]
    OBVIOUS
  <2>8. IsFold(it, k, kind, base, edits)
    <3> HIDE DEF it
    <3> QED BY <2>5, <2>6, <2>7 DEF IsFold
  <2> HIDE DEF it
  <2> QED BY <2>8, <2>4
<1>3. n \in G
  <2> HIDE DEF G
  <2>1. n \in 0 .. n
    OBVIOUS
  <2> QED BY <1>1, <1>2, <2>1, CountUp
<1> QED BY <1>3

\* tr holds the value after each edit, from base to last.
IsTrace(tr, kind, base, edits, last) ==
  /\ tr[0] = base
  /\ \A k \in 1 .. Len(edits) : tr[k] = Step(kind, tr[k - 1], edits[k])
  /\ tr[Len(edits)] = last

\* A fold over the indices of a chain of edits is its trace.
LEMMA FoldTrace ==
  ASSUME NEW kind, NEW base, NEW E, NEW edits \in Seq(E), NEW it,
         IsFold(it, Len(edits), kind, base, edits)
  PROVE  \E tr : IsTrace(tr, kind, base, edits, it[DOMAIN edits])
<1>1. PICK n \in Nat : n = Len(edits) /\ DOMAIN edits = 1 .. n
  OBVIOUS
<1> DEFINE tr == [k \in 0 .. n |-> it[1 .. k]]
<1>2. tr[0] = base
  <2>1. {} \in SUBSET (1 .. n) /\ 1 .. 0 = {} /\ tr[0] = it[1 .. 0]
    OBVIOUS
  <2>2. it[{}] = base
    BY <1>1, <2>1 DEF IsFold
  <2> QED BY <2>1, <2>2
<1>3. ASSUME NEW k \in 1 .. n PROVE tr[k] = Step(kind, tr[k - 1], edits[k])
  <2>1. Max(1 .. k) = k
    BY GreatestIs
  <2>2. 1 .. k \in SUBSET (1 .. n) /\ 1 .. k # {} /\ (1 .. k) \ {k} = 1 .. k - 1
    OBVIOUS
  <2>3. it[1 .. k] = Step(kind, it[1 .. k - 1], edits[k])
    BY <1>1, <2>1, <2>2 DEF IsFold
  <2>4. tr[k] = it[1 .. k] /\ tr[k - 1] = it[1 .. k - 1]
    OBVIOUS
  <2> HIDE DEF tr
  <2> QED BY <2>3, <2>4
<1>4. tr[n] = it[DOMAIN edits]
  BY <1>1
<1>5. IsTrace(tr, kind, base, edits, it[DOMAIN edits])
  <2> HIDE DEF tr
  <2> QED BY <1>1, <1>2, <1>3, <1>4 DEF IsTrace
<1> QED BY <1>5

\* The text after all edits of a chain.
ApplyAll(base, edits) == FoldLeft(LAMBDA t, e : Apply(e, t), base, edits)

\* Applying a chain of edits, one at a time.
LEMMA ApplyTrace ==
  ASSUME NEW base, NEW E, NEW edits \in Seq(E)
  PROVE  \E tr : IsTrace(tr, "apply", base, edits, ApplyAll(base, edits))
<1>1. PICK n \in Nat : n = Len(edits) /\ DOMAIN edits = 1 .. n
  OBVIOUS
<1>2. PICK it : IsFold(it, n, "apply", base, edits)
  BY FoldExists
<1>3. it = [s \in SUBSET DOMAIN edits |->
              IF s = {} THEN base ELSE Apply(edits[Max(s)], it[s \ {Max(s)}])]
  BY <1>1, <1>2 DEF IsFold, Step
<1>4. PICK f : /\ f = [s \in SUBSET DOMAIN edits |->
                         IF s = {} THEN base ELSE Apply(edits[Max(s)], f[s \ {Max(s)}])]
               /\ ApplyAll(base, edits) = f[DOMAIN edits]
  BY <1>3 DEF ApplyAll, FoldLeft, MapThenFoldSet
<1>5. IsFold(f, Len(edits), "apply", base, edits)
  BY <1>1, <1>4 DEF IsFold, Step
<1>6. \E tr : IsTrace(tr, "apply", base, edits, f[DOMAIN edits])
  BY <1>5, FoldTrace
<1> QED BY <1>4, <1>6

\* Mapping a range through a chain of edits, one at a time.
LEMMA MapTrace ==
  ASSUME NEW base, NEW E, NEW edits \in Seq(E)
  PROVE  \E tr : IsTrace(tr, "map", base, edits, MapRangeThrough(base, edits))
<1>1. PICK n \in Nat : n = Len(edits) /\ DOMAIN edits = 1 .. n
  OBVIOUS
<1>2. PICK it : IsFold(it, n, "map", base, edits)
  BY FoldExists
<1>3. it = [s \in SUBSET DOMAIN edits |->
              IF s = {} THEN base
              ELSE IF it[s \ {Max(s)}] = NoRange THEN it[s \ {Max(s)}]
              ELSE MapRange(it[s \ {Max(s)}], edits[Max(s)])]
  BY <1>1, <1>2 DEF IsFold, Step
<1>4. PICK f : /\ f = [s \in SUBSET DOMAIN edits |->
                         IF s = {} THEN base
                         ELSE IF f[s \ {Max(s)}] = NoRange THEN f[s \ {Max(s)}]
                         ELSE MapRange(f[s \ {Max(s)}], edits[Max(s)])]
               /\ MapRangeThrough(base, edits) = f[DOMAIN edits]
  BY <1>3 DEF MapRangeThrough, FoldLeft, MapThenFoldSet
<1>5. IsFold(f, Len(edits), "map", base, edits)
  BY <1>1, <1>4 DEF IsFold, Step
<1>6. \E tr : IsTrace(tr, "map", base, edits, f[DOMAIN edits])
  BY <1>5, FoldTrace
<1> QED BY <1>4, <1>6

\* Checking a chain of edits, one at a time.
LEMMA CheckTrace ==
  ASSUME NEW base, NEW E, NEW edits \in Seq(E)
  PROVE  \E tr, last : /\ IsTrace(tr, "check", [ok |-> TRUE, of |-> base], edits, last)
                       /\ \A target : EditsProduce(base, edits, target) => last.ok /\ last.of = target
<1>1. PICK n \in Nat : n = Len(edits) /\ DOMAIN edits = 1 .. n
  OBVIOUS
<1>2. PICK it : IsFold(it, n, "check", [ok |-> TRUE, of |-> base], edits)
  BY FoldExists
<1>3. it = [s \in SUBSET DOMAIN edits |->
              IF s = {} THEN [ok |-> TRUE, of |-> base]
              ELSE IF it[s \ {Max(s)}].ok /\ Fits(edits[Max(s)], it[s \ {Max(s)}].of)
              THEN [ok |-> TRUE, of |-> Apply(edits[Max(s)], it[s \ {Max(s)}].of)]
              ELSE [ok |-> FALSE, of |-> <<>>]]
  BY <1>1, <1>2, Zenon DEF IsFold, Step, Checked
<1>4. PICK f : /\ f = [s \in SUBSET DOMAIN edits |->
                         IF s = {} THEN [ok |-> TRUE, of |-> base]
                         ELSE IF f[s \ {Max(s)}].ok /\ Fits(edits[Max(s)], f[s \ {Max(s)}].of)
                         THEN [ok |-> TRUE, of |-> Apply(edits[Max(s)], f[s \ {Max(s)}].of)]
                         ELSE [ok |-> FALSE, of |-> <<>>]]
               /\ \A target : EditsProduce(base, edits, target) =>
                    f[DOMAIN edits].ok /\ f[DOMAIN edits].of = target
  BY <1>3 DEF EditsProduce, FoldLeft, MapThenFoldSet
<1>5. IsFold(f, Len(edits), "check", [ok |-> TRUE, of |-> base], edits)
  BY <1>1, <1>4, Zenon DEF IsFold, Step, Checked
<1>6. \E tr : IsTrace(tr, "check", [ok |-> TRUE, of |-> base], edits, f[DOMAIN edits])
  BY <1>5, FoldTrace
<1> QED BY <1>4, <1>6

-----------------------------------------------------------------------------
(* Columns: what the wide characters fall short of.                        *)

-----------------------------------------------------------------------------
(* Columns.  A sum over a set of wide characters is a recursive function   *)
(* on its subsets, which takes one element after another in an order that  *)
(* is not specified; it does not depend on that order.                     *)

Wides == {w \in [start : Nat, end : Nat] : w.end - w.start \in 2 .. 4}

\* What a wide character falls short of its bytes.
Short(w, encoding) == (w.end - w.start) - Units(w, encoding)

\* A character falls short by less than its width, and has a unit or more.
LEMMA ShortType ==
  ASSUME NEW w \in Wides, NEW encoding \in Encodings
  PROVE  /\ Short(w, encoding) \in Nat
         /\ Units(w, encoding) \in Nat /\ Units(w, encoding) >= 1
         /\ w.start \in Nat /\ w.end \in Nat /\ w.start < w.end
<1>1. PICK n \in 2 .. 4 : w.end - w.start = n
  BY DEF Wides
<1>2. Units(w, encoding) \in Nat /\ Units(w, encoding) >= 1 /\ Units(w, encoding) <= n
  <2>1. CASE encoding = "utf-8"
    BY <1>1, <2>1 DEF Units
  <2>2. CASE encoding = "utf-16"
    BY <1>1, <2>2 DEF Units
  <2>3. CASE encoding = "utf-32"
    BY <1>1, <2>3 DEF Units
  <2> QED BY <2>1, <2>2, <2>3 DEF Encodings
<1>3. w.start \in Nat /\ w.end \in Nat
  BY DEF Wides
<1> QED BY <1>1, <1>2, <1>3 DEF Short

First(s) == CHOOSE x \in s : TRUE

\* The character picked from a set is in it.
LEMMA FirstIn == ASSUME NEW s, s # {} PROVE First(s) \in s
BY DEF First

IsSum(f, S, encoding) ==
  f = [s \in SUBSET S |->
         IF s = {} THEN 0 ELSE f[s \ {First(s)}] + (First(s).end - First(s).start) - Units(First(s), encoding)]

\* The smaller subsets of a finite set of wide characters, one more at a time.
LEMMA BySize ==
  ASSUME NEW S, IsFiniteSet(S), NEW G, G \subseteq SUBSET S, {} \in G,
         \A s \in SUBSET S : s # {} /\ (\A r \in SUBSET s : r # s => r \in G) => s \in G
  PROVE  \A s \in SUBSET S : s \in G
<1> DEFINE N == {n \in Nat : \A s \in SUBSET S : Cardinality(s) <= n => s \in G}
<1>1. \A s \in SUBSET S : /\ IsFiniteSet(s) /\ Cardinality(s) \in Nat
                          /\ Cardinality(s) <= Cardinality(S)
                          /\ Cardinality(s) = 0 => s = {}
  BY FS_Subset, FS_CardinalityType, FS_EmptySet
<1>2. 0 \in N
  BY <1>1
<1>3. ASSUME NEW n \in 1 .. Cardinality(S), n - 1 \in N PROVE n \in N
  <2> SUFFICES ASSUME NEW s \in SUBSET S, Cardinality(s) <= n, s # {} PROVE s \in G
    <3>1. n \in Nat
      OBVIOUS
    <3> QED BY <3>1
  <2>1. ASSUME NEW r \in SUBSET s, r # s PROVE r \in G
    <3>1. r \in SUBSET S
      OBVIOUS
    <3>2. Cardinality(r) <= Cardinality(s) /\ Cardinality(r) # Cardinality(s)
      BY <1>1, <2>1, FS_Subset
    <3>3. Cardinality(r) <= n - 1
      BY <1>1, <3>1, <3>2
    <3> QED BY <1>3, <3>1, <3>3
  <2> QED BY <2>1
<1>4. Cardinality(S) \in N
  <2>1. Cardinality(S) \in Nat /\ Cardinality(S) \in 0 .. Cardinality(S)
    BY FS_CardinalityType
  <2> HIDE DEF N
  <2> QED BY <1>2, <1>3, <2>1, CountUp
<1> QED BY <1>1, <1>4

\* Sums over the subsets of a finite set exist, one size after the other.
LEMMA SumExists ==
  ASSUME NEW S, IsFiniteSet(S), NEW encoding
  PROVE  \E f : IsSum(f, S, encoding)
<1> DEFINE Sums(f, n) == \A s \in SUBSET S : Cardinality(s) <= n =>
             f[s] = IF s = {} THEN 0
                    ELSE f[s \ {First(s)}] + (First(s).end - First(s).start) - Units(First(s), encoding)
           N == {n \in Nat : \E f : f = [s \in SUBSET S |-> f[s]] /\ Sums(f, n)}
<1>1. \A s \in SUBSET S : /\ IsFiniteSet(s) /\ Cardinality(s) \in Nat
                          /\ Cardinality(s) <= Cardinality(S)
                          /\ Cardinality(s) = 0 => s = {}
  BY FS_Subset, FS_CardinalityType, FS_EmptySet
<1>2. 0 \in N
  <2>1. PICK f : f = [s \in SUBSET S |-> 0]
    OBVIOUS
  <2>2. f = [s \in SUBSET S |-> f[s]] /\ Sums(f, 0)
    BY <1>1, <2>1
  <2> QED BY <2>2
<1>3. ASSUME NEW n \in 1 .. Cardinality(S), n - 1 \in N PROVE n \in N
  <2>1. PICK f : Sums(f, n - 1)
    BY <1>3
  <2> DEFINE g == [s \in SUBSET S |->
                     IF Cardinality(s) <= n - 1 THEN f[s]
                     ELSE f[s \ {First(s)}] + (First(s).end - First(s).start) - Units(First(s), encoding)]
  <2>2. ASSUME NEW s \in SUBSET S, s # {}
        PROVE  s \ {First(s)} \in SUBSET S /\ Cardinality(s \ {First(s)}) = Cardinality(s) - 1
    <3>1. First(s) \in s
      BY <2>2, FirstIn
    <3> QED BY <1>1, <3>1, FS_RemoveElement
  <2>3. ASSUME NEW s \in SUBSET S, Cardinality(s) <= n
        PROVE  g[s] = IF s = {} THEN 0
                      ELSE g[s \ {First(s)}] + (First(s).end - First(s).start) - Units(First(s), encoding)
    <3>1. CASE s = {}
      <4>1. Cardinality(s) = 0 /\ 0 <= n - 1
        BY <3>1, FS_EmptySet
      <4>2. g[s] = f[s] /\ f[s] = 0
        BY <2>1, <3>1, <4>1
      <4> HIDE DEF g
      <4> QED BY <3>1, <4>2
    <3>2. CASE s # {}
      <4>1. s \ {First(s)} \in SUBSET S /\ Cardinality(s \ {First(s)}) <= n - 1
        BY <1>1, <2>2, <2>3, <3>2
      <4>2. g[s \ {First(s)}] = f[s \ {First(s)}]
        BY <4>1
      <4>3. g[s] = f[s \ {First(s)}] + (First(s).end - First(s).start) - Units(First(s), encoding)
        <5>1. CASE Cardinality(s) <= n - 1
          <6>1. g[s] = f[s]
            BY <5>1
          <6> HIDE DEF g
          <6> QED BY <2>1, <3>2, <5>1, <6>1
        <5>2. CASE ~ (Cardinality(s) <= n - 1)
          BY <5>2
        <5> QED BY <5>1, <5>2
      <4> HIDE DEF g
      <4> QED BY <3>2, <4>2, <4>3
    <3> QED BY <3>1, <3>2
  <2>4. g = [s \in SUBSET S |-> g[s]]
    OBVIOUS
  <2>5. n \in Nat
    OBVIOUS
  <2> HIDE DEF g
  <2> QED BY <2>3, <2>4, <2>5
<1>4. Cardinality(S) \in N
  <2>1. Cardinality(S) \in Nat /\ Cardinality(S) \in 0 .. Cardinality(S)
    BY FS_CardinalityType
  <2> HIDE DEF N
  <2> QED BY <1>2, <1>3, <2>1, CountUp
<1>5. PICK f : f = [s \in SUBSET S |-> f[s]] /\ Sums(f, Cardinality(S))
  BY <1>4
<1>6. \A s \in SUBSET S :
        f[s] = IF s = {} THEN 0
               ELSE f[s \ {First(s)}] + (First(s).end - First(s).start) - Units(First(s), encoding)
  BY <1>1, <1>5
<1> QED BY <1>5, <1>6 DEF IsSum

\* A sum does not depend on the character it takes first.
LEMMA SumStep ==
  ASSUME NEW S \in SUBSET Wides, IsFiniteSet(S), NEW encoding \in Encodings,
         NEW f, IsSum(f, S, encoding)
  PROVE  /\ f[{}] = 0
         /\ \A s \in SUBSET S : f[s] \in Nat
         /\ \A s \in SUBSET S : s # {} => f[s] = f[s \ {First(s)}] + Short(First(s), encoding)
<1> DEFINE G == {s \in SUBSET S : f[s] \in Nat}
<1>1. f[{}] = 0
  <2>1. {} \in SUBSET S
    OBVIOUS
  <2> QED BY <2>1 DEF IsSum
<1>2. ASSUME NEW s \in SUBSET S, s # {}, f[s \ {First(s)}] \in Nat
      PROVE  f[s] = f[s \ {First(s)}] + Short(First(s), encoding) /\ f[s] \in Nat
  <2>1. First(s) \in Wides
    BY <1>2, FirstIn
  <2>2. /\ Short(First(s), encoding) \in Nat /\ Units(First(s), encoding) \in Nat
        /\ First(s).start \in Nat /\ First(s).end \in Nat
    BY <2>1, ShortType
  <2>3. f[s] = f[s \ {First(s)}] + (First(s).end - First(s).start) - Units(First(s), encoding)
    BY <1>2 DEF IsSum
  <2> QED BY <1>2, <2>2, <2>3 DEF Short
<1>3. \A s \in SUBSET S : s \in G
  <2>1. G \subseteq SUBSET S /\ {} \in G
    BY <1>1
  <2>2. ASSUME NEW s \in SUBSET S, s # {}, \A r \in SUBSET s : r # s => r \in G
        PROVE  s \in G
    <3>1. First(s) \in s /\ s \ {First(s)} \in SUBSET s /\ s \ {First(s)} # s
      BY <2>2, FirstIn
    <3>2. f[s \ {First(s)}] \in Nat
      BY <2>2, <3>1
    <3> QED BY <1>2, <2>2, <3>2
  <2> HIDE DEF G
  <2> QED BY <2>1, <2>2, BySize
<1>4. ASSUME NEW s \in SUBSET S, s # {}
      PROVE  f[s] = f[s \ {First(s)}] + Short(First(s), encoding)
  <2>1. f[s \ {First(s)}] \in Nat
    <3>1. s \ {First(s)} \in SUBSET S
      OBVIOUS
    <3> QED BY <1>3, <3>1
  <2> QED BY <1>2, <1>4, <2>1
<1> QED BY <1>1, <1>3, <1>4

\* Whichever element is taken first.
LEMMA SumAny ==
  ASSUME NEW S \in SUBSET Wides, IsFiniteSet(S), NEW encoding \in Encodings,
         NEW f, IsSum(f, S, encoding)
  PROVE  \A s \in SUBSET S : \A x \in s : f[s] = f[s \ {x}] + Short(x, encoding)
<1> DEFINE G == {s \in SUBSET S : \A x \in s : f[s] = f[s \ {x}] + Short(x, encoding)}
<1>1. G \subseteq SUBSET S /\ {} \in G
  OBVIOUS
<1>2. ASSUME NEW s \in SUBSET S, s # {}, \A r \in SUBSET s : r # s => r \in G
      PROVE  s \in G
  <2> SUFFICES ASSUME NEW x \in s PROVE f[s] = f[s \ {x}] + Short(x, encoding)
    OBVIOUS
  <2>1. PICK y : y = First(s)
    OBVIOUS
  <2>2. y \in s /\ f[s] = f[s \ {y}] + Short(y, encoding)
    BY <1>2, <2>1, FirstIn, SumStep
  <2>3. CASE x = y
    BY <2>2, <2>3
  <2>4. CASE x # y
    <3>1. s \ {x} \in G /\ s \ {y} \in G
      <4>1. s \ {x} \in SUBSET s /\ s \ {x} # s /\ s \ {y} \in SUBSET s /\ s \ {y} # s
        BY <2>2
      <4> QED BY <1>2, <4>1
    <3>2. /\ f[s \ {x}] = f[(s \ {x}) \ {y}] + Short(y, encoding)
          /\ f[s \ {y}] = f[(s \ {y}) \ {x}] + Short(x, encoding)
      BY <2>2, <2>4, <3>1
    <3>3. (s \ {x}) \ {y} = (s \ {y}) \ {x}
      OBVIOUS
    <3>4. PICK r : r = (s \ {x}) \ {y}
      OBVIOUS
    <3>5. r \in SUBSET S /\ f[r] \in Nat
      BY <3>4, SumStep
    <3>6. Short(x, encoding) \in Nat /\ Short(y, encoding) \in Nat
      BY <2>2, ShortType
    <3> QED BY <2>2, <3>2, <3>3, <3>4, <3>5, <3>6
  <2> QED BY <2>3, <2>4
<1>3. \A s \in SUBSET S : s \in G
  <2> HIDE DEF G
  <2> QED BY <1>1, <1>2, BySize
<1> QED BY <1>3

\* The sum over a subset is part of the sum over the set.
LEMMA SumSame ==
  ASSUME NEW S \in SUBSET Wides, IsFiniteSet(S), NEW encoding \in Encodings,
         NEW f, IsSum(f, S, encoding), NEW T \in SUBSET S, NEW g, IsSum(g, T, encoding)
  PROVE  \A s \in SUBSET T : g[s] = f[s]
<1> DEFINE G == {s \in SUBSET T : g[s] = f[s]}
<1>0. IsFiniteSet(T) /\ T \in SUBSET Wides
  BY FS_Subset
<1>1. G \subseteq SUBSET T /\ {} \in G
  <2>1. g[{}] = 0 /\ f[{}] = 0
    BY <1>0, SumStep
  <2> QED BY <2>1
<1>2. ASSUME NEW s \in SUBSET T, s # {}, \A r \in SUBSET s : r # s => r \in G
      PROVE  s \in G
  <2>1. PICK y : y = First(s)
    OBVIOUS
  <2>2. y \in s
    BY <1>2, <2>1, FirstIn
  <2>3. g[s] = g[s \ {y}] + Short(y, encoding)
    BY <1>0, <1>2, <2>1, SumStep
  <2>4. f[s] = f[s \ {y}] + Short(y, encoding)
    <3>1. s \in SUBSET S
      OBVIOUS
    <3> QED BY <1>2, <2>1, <3>1, SumStep
  <2>5. s \ {y} \in G
    <3>1. s \ {y} \in SUBSET s /\ s \ {y} # s
      BY <2>2
    <3> QED BY <1>2, <3>1
  <2> QED BY <2>3, <2>4, <2>5
<1>3. \A s \in SUBSET T : s \in G
  <2> HIDE DEF G
  <2> QED BY <1>0, <1>1, <1>2, BySize
<1> QED BY <1>3

\* What the wide characters of S fall short of their bytes, as col_in sums it.
Shortfall(S, encoding) ==
  FoldSet(LAMBDA w, n : n + (w.end - w.start) - Units(w, encoding), 0, S)

\* What the fold of col_in computes is such a sum.
LEMMA ShortfallIs ==
  ASSUME NEW S \in SUBSET Wides, IsFiniteSet(S), NEW encoding \in Encodings
  PROVE  \E f : IsSum(f, S, encoding) /\ Shortfall(S, encoding) = f[S]
<1>1. PICK f : IsSum(f, S, encoding)
  BY SumExists
<1>2. f = [s \in SUBSET S |->
             IF s = {} THEN 0
             ELSE LET x == CHOOSE x \in s : TRUE
                  IN  f[s \ {x}] + (x.end - x.start) - Units(x, encoding)]
  BY <1>1, Zenon DEF IsSum, First
<1>3. PICK g : /\ g = [s \in SUBSET S |->
                         IF s = {} THEN 0
                         ELSE LET x == CHOOSE x \in s : TRUE
                              IN  g[s \ {x}] + (x.end - x.start) - Units(x, encoding)]
               /\ Shortfall(S, encoding) = g[S]
  BY <1>2, Zenon DEF Shortfall, FoldSet, MapThenFoldSet
<1>4. IsSum(g, S, encoding)
  BY <1>3, Zenon DEF IsSum, First
<1> QED BY <1>3, <1>4

\* A character adds what it falls short of.
LEMMA ShortfallAdd ==
  ASSUME NEW S \in SUBSET Wides, IsFiniteSet(S), NEW encoding \in Encodings
  PROVE  /\ Shortfall(S, encoding) \in Nat
         /\ \A x \in S : Shortfall(S, encoding) = Shortfall(S \ {x}, encoding) + Short(x, encoding)
<1>1. PICK f : IsSum(f, S, encoding) /\ Shortfall(S, encoding) = f[S]
  BY ShortfallIs
<1>2. f[S] \in Nat
  <2>1. S \in SUBSET S
    OBVIOUS
  <2> QED BY <1>1, <2>1, SumStep
<1>3. ASSUME NEW x \in S
      PROVE  Shortfall(S, encoding) = Shortfall(S \ {x}, encoding) + Short(x, encoding)
  <2>1. PICK T : T = S \ {x}
    OBVIOUS
  <2>2. T \in SUBSET S /\ T \in SUBSET T /\ S \in SUBSET S /\ IsFiniteSet(T) /\ T \in SUBSET Wides
    BY <2>1, FS_Subset
  <2>3. PICK g : IsSum(g, T, encoding) /\ Shortfall(T, encoding) = g[T]
    BY <2>2, ShortfallIs
  <2>4. g[T] = f[T]
    BY <1>1, <2>2, <2>3, SumSame
  <2>5. f[S] = f[T] + Short(x, encoding)
    BY <1>1, <2>1, <2>2, SumAny
  <2> QED BY <1>1, <2>1, <2>3, <2>4, <2>5
<1> QED BY <1>1, <1>2, <1>3

\* ASCII is a column per byte.
LEMMA NoShortfall == ASSUME NEW encoding \in Encodings PROVE Shortfall({}, encoding) = 0
<1>1. {} \in SUBSET Wides /\ IsFiniteSet({}) /\ {} \in SUBSET {}
  BY FS_EmptySet
<1>2. PICK f : IsSum(f, {}, encoding) /\ Shortfall({}, encoding) = f[{}]
  BY <1>1, ShortfallIs
<1> QED BY <1>1, <1>2, SumStep

-----------------------------------------------------------------------------
(* Lines.                                                                  *)

-----------------------------------------------------------------------------
(* Lines.                                                                  *)

Before(L, s) == {l \in L : l < s}

\* The offsets of the lines are finitely many, and so are those before one.
LEMMA Ranks ==
  ASSUME NEW n \in Nat, NEW L \in SUBSET (0 .. n)
  PROVE  /\ IsFiniteSet(L) /\ Cardinality(L) \in Nat
         /\ \A S \in SUBSET L : IsFiniteSet(S) /\ Cardinality(S) \in Nat
         /\ \A s \in L : Before(L, s) \in SUBSET L /\ Cardinality(Before(L, s)) \in Nat
         /\ \A s, r \in L : s < r => Cardinality(Before(L, s)) < Cardinality(Before(L, r))
         /\ \A s, r \in L : Cardinality(Before(L, s)) = Cardinality(Before(L, r)) => s = r
<1>1. IsFiniteSet(0 .. n)
  BY FS_Interval
<1>2. IsFiniteSet(L)
  BY <1>1, FS_Subset
<1>3. \A S \in SUBSET L : IsFiniteSet(S) /\ Cardinality(S) \in Nat
  BY <1>2, FS_Subset, FS_CardinalityType
<1>4. \A s \in L : Before(L, s) \in SUBSET L
  BY DEF Before
<1>5. ASSUME NEW s \in L, NEW r \in L, s < r
      PROVE  Cardinality(Before(L, s)) < Cardinality(Before(L, r))
  <2>0. \A x \in L : x \in Int
    OBVIOUS
  <2>1. Before(L, s) \in SUBSET Before(L, r) /\ s \in Before(L, r) /\ s \notin Before(L, s)
    <3>1. \A x \in L : x < s => x < r
      BY <1>5, <2>0
    <3>2. ~ (s < s)
      BY <2>0
    <3> QED BY <1>5, <3>1, <3>2 DEF Before
  <2>2. PICK S, R : S = Before(L, s) /\ R = Before(L, r)
    OBVIOUS
  <2>3. S \in SUBSET R /\ S # R /\ IsFiniteSet(R) /\ Cardinality(R) \in Nat /\ Cardinality(S) \in Nat
    BY <1>3, <1>4, <2>1, <2>2
  <2>4. Cardinality(S) <= Cardinality(R) /\ Cardinality(S) # Cardinality(R)
    BY <2>3, FS_Subset
  <2> QED BY <2>2, <2>3, <2>4
<1>6. ASSUME NEW s \in L, NEW r \in L, Cardinality(Before(L, s)) = Cardinality(Before(L, r))
      PROVE  s = r
  <2>1. Cardinality(Before(L, s)) \in Nat /\ s \in Nat /\ r \in Nat
    BY <1>3, <1>4
  <2>2. ~ (s < r) /\ ~ (r < s)
    BY <1>5, <1>6, <2>1
  <2> QED BY <2>1, <2>2
<1> QED BY <1>2, <1>3, <1>4, <1>5, <1>6, FS_CardinalityType

\* The greatest of a set of starts has all the others before it.
LEMMA RankOfGreatest ==
  ASSUME NEW n \in Nat, NEW L \in SUBSET (0 .. n), NEW S \in SUBSET L, S # {},
         \A s \in S : \A l \in L : l < s => l \in S
  PROVE  \E m \in S : /\ \A s \in S : s <= m
                      /\ Cardinality(Before(L, m)) = Cardinality(S) - 1
<1>1. PICK m : m = Largest(S)
  OBVIOUS
<1>2. m \in S /\ \A s \in S : s <= m
  <2>1. S \subseteq 0 .. n
    OBVIOUS
  <2> QED BY <1>1, <2>1, LargestOf
<1>3. Before(L, m) = S \ {m}
  <2>1. \A x \in L : x \in Int
    OBVIOUS
  <2>2. ASSUME NEW x \in L PROVE x < m <=> x \in S \ {m}
    BY <1>2, <2>1
  <2> QED BY <2>2 DEF Before
<1>4. IsFiniteSet(S)
  BY Ranks
<1>5. Cardinality(S \ {m}) = Cardinality(S) - 1
  BY <1>2, <1>4, FS_RemoveElement
<1> QED BY <1>2, <1>3, <1>5

\* There is a start of every rank.
LEMMA StartOfRank ==
  ASSUME NEW n \in Nat, NEW L \in SUBSET (0 .. n), NEW k \in Nat, k < Cardinality(L)
  PROVE  \E s \in L : Cardinality(Before(L, s)) = k
<1> DEFINE T == {s \in L : Cardinality(Before(L, s)) >= k}
<1>0. Cardinality(L) \in Nat /\ L # {}
  BY Ranks, FS_EmptySet
<1>1. PICK m \in L : Cardinality(Before(L, m)) = Cardinality(L) - 1
  <2>1. L \in SUBSET L
    OBVIOUS
  <2> QED BY <1>0, <2>1, RankOfGreatest
<1>2. m \in T
  BY <1>0, <1>1
<1>3. PICK s \in T : \A r \in T : s <= r
  <2>1. T \subseteq Nat /\ T # {}
    <3>1. \A x \in L : x \in Nat
      OBVIOUS
    <3> QED BY <1>2, <3>1
  <2> HIDE DEF T
  <2> QED BY <2>1, LeastNatural
<1>4. s \in L /\ Cardinality(Before(L, s)) \in Nat /\ Cardinality(Before(L, s)) >= k
  BY <1>3, Ranks
<1>5. ASSUME Cardinality(Before(L, s)) > k PROVE FALSE
  <2>1. PICK S : S = Before(L, s)
    OBVIOUS
  <2>2. S \in SUBSET L /\ S # {}
    BY <1>4, <1>5, <2>1, FS_EmptySet DEF Before
  <2>3. \A x \in S : \A l \in L : l < x => l \in S
    BY <1>4, <2>1 DEF Before
  <2>4. PICK p \in S : Cardinality(Before(L, p)) = Cardinality(S) - 1
    BY <2>2, <2>3, RankOfGreatest
  <2>5. p \in L /\ p < s
    BY <2>1, <2>4 DEF Before
  <2>6. p \in T
    BY <1>4, <1>5, <2>1, <2>4, <2>5
  <2>7. p \in Nat /\ s \in Nat
    BY <1>4, <2>5
  <2> QED BY <1>3, <2>5, <2>6, <2>7
<1> QED BY <1>4, <1>5

\* The index of a text, as a table of its lines.
LEMMA IndexLines ==
  ASSUME NEW t, IsText(t)
  PROVE  /\ Len(t) \in Nat /\ NewIndex(t).len = Len(t)
         /\ NewIndex(t).lines \in SUBSET (0 .. Len(t)) /\ 0 \in NewIndex(t).lines
         /\ \A s \in NewIndex(t).lines : IsBoundary(t, s)
<1>1. t \in Seq(Bytes) /\ Len(t) \in Nat
  BY DEF IsText
<1>2. NewIndex(t).len = Len(t) /\ NewIndex(t).lines = {0} \cup {i \in 1 .. Len(t) : t[i] = Newline}
  BY DEF NewIndex
<1>3. ASSUME NEW i \in 1 .. Len(t), t[i] = Newline PROVE IsBoundary(t, i)
  <2>1. i # Len(t) => i + 1 \in 1 .. Len(t)
    BY <1>1
  <2>2. ASSUME i # Len(t), Continues(t[i + 1]) PROVE FALSE
    <3>1. i + 1 \in 1 .. Len(t) /\ (i + 1) - 1 = i
      BY <1>1, <2>2
    <3>2. PICK j \in 1 .. i : j + Width[t[j]] > i + 1
      BY <2>2, <3>1, TextAt
    <3>3. Width[t[i]] = 1
      BY <1>3, BytesAssumption
    <3>4. j # i /\ j \in 1 .. Len(t) /\ j < i
      BY <1>1, <3>2, <3>3
    <3>6. ~ Continues(t[j])
      BY <3>2, <3>4 DEF Continues
    <3>7. Width[t[j]] \in Nat /\ \A x \in j + 1 .. j + Width[t[j]] - 1 : Continues(t[x])
      BY <3>4, <3>6, TextAt
    <3>8. i \in j + 1 .. j + Width[t[j]] - 1
      BY <3>2, <3>4, <3>7
    <3> QED BY <3>3, <3>7, <3>8 DEF Continues
  <2> QED BY <1>1, <2>2 DEF IsBoundary
<1> QED BY <1>1, <1>2, <1>3, TextEnds

\* Every line of the index has its start.
LEMMA LineStartIs ==
  ASSUME NEW t, IsText(t), NEW line \in Nat, line < Cardinality(NewIndex(t).lines)
  PROVE  /\ LineStart(NewIndex(t), line) \in NewIndex(t).lines
         /\ Cardinality(Before(NewIndex(t).lines, LineStart(NewIndex(t), line))) = line
<1>1. PICK n \in Nat, L \in SUBSET (0 .. Len(t)) : L = NewIndex(t).lines /\ n = Len(t)
  BY IndexLines
<1>2. \E s \in L : Cardinality(Before(L, s)) = line
  BY <1>1, StartOfRank
<1> QED BY <1>1, <1>2 DEF LineStart, Before

\* The line of an offset is the one whose start is the last one up to it.
LEMMA LineOfIs ==
  ASSUME NEW t, IsText(t), NEW o \in 0 .. Len(t), NEW line, line = LineOf(NewIndex(t), o)
  PROVE  /\ line \in Nat /\ line < Cardinality(NewIndex(t).lines)
         /\ LineStart(NewIndex(t), line) \in NewIndex(t).lines
         /\ LineStart(NewIndex(t), line) <= o
         /\ \A s \in NewIndex(t).lines : s <= o => s <= LineStart(NewIndex(t), line)
         /\ line + 1 < Cardinality(NewIndex(t).lines) => o < LineStart(NewIndex(t), line + 1)
<1>1. PICK n \in Nat, L \in SUBSET (0 .. Len(t)) : L = NewIndex(t).lines /\ n = Len(t) /\ 0 \in L
  BY IndexLines
<1>0. /\ \A S \in SUBSET L : IsFiniteSet(S) /\ Cardinality(S) \in Nat
      /\ \A x \in L : x \in Nat /\ Cardinality(Before(L, x)) \in Nat
      /\ \A x, r \in L : x < r => Cardinality(Before(L, x)) < Cardinality(Before(L, r))
      /\ \A x, r \in L : Cardinality(Before(L, x)) = Cardinality(Before(L, r)) => x = r
  <2>1. L \in SUBSET (0 .. n) /\ \A x \in L : x \in Nat
    BY <1>1
  <2> QED BY <2>1, Ranks
<1>2. PICK S : S = {s \in L : s <= o}
  OBVIOUS
<1>3. o \in Nat /\ 0 \in S /\ S \in SUBSET L /\ \A s \in S : \A l \in L : l < s => l \in S
  BY <1>1, <1>2
<1>4. PICK m \in S : (\A s \in S : s <= m) /\ Cardinality(Before(L, m)) = Cardinality(S) - 1
  BY <1>1, <1>3, RankOfGreatest
<1>5. line = Cardinality(S) - 1
  BY <1>1, <1>2 DEF LineOf
<1>6. line = Cardinality(Before(L, m)) /\ line \in Nat /\ m \in L
  BY <1>0, <1>1, <1>3, <1>4, <1>5
<1>7. line < Cardinality(L)
  <2>1. IsFiniteSet(L) /\ Cardinality(L) \in Nat /\ Cardinality(S) \in Nat
    BY <1>1, <1>3, Ranks
  <2>2. Cardinality(S) <= Cardinality(L)
    BY <1>3, <2>1, FS_Subset
  <2> QED BY <1>5, <2>1, <2>2
<1>8. LineStart(NewIndex(t), line) = m
  <2>1. /\ LineStart(NewIndex(t), line) \in L
        /\ Cardinality(Before(L, LineStart(NewIndex(t), line))) = line
    BY <1>1, <1>6, <1>7, LineStartIs
  <2> QED BY <1>0, <1>1, <1>6, <2>1
<1>9. ASSUME line + 1 < Cardinality(L) PROVE o < LineStart(NewIndex(t), line + 1)
  <2>1. PICK x : x = LineStart(NewIndex(t), line + 1)
    OBVIOUS
  <2>2. x \in L /\ Cardinality(Before(L, x)) = line + 1
    BY <1>1, <1>6, <1>9, <2>1, LineStartIs
  <2>3. ASSUME x <= o PROVE FALSE
    <3>1. x <= m /\ x \in Nat /\ m \in Nat
      BY <1>1, <1>2, <1>4, <1>6, <2>2, <2>3
    <3>2. x = m \/ Cardinality(Before(L, x)) < Cardinality(Before(L, m))
      BY <1>0, <1>6, <2>2, <3>1
    <3> QED BY <1>6, <2>2, <3>2
  <2> QED BY <1>1, <1>3, <2>1, <2>2, <2>3
<1> QED BY <1>1, <1>2, <1>3, <1>4, <1>6, <1>7, <1>8, <1>9

-----------------------------------------------------------------------------
(* Wide characters.                                                        *)

\* The index of a text, as a table of its wide characters.
LEMMA IndexWide ==
  ASSUME NEW t, IsText(t)
  PROVE  /\ NewIndex(t).wide \in SUBSET Wides
         /\ \A w \in NewIndex(t).wide :
              \E i \in 1 .. Len(t) : /\ w.start = i - 1 /\ w.end = (i - 1) + Width[t[i]]
                                     /\ Width[t[i]] \in 2 .. 4
         /\ \A i \in 1 .. Len(t) : Width[t[i]] > 1 =>
              \E w \in NewIndex(t).wide : w.start = i - 1 /\ w.end = (i - 1) + Width[t[i]]
<1>1. t \in Seq(Bytes) /\ Len(t) \in Nat /\ \A i \in 1 .. Len(t) : Width[t[i]] \in 0 .. 4
  BY BytesAssumption DEF IsText
<1>2. PICK W : W = NewIndex(t).wide
  OBVIOUS
<1>3. W = {Wide(t, i) : i \in Leads(t)}
  BY <1>2 DEF NewIndex, Wide, Leads
<1>4. ASSUME NEW i \in Leads(t)
      PROVE  /\ i \in 1 .. Len(t) /\ Width[t[i]] \in 2 .. 4
             /\ Wide(t, i).start = i - 1 /\ Wide(t, i).end = (i - 1) + Width[t[i]]
             /\ Wide(t, i) \in Wides
  <2>1. i \in 1 .. Len(t) /\ Width[t[i]] > 1 /\ Width[t[i]] \in 0 .. 4
    BY <1>1 DEF Leads
  <2>2. PICK n \in 2 .. 4 : n = Width[t[i]]
    BY <2>1
  <2>3. Wide(t, i) = [start |-> i - 1, end |-> i - 1 + n]
    BY <2>2 DEF Wide
  <2>4. i - 1 \in Nat /\ i - 1 + n \in Nat /\ (i - 1 + n) - (i - 1) = n /\ i - 1 + n = (i - 1) + n
    BY <2>1
  <2>5. Wide(t, i) \in Wides
    BY <2>3, <2>4 DEF Wides
  <2> QED BY <2>1, <2>2, <2>3, <2>4, <2>5
<1>5. W \in SUBSET Wides
  BY <1>3, <1>4
<1>6. ASSUME NEW w \in W
      PROVE  \E i \in 1 .. Len(t) : /\ w.start = i - 1 /\ w.end = (i - 1) + Width[t[i]]
                                    /\ Width[t[i]] \in 2 .. 4
  BY <1>3, <1>4
<1>7. ASSUME NEW i \in 1 .. Len(t), Width[t[i]] > 1
      PROVE  \E w \in W : w.start = i - 1 /\ w.end = (i - 1) + Width[t[i]]
  <2>1. i \in Leads(t)
    BY <1>7 DEF Leads
  <2> QED BY <1>3, <1>4, <2>1
<1> QED BY <1>2, <1>5, <1>6, <1>7

\* Wide characters lie between boundaries, and no boundary is inside one.
LEMMA WideEnds ==
  ASSUME NEW t, IsText(t), NEW w \in NewIndex(t).wide
  PROVE  /\ w.start \in Nat /\ w.end \in Nat /\ w.start < w.end /\ w.end <= Len(t)
         /\ IsBoundary(t, w.start) /\ IsBoundary(t, w.end)
         /\ \A o : IsBoundary(t, o) => o <= w.start \/ w.end <= o
<1>1. PICK i \in 1 .. Len(t) : w.start = i - 1 /\ w.end = (i - 1) + Width[t[i]] /\ Width[t[i]] \in 2 .. 4
  BY IndexWide
<1>2. t \in Seq(Bytes) /\ Len(t) \in Nat
  BY DEF IsText
<1>3. ~ Continues(t[i])
  BY <1>1 DEF Continues
<1>4. PICK n \in 2 .. 4 : n = Width[t[i]]
  BY <1>1
<1>5. i + n <= Len(t) + 1 /\ \A j \in i + 1 .. i + n - 1 : Continues(t[j])
  BY <1>3, <1>4, TextAt
<1>6. w.start \in Nat /\ w.end \in Nat /\ w.start < w.end /\ w.end <= Len(t)
  BY <1>1, <1>2, <1>4, <1>5
<1>7. IsBoundary(t, w.start)
  BY <1>1, <1>2, <1>3, <1>6 DEF IsBoundary
<1>8. ASSUME NEW o, IsBoundary(t, o), ~ (o <= w.start) PROVE w.end <= o
  <2>1. o \in 0 .. Len(t)
    BY <1>8 DEF IsBoundary
  <2>2. i \in 1 .. o
    BY <1>1, <1>2, <1>8, <2>1
  <2>3. i + Width[t[i]] <= o + 1
    BY <1>8, <2>2, NoneReachesOver
  <2> QED BY <1>1, <1>4, <2>1, <2>3
<1>9. ASSUME w.end # Len(t), Continues(t[w.end + 1]) PROVE FALSE
  <2>1. w.end + 1 \in 1 .. Len(t) /\ (w.end + 1) - 1 = w.end
    BY <1>2, <1>6, <1>9
  <2>2. PICK j \in 1 .. w.end : j + Width[t[j]] > w.end + 1
    BY <1>9, <2>1, TextAt
  <2>3. w.end = i + n - 1
    BY <1>1, <1>4
  <2>4. ~ (j > i)
    <3>1. ASSUME j > i PROVE Width[t[j]] = 0
      <4>1. j \in i + 1 .. i + n - 1
        BY <1>6, <2>3, <3>1
      <4> QED BY <1>5, <4>1 DEF Continues
    <3> QED BY <1>6, <2>2, <3>1
  <2>5. j # i
    BY <1>4, <2>2, <2>3
  <2>6. j \in 1 .. w.start
    BY <1>1, <1>6, <2>4, <2>5
  <2>7. j + Width[t[j]] <= w.start + 1
    BY <1>7, <2>6, NoneReachesOver
  <2>8. j \in 1 .. Len(t)
    BY <1>2, <1>6, <2>6
  <2>9. Width[t[j]] \in Nat
    BY <2>8, TextAt
  <2> QED BY <1>6, <2>2, <2>6, <2>7, <2>9
<1>10. IsBoundary(t, w.end)
  BY <1>2, <1>6, <1>9 DEF IsBoundary
<1> QED BY <1>6, <1>7, <1>8, <1>10

\* A text has finitely many wide characters.
LEMMA WidesFinite ==
  ASSUME NEW t, IsText(t)
  PROVE  IsFiniteSet(NewIndex(t).wide)
<1>0. PICK n \in Nat : n = Len(t)
  BY DEF IsText
<1>1. PICK W : W = NewIndex(t).wide /\ n = Len(t)
  BY <1>0
<1>2. PICK f : f = [w \in W |-> w.start]
  OBVIOUS
<1>3. IsFiniteSet(0 .. n)
  BY FS_Interval
<1>4. f \in [W -> 0 .. n]
  <2>1. \A w \in W : w.start \in 0 .. n
    BY <1>1, WideEnds
  <2> QED BY <1>2, <2>1
<1>5. ASSUME NEW v \in W, NEW w \in W, f[v] = f[w] PROVE v = w
  <2>1. v.start = w.start
    BY <1>2, <1>5
  <2>2. PICK i \in 1 .. n : v.start = i - 1 /\ v.end = (i - 1) + Width[t[i]]
    BY <1>1, IndexWide
  <2>3. PICK j \in 1 .. n : w.start = j - 1 /\ w.end = (j - 1) + Width[t[j]]
    BY <1>1, IndexWide
  <2>4. i = j
    <3>1. i - 1 = j - 1
      BY <2>1, <2>2, <2>3, Zenon
    <3>2. i \in Int /\ j \in Int
      OBVIOUS
    <3> QED BY <3>1, <3>2
  <2>5. v.end = w.end
    BY <2>2, <2>3, <2>4
  <2>6. v \in Wides /\ w \in Wides
    BY <1>1, IndexWide
  <2> QED BY <2>1, <2>5, <2>6 DEF Wides
<1>6. f \in Injection(W, 0 .. n)
  BY <1>4, <1>5 DEF Injection, IsInjective
<1> QED BY <1>1, <1>3, <1>6, FS_Injection

\* Without a wide character between two offsets every offset is a boundary.
LEMMA PlainBoundaries ==
  ASSUME NEW t, IsText(t), NEW a \in Nat, NEW b \in 0 .. Len(t),
         \A w \in NewIndex(t).wide : w.end <= a \/ w.start >= b
  PROVE  \A o \in a .. b : IsBoundary(t, o)
<1> SUFFICES ASSUME NEW o \in a .. b, o # Len(t), Continues(t[o + 1]) PROVE FALSE
  <2>1. Len(t) \in Nat
    BY DEF IsText
  <2>2. \A o \in a .. b : o \in 0 .. Len(t)
    BY <2>1
  <2> QED BY <2>2 DEF IsBoundary
<1>1. Len(t) \in Nat
  BY DEF IsText
<1>2. o + 1 \in 1 .. Len(t) /\ (o + 1) - 1 = o
  BY <1>1
<1>3. PICK j \in 1 .. o : j + Width[t[j]] > o + 1
  BY <1>2, TextAt
<1>4. j \in 1 .. Len(t)
  BY <1>1
<1>5. Width[t[j]] \in Nat /\ Width[t[j]] > 1
  <2>1. Width[t[j]] \in Nat
    BY <1>4, TextAt
  <2> QED BY <1>3, <2>1
<1>6. PICK w \in NewIndex(t).wide : w.start = j - 1 /\ w.end = (j - 1) + Width[t[j]]
  BY <1>4, <1>5, IndexWide
<1>7. w.end <= a \/ w.start >= b
  OBVIOUS
<1> QED BY <1>3, <1>5, <1>6, <1>7

-----------------------------------------------------------------------------
(* Offsets, columns and back.                                              *)

Passed(t, from, o) == {w \in NewIndex(t).wide : w.start >= from /\ w.end <= o}

Col(t, from, o) == ColIn(NewIndex(t), from, o, Encoding)

\* col_in is the distance minus the shortfall of what lies between.
LEMMA ColIs ==
  ASSUME NEW t, IsText(t), NEW from \in Nat, NEW o \in Nat
  PROVE  /\ Col(t, from, o) = (o - from) - Shortfall(Passed(t, from, o), Encoding)
         /\ Shortfall(Passed(t, from, o), Encoding) \in Nat
         /\ Col(t, from, o) \in Int
<1>1. PICK S : S = Passed(t, from, o)
  OBVIOUS
<1>2. S \in SUBSET NewIndex(t).wide
  BY <1>1 DEF Passed
<1>3. S \in SUBSET Wides /\ IsFiniteSet(S)
  BY <1>2, IndexWide, WidesFinite, FS_Subset
<1>4. Shortfall(S, Encoding) \in Nat
  BY <1>3, TextEditsAssumption, ShortfallAdd
<1>5. Col(t, from, o) = (o - from) - Shortfall(S, Encoding)
  BY <1>1, Zenon DEF Col, ColIn, Passed, Shortfall, FoldSet, MapThenFoldSet
<1> QED BY <1>1, <1>4, <1>5

\* A byte that no wide character ends after is a column.
LEMMA ColPlain ==
  ASSUME NEW t, IsText(t), NEW from \in Nat, NEW a \in Nat, NEW b \in Nat,
         Passed(t, from, a) = Passed(t, from, b)
  PROVE  Col(t, from, b) - Col(t, from, a) = b - a
<1>1. PICK n \in Nat : n = Shortfall(Passed(t, from, a), Encoding)
  BY ColIs
<1>2. Col(t, from, a) = (a - from) - n /\ Col(t, from, b) = (b - from) - n
  BY <1>1, ColIs
<1> QED BY <1>2

\* A wide character is its units.
LEMMA ColWide ==
  ASSUME NEW t, IsText(t), NEW from \in Nat, NEW w \in NewIndex(t).wide, w.start >= from
  PROVE  /\ Col(t, from, w.end) = Col(t, from, w.start) + Units(w, Encoding)
         /\ Col(t, from, w.start) < Col(t, from, w.end)
<1>1. w \in Wides /\ Encoding \in Encodings
  BY IndexWide, TextEditsAssumption
<1>2. /\ w.start \in Nat /\ w.end \in Nat /\ w.start < w.end
      /\ IsBoundary(t, w.start) /\ IsBoundary(t, w.end)
  BY WideEnds
<1>3. PICK S, R : S = Passed(t, from, w.end) /\ R = Passed(t, from, w.start)
  OBVIOUS
<1>4. w \in S
  BY <1>2, <1>3 DEF Passed
<1>5. R = S \ {w}
  <2>1. ASSUME NEW v \in NewIndex(t).wide, v.start >= from
        PROVE  v.end <= w.start <=> v.end <= w.end /\ v # w
    <3>1. /\ v.start \in Nat /\ v.end \in Nat /\ v.start < v.end /\ IsBoundary(t, v.start)
          /\ (w.start <= v.start \/ v.end <= w.start)
      BY <1>2, WideEnds
    <3>2. v.start <= w.start \/ w.end <= v.start
      BY <3>1, WideEnds
    <3>3. v.start = w.start => v = w
      <4>1. PICK i \in 1 .. Len(t) : v.start = i - 1 /\ v.end = (i - 1) + Width[t[i]]
        BY IndexWide
      <4>2. PICK j \in 1 .. Len(t) : w.start = j - 1 /\ w.end = (j - 1) + Width[t[j]]
        BY IndexWide
      <4>3. v.start = w.start => i - 1 = j - 1
        BY <4>1, <4>2, Zenon
      <4>4. i \in Int /\ j \in Int
        OBVIOUS
      <4>5. v.start = w.start => i = j
        BY <4>3, <4>4
      <4>6. v.start = w.start => v.end = w.end
        BY <4>1, <4>2, <4>5
      <4>7. v \in Wides
        BY IndexWide
      <4> QED BY <1>1, <4>6, <4>7 DEF Wides
    <3>4. CASE v = w
      BY <1>2, <3>4
    <3>5. CASE v # w
      <4>1. v.start # w.start
        BY <3>3, <3>5
      <4> QED BY <1>2, <3>1, <3>2, <3>5, <4>1
    <3> QED BY <3>4, <3>5
  <2> QED BY <1>3, <2>1 DEF Passed
<1>6. S \in SUBSET NewIndex(t).wide
  BY <1>3 DEF Passed
<1>7. S \in SUBSET Wides /\ IsFiniteSet(S)
  BY <1>6, IndexWide, WidesFinite, FS_Subset
<1>8. Shortfall(S, Encoding) = Shortfall(R, Encoding) + Short(w, Encoding)
  BY <1>1, <1>4, <1>5, <1>7, ShortfallAdd
<1>9. /\ Col(t, from, w.end) = (w.end - from) - Shortfall(S, Encoding)
      /\ Col(t, from, w.start) = (w.start - from) - Shortfall(R, Encoding)
      /\ Shortfall(R, Encoding) \in Nat
  BY <1>2, <1>3, ColIs
<1>10. Units(w, Encoding) \in Nat /\ Units(w, Encoding) >= 1 /\ Short(w, Encoding) = (w.end - w.start) - Units(w, Encoding)
  BY <1>1, ShortType DEF Short
<1> QED BY <1>2, <1>8, <1>9, <1>10

\* Columns grow from boundary to boundary.
LEMMA ColGrows ==
  ASSUME NEW t, IsText(t), NEW from \in Nat, NEW a, NEW b,
         IsBoundary(t, a), IsBoundary(t, b), from <= a, a < b
  PROVE  Col(t, from, a) < Col(t, from, b)
<1> DEFINE T == {x \in 0 .. Len(t) : IsBoundary(t, x) /\ a < x /\ ~ (Col(t, from, a) < Col(t, from, x))}
<1>0. Len(t) \in Nat /\ a \in 0 .. Len(t) /\ b \in 0 .. Len(t) /\ a \in Nat
  BY DEF IsText, IsBoundary
<1> SUFFICES ASSUME T # {} PROVE FALSE
  BY <1>0
<1>1. PICK x \in T : \A y \in T : x <= y
  <2>1. T \subseteq Nat
    BY <1>0
  <2> HIDE DEF T
  <2> QED BY <2>1, LeastNatural
<1>2. /\ x \in 0 .. Len(t) /\ x \in Nat /\ IsBoundary(t, x) /\ a < x
      /\ ~ (Col(t, from, a) < Col(t, from, x))
  BY <1>0, <1>1
<1>3. ASSUME NEW y, IsBoundary(t, y), a <= y, y < x
      PROVE  Col(t, from, a) <= Col(t, from, y)
  <2>1. y \in 0 .. Len(t) /\ y \in Nat
    BY <1>0, <1>3 DEF IsBoundary
  <2>2. y \notin T
    BY <1>1, <1>2, <1>3, <2>1
  <2>3. CASE y = a
    <3>1. Col(t, from, a) \in Int
      BY <1>0, ColIs
    <3> QED BY <2>3, <3>1
  <2>4. CASE a < y
    <3>1. Col(t, from, a) < Col(t, from, y)
      BY <1>3, <2>1, <2>2, <2>4
    <3>2. Col(t, from, a) \in Int /\ Col(t, from, y) \in Int
      BY <1>0, <2>1, ColIs
    <3> QED BY <3>1, <3>2
  <2> QED BY <1>0, <1>3, <2>1, <2>3, <2>4
<1>4. CASE \E w \in NewIndex(t).wide : w.end = x
  <2>1. PICK w \in NewIndex(t).wide : w.end = x
    BY <1>4
  <2>2. /\ w.start \in Nat /\ w.start < x /\ IsBoundary(t, w.start)
        /\ (a <= w.start \/ w.end <= a)
    BY <2>1, WideEnds
  <2>3. a <= w.start /\ from <= w.start
    BY <1>0, <1>2, <2>1, <2>2
  <2>4. Col(t, from, a) <= Col(t, from, w.start)
    BY <1>3, <2>2, <2>3
  <2>5. Col(t, from, w.start) < Col(t, from, x)
    BY <2>1, <2>3, ColWide
  <2>6. Col(t, from, a) \in Int /\ Col(t, from, w.start) \in Int /\ Col(t, from, x) \in Int
    BY <1>0, <1>2, <2>2, ColIs
  <2> QED BY <1>2, <2>4, <2>5, <2>6
<1>5. CASE ~ \E w \in NewIndex(t).wide : w.end = x
  <2>1. PICK y \in Nat : y = x - 1
    BY <1>0, <1>2
  <2>2. x = y + 1 /\ a <= y /\ y < x /\ from <= y
    BY <1>0, <1>2, <2>1
  <2>3. \A w \in NewIndex(t).wide : w.end <= y <=> w.end <= x
    <3>1. \A w \in NewIndex(t).wide : w.end \in Nat /\ w.end # x
      BY <1>5, WideEnds
    <3> QED BY <2>2, <3>1
  <2>4. Passed(t, from, y) = Passed(t, from, x)
    BY <2>3 DEF Passed
  <2>5. Col(t, from, x) - Col(t, from, y) = x - y
    BY <1>2, <2>4, ColPlain
  <2>6. IsBoundary(t, y)
    <3>1. \A w \in NewIndex(t).wide : w.end <= y \/ w.start >= x
      <4>1. \A w \in NewIndex(t).wide : /\ w.end \in Nat /\ w.end # x
                                        /\ x <= w.start \/ w.end <= x
        BY <1>2, <1>5, WideEnds
      <4>2. \A w \in NewIndex(t).wide : w.start \in Nat
        BY WideEnds
      <4> QED BY <2>2, <4>1, <4>2
    <3>2. y \in y .. x
      BY <2>2
    <3> QED BY <1>2, <3>1, <3>2, PlainBoundaries
  <2>7. Col(t, from, a) <= Col(t, from, y)
    BY <1>3, <2>2, <2>6
  <2>8. Col(t, from, a) \in Int /\ Col(t, from, y) \in Int /\ Col(t, from, x) \in Int
    BY <1>0, <1>2, ColIs
  <2> QED BY <1>2, <2>2, <2>5, <2>7, <2>8
<1> QED BY <1>4, <1>5

\* The start of the next line, or the end of the text.
LineEnd(t, line) ==
  IF line + 1 = Cardinality(NewIndex(t).lines) THEN NewIndex(t).len
  ELSE LineStart(NewIndex(t), line + 1)

\* A line lies in its text, between characters.
LEMMA LineBounds ==
  ASSUME NEW t, IsText(t), NEW line \in Nat, line < Cardinality(NewIndex(t).lines)
  PROVE  /\ LineStart(NewIndex(t), line) \in Nat /\ LineEnd(t, line) \in Nat
         /\ LineStart(NewIndex(t), line) <= LineEnd(t, line) /\ LineEnd(t, line) <= Len(t)
         /\ IsBoundary(t, LineStart(NewIndex(t), line)) /\ IsBoundary(t, LineEnd(t, line))
<1>1. PICK n \in Nat, L \in SUBSET (0 .. Len(t)) : L = NewIndex(t).lines /\ n = Len(t) /\ NewIndex(t).len = n
  BY IndexLines
<1>2. /\ IsFiniteSet(L) /\ Cardinality(L) \in Nat
      /\ \A x \in L : x \in Nat /\ x <= n /\ Cardinality(Before(L, x)) \in Nat
      /\ \A x, r \in L : x < r => Cardinality(Before(L, x)) < Cardinality(Before(L, r))
  <2>1. L \in SUBSET (0 .. n) /\ \A x \in L : x \in Nat /\ x <= n
    BY <1>1
  <2> QED BY <2>1, Ranks
<1>3. PICK s : s = LineStart(NewIndex(t), line)
  OBVIOUS
<1>4. s \in L /\ Cardinality(Before(L, s)) = line
  BY <1>1, <1>3, LineStartIs
<1>5. CASE line + 1 = Cardinality(L)
  <2>1. LineEnd(t, line) = n
    BY <1>1, <1>5 DEF LineEnd
  <2> QED BY <1>1, <1>2, <1>3, <1>4, <2>1, IndexLines, TextEnds
<1>6. CASE line + 1 # Cardinality(L)
  <2>1. PICK e : e = LineStart(NewIndex(t), line + 1)
    OBVIOUS
  <2>2. LineEnd(t, line) = e
    BY <1>1, <1>6, <2>1 DEF LineEnd
  <2>3. line + 1 \in Nat /\ line + 1 < Cardinality(L)
    BY <1>1, <1>2, <1>6
  <2>4. e \in L /\ Cardinality(Before(L, e)) = line + 1
    BY <1>1, <2>1, <2>3, LineStartIs
  <2>5. ~ (e < s)
    BY <1>2, <1>4, <2>4
  <2>6. s <= e
    BY <1>2, <1>4, <2>4, <2>5
  <2> QED BY <1>1, <1>2, <1>3, <1>4, <2>2, <2>4, <2>6, IndexLines
<1> QED BY <1>5, <1>6

\* Where byte_at_col's walk over a line ends at the latest: a boundary of the
\* line, the first character or end of line that the column does not reach.
IsStop(t, from, to, column, stop) ==
  /\ stop \in Nat /\ from <= stop /\ stop <= to /\ IsBoundary(t, stop)
  /\ \A w \in NewIndex(t).wide :
       w.start >= from /\ w.start < stop =>
         Col(t, from, w.start) + Units(w, Encoding) <= column
  /\ \/ stop = to
     \/ \E w \in NewIndex(t).wide :
          w.start = stop /\ Col(t, from, w.start) + Units(w, Encoding) > column

\* The walk of byte_at_col stops, and where.
LEMMA StopIs ==
  ASSUME NEW t, IsText(t), NEW from \in Nat, NEW to \in Nat, from <= to, IsBoundary(t, to),
         NEW column \in Nat
  PROVE  IsStop(t, from, to, column, Stop(NewIndex(t), from, to, column, Encoding))
<1> DEFINE N == NotPassed(NewIndex(t), from, to, column, Encoding)
           stops == {to} \cup {w.start : w \in N}
<1>1. PICK stop \in stops : \A x \in stops : stop <= x
  <2>1. stops \subseteq Nat /\ stops # {}
    BY WideEnds DEF NotPassed
  <2> HIDE DEF stops
  <2> QED BY <2>1, LeastNatural
<1>2. Stop(NewIndex(t), from, to, column, Encoding) \in stops
      /\ \A x \in stops : Stop(NewIndex(t), from, to, column, Encoding) <= x
  BY <1>1, Zenon DEF Stop
<1>3. PICK s : s = Stop(NewIndex(t), from, to, column, Encoding)
  OBVIOUS
<1>4. s \in stops /\ \A x \in stops : s <= x
  BY <1>2, <1>3
<1>5. \A w \in NewIndex(t).wide :
        /\ w.start \in Nat /\ IsBoundary(t, w.start)
        /\ Col(t, from, w.start) \in Int /\ Units(w, Encoding) \in Nat
  BY WideEnds, ColIs, IndexWide, ShortType, TextEditsAssumption
<1>6. \A w \in N : /\ w \in NewIndex(t).wide /\ from <= w.start /\ w.start < to
                   /\ Col(t, from, w.start) + Units(w, Encoding) > column
  BY <1>5 DEF NotPassed, Col
<1>7. s \in Nat /\ from <= s /\ s <= to /\ IsBoundary(t, s)
  <2>1. CASE s = to
    BY <2>1
  <2>2. CASE \E w \in N : s = w.start
    BY <1>5, <1>6, <2>2
  <2> QED BY <1>4, <2>1, <2>2
<1>8. ASSUME NEW w \in NewIndex(t).wide, w.start >= from, w.start < s
      PROVE  Col(t, from, w.start) + Units(w, Encoding) <= column
  <2>1. w \notin N
    BY <1>4, <1>5, <1>7, <1>8
  <2>2. w.start < to /\ from <= w.start
    BY <1>5, <1>7, <1>8
  <2>3. ~ (Col(t, from, w.start) + Units(w, Encoding) > column)
    BY <2>1, <2>2 DEF NotPassed, Col
  <2> QED BY <1>5, <2>3
<1>9. s = to \/ \E w \in NewIndex(t).wide :
          w.start = s /\ Col(t, from, w.start) + Units(w, Encoding) > column
  BY <1>4, <1>6
<1> QED BY <1>3, <1>7, <1>8, <1>9 DEF IsStop

\* byte_at_col, from where the walk ends.
LEMMA ByteAtIs ==
  ASSUME NEW t, IsText(t), NEW p \in [line : Nat, character : Nat]
  PROVE  \/ /\ p.line >= Cardinality(NewIndex(t).lines)
            /\ ByteAt(NewIndex(t), p, Encoding) = Len(t)
         \/ /\ p.line < Cardinality(NewIndex(t).lines)
            /\ \E stop :
                 /\ IsStop(t, LineStart(NewIndex(t), p.line), LineEnd(t, p.line), p.character, stop)
                 /\ ByteAt(NewIndex(t), p, Encoding) =
                      LET beyond == Col(t, LineStart(NewIndex(t), p.line), stop) - p.character
                      IN  IF beyond > 0 THEN stop - beyond ELSE stop
<1>1. p.line \in Nat /\ p.character \in Nat
  OBVIOUS
<1>2. Cardinality(NewIndex(t).lines) \in Nat /\ NewIndex(t).len = Len(t)
  <2>1. PICK n \in Nat : n = Len(t) /\ NewIndex(t).lines \in SUBSET (0 .. n) /\ NewIndex(t).len = n
    BY IndexLines
  <2>2. Cardinality(NewIndex(t).lines) \in Nat
    BY <2>1, Ranks
  <2> QED BY <2>1, <2>2
<1>3. CASE p.line >= Cardinality(NewIndex(t).lines)
  BY <1>2, <1>3 DEF ByteAt
<1>4. CASE ~ (p.line >= Cardinality(NewIndex(t).lines))
  <2>1. p.line < Cardinality(NewIndex(t).lines)
    BY <1>1, <1>2, <1>4
  <2>2. PICK from, to : from = LineStart(NewIndex(t), p.line) /\ to = LineEnd(t, p.line)
    OBVIOUS
  <2>3. from \in Nat /\ to \in Nat /\ from <= to /\ IsBoundary(t, to)
    BY <1>1, <2>1, <2>2, LineBounds
  <2>4. PICK stop : stop = Stop(NewIndex(t), from, to, p.character, Encoding)
    OBVIOUS
  <2>5. IsStop(t, from, to, p.character, stop)
    BY <1>1, <2>3, <2>4, StopIs
  <2>6. ByteAt(NewIndex(t), p, Encoding) =
          IF Col(t, from, stop) - p.character > 0
          THEN stop - (Col(t, from, stop) - p.character) ELSE stop
    BY <1>4, <2>2, <2>4, Zenon DEF ByteAt, LineEnd, Col
  <2> QED BY <2>1, <2>2, <2>5, <2>6
<1> QED BY <1>3, <1>4

\* What position_to_byte finds on a line: the boundary at the column, or the
\* last one before it, and no later boundary of the line is.
LEMMA ByteAtColumn ==
  ASSUME NEW t, IsText(t), NEW from \in Nat, NEW to \in Nat, IsBoundary(t, from),
         NEW column \in Nat, NEW stop, IsStop(t, from, to, column, stop),
         NEW o, o = IF Col(t, from, stop) - column > 0
                    THEN stop - (Col(t, from, stop) - column) ELSE stop
  PROVE  /\ IsBoundary(t, o) /\ from <= o /\ o <= stop /\ Col(t, from, o) <= column
         /\ \A x : IsBoundary(t, x) /\ o < x /\ (stop < x => stop # to) =>
              Col(t, from, x) > column
<1>0. /\ stop \in Nat /\ from <= stop /\ stop <= to /\ IsBoundary(t, stop)
      /\ \A w \in NewIndex(t).wide :
           w.start >= from /\ w.start < stop =>
             Col(t, from, w.start) + Units(w, Encoding) <= column
      /\ \/ stop = to
         \/ \E w \in NewIndex(t).wide :
              w.start = stop /\ Col(t, from, w.start) + Units(w, Encoding) > column
  BY DEF IsStop
<1>1. PICK n \in Nat : n = Len(t) /\ stop <= n
  BY <1>0 DEF IsText, IsBoundary
<1>2. \A w \in NewIndex(t).wide :
        /\ w.start \in Nat /\ w.end \in Nat /\ w.start < w.end /\ w.end <= n
        /\ IsBoundary(t, w.start) /\ IsBoundary(t, w.end)
        /\ \A x : IsBoundary(t, x) => x <= w.start \/ w.end <= x
  BY <1>1, WideEnds
<1>3. \A x \in Nat : Col(t, from, x) \in Int
  BY ColIs
<1>4. \A x : IsBoundary(t, x) => x \in Nat
  BY <1>1 DEF IsBoundary
<1>5. CASE Col(t, from, stop) <= column
  <2>1. o = stop
    BY <1>0, <1>3, <1>5
  <2>2. ASSUME NEW x, IsBoundary(t, x), stop < x, stop # to PROVE Col(t, from, x) > column
    <3>1. PICK w \in NewIndex(t).wide : /\ w.start = stop
                                        /\ Col(t, from, w.start) + Units(w, Encoding) > column
      BY <1>0, <2>2
    <3>2. Col(t, from, w.end) > column
      BY <1>0, <3>1, ColWide
    <3>3. w.end <= x
      BY <1>0, <1>2, <1>4, <2>2, <3>1
    <3>4. x = w.end \/ Col(t, from, w.end) < Col(t, from, x)
      <4>1. from <= w.end /\ w.end \in Nat /\ x \in Nat
        BY <1>0, <1>2, <1>4, <2>2, <3>1
      <4>2. ASSUME x # w.end PROVE Col(t, from, w.end) < Col(t, from, x)
        <5>1. w.end < x
          BY <3>3, <4>1, <4>2
        <5> QED BY <1>2, <2>2, <4>1, <5>1, ColGrows
      <4> QED BY <4>2
    <3>5. Col(t, from, w.end) \in Int /\ Col(t, from, x) \in Int
      BY <1>2, <1>3, <1>4, <2>2
    <3> QED BY <3>2, <3>4, <3>5
  <2> QED BY <1>0, <1>5, <2>1, <2>2
<1>6. CASE ~ (Col(t, from, stop) <= column)
  <2> DEFINE ends == {from} \cup {e \in 0 .. stop : \E w \in NewIndex(t).wide : w.end = e /\ w.start >= from}
  <2>1. PICK b : b = Largest(ends)
    OBVIOUS
  <2>2. b \in ends /\ \A e \in ends : e <= b
    <3>1. ends \subseteq 0 .. stop /\ ends # {}
      BY <1>0
    <3> HIDE DEF ends
    <3> QED BY <1>0, <2>1, <3>1, LargestOf
  <2>3. b \in Nat /\ from <= b /\ b <= stop /\ IsBoundary(t, b)
    <3>1. from \in ends
      OBVIOUS
    <3>2. b \in 0 .. stop /\ from <= b
      BY <1>0, <2>2, <3>1
    <3>3. IsBoundary(t, b)
      BY <1>2, <2>2
    <3> QED BY <1>0, <3>2, <3>3
  <2>4. Col(t, from, b) <= column
    <3>1. CASE b = from
      <4>1. Passed(t, from, from) = {}
        BY <1>2 DEF Passed
      <4>2. Col(t, from, from) = (from - from) - Shortfall({}, Encoding)
        <5>1. Col(t, from, from) = (from - from) - Shortfall(Passed(t, from, from), Encoding)
          BY ColIs
        <5> QED BY <4>1, <5>1
      <4>3. Shortfall({}, Encoding) = 0
        BY TextEditsAssumption, NoShortfall
      <4> QED BY <3>1, <4>2, <4>3
    <3>2. CASE \E w \in NewIndex(t).wide : w.end = b /\ w.start >= from
      <4>1. PICK w \in NewIndex(t).wide : w.end = b /\ w.start >= from
        BY <3>2
      <4>2. w.start < stop
        BY <1>0, <1>2, <2>3, <4>1
      <4>3. Col(t, from, w.start) + Units(w, Encoding) <= column
        BY <1>0, <4>1, <4>2
      <4> QED BY <4>1, <4>3, ColWide
    <3> QED BY <2>2, <3>1, <3>2
  <2>5. \A w \in NewIndex(t).wide : w.start >= from /\ w.end <= stop => w.end <= b
    <3> SUFFICES ASSUME NEW w \in NewIndex(t).wide, w.start >= from, w.end <= stop
                 PROVE  w.end \in ends
      BY <2>2
    <3> QED BY <1>0, <1>2
  <2>6. \A x \in b .. stop : /\ x \in Nat /\ IsBoundary(t, x)
                             /\ Col(t, from, x) - Col(t, from, b) = x - b
    <3>1. \A w \in NewIndex(t).wide : w.end <= b \/ w.start >= stop
      <4> SUFFICES ASSUME NEW w \in NewIndex(t).wide, ~ (w.end <= b) PROVE w.start >= stop
        OBVIOUS
      <4>1. stop <= w.start \/ w.end <= stop
        BY <1>0, <1>2
      <4>2. b <= w.start
        BY <1>2, <2>3
      <4>3. from <= w.start
        BY <1>2, <2>3, <4>2
      <4> QED BY <1>0, <1>2, <2>5, <4>1, <4>3
    <3>2. stop \in 0 .. Len(t)
      BY <1>0, <1>1
    <3>3. \A x \in b .. stop : IsBoundary(t, x)
      BY <2>3, <3>1, <3>2, PlainBoundaries
    <3>4. ASSUME NEW x \in b .. stop PROVE Col(t, from, x) - Col(t, from, b) = x - b
      <4>1. x \in Nat /\ b <= x /\ x <= stop
        BY <1>0, <2>3
      <4>2. ASSUME NEW w \in NewIndex(t).wide PROVE w.end <= b <=> w.end <= x
        <5>1. w.end \in Nat /\ w.start \in Nat /\ w.start < w.end
          BY <1>2
        <5>2. w.end <= b \/ w.start >= stop
          BY <3>1
        <5> QED BY <1>0, <2>3, <4>1, <5>1, <5>2
      <4>3. Passed(t, from, b) = Passed(t, from, x)
        BY <4>2 DEF Passed
      <4> QED BY <2>3, <4>1, <4>3, ColPlain
    <3> QED BY <2>3, <3>3, <3>4
  <2>7. /\ stop \in b .. stop /\ b \in Nat
        /\ Col(t, from, stop) \in Int /\ Col(t, from, b) \in Int
        /\ Col(t, from, stop) - Col(t, from, b) = stop - b
    <3>1. stop \in b .. stop
      BY <1>0, <2>3
    <3> QED BY <1>0, <1>3, <2>3, <2>6, <3>1
  <2>8. o = stop - (Col(t, from, stop) - column)
    BY <1>6, <2>7
  <2>9. o \in b .. stop /\ o < stop /\ o - b = column - Col(t, from, b)
    BY <1>0, <1>6, <2>3, <2>4, <2>7, <2>8
  <2>10. o \in Nat /\ IsBoundary(t, o) /\ Col(t, from, o) - Col(t, from, b) = o - b
    BY <2>6, <2>9
  <2>11. Col(t, from, o) \in Int
    BY <1>3, <2>10
  <2>12. Col(t, from, o) = column
    BY <2>7, <2>9, <2>10, <2>11
  <2>13. ASSUME NEW x, IsBoundary(t, x), o < x PROVE Col(t, from, x) > column
    <3>1. from <= o
      BY <2>3, <2>9, <2>10
    <3>2. Col(t, from, o) < Col(t, from, x)
      BY <2>10, <2>13, <3>1, ColGrows
    <3>3. Col(t, from, x) \in Int
      BY <1>3, <1>4, <2>13
    <3> QED BY <2>12, <3>2, <3>3
  <2>14. from <= o /\ o <= stop
    BY <1>0, <2>3, <2>9, <2>10
  <2> QED BY <2>10, <2>12, <2>13, <2>14
<1>7. Col(t, from, stop) \in Int
  BY <1>0, <1>3
<1> QED BY <1>5, <1>6

\* A character boundary survives the way to a position and back.
LEMMA RoundTrip ==
  ASSUME NEW t, IsText(t), NEW o, IsBoundary(t, o)
  PROVE  ByteAt(NewIndex(t), BytePosition(NewIndex(t), o, Encoding), Encoding) = o
<1>1. PICK n \in Nat : n = Len(t) /\ o \in 0 .. n /\ o \in Nat /\ NewIndex(t).len = n
  BY IndexLines DEF IsBoundary
<1>2. PICK line : line = LineOf(NewIndex(t), o)
  OBVIOUS
<1>3. PICK from, to : from = LineStart(NewIndex(t), line) /\ to = LineEnd(t, line)
  OBVIOUS
<1>4. /\ line \in Nat /\ line < Cardinality(NewIndex(t).lines) /\ from <= o
      /\ line + 1 < Cardinality(NewIndex(t).lines) => o < LineStart(NewIndex(t), line + 1)
  <2>1. o \in 0 .. Len(t)
    BY <1>1
  <2> QED BY <1>2, <1>3, <2>1, LineOfIs
<1>5. from \in Nat /\ to \in Nat /\ from <= to /\ to <= n /\ IsBoundary(t, from) /\ IsBoundary(t, to)
  BY <1>1, <1>3, <1>4, LineBounds
<1>6. o <= to
  <2>1. Cardinality(NewIndex(t).lines) \in Nat
    <3>1. NewIndex(t).lines \in SUBSET (0 .. n)
      BY <1>1, IndexLines
    <3> QED BY <3>1, Ranks
  <2>2. CASE line + 1 = Cardinality(NewIndex(t).lines)
    BY <1>1, <1>3, <2>2 DEF LineEnd
  <2>3. CASE line + 1 # Cardinality(NewIndex(t).lines)
    <3>1. line + 1 < Cardinality(NewIndex(t).lines)
      BY <1>4, <2>1, <2>3
    <3>2. to = LineStart(NewIndex(t), line + 1)
      BY <1>3, <2>3 DEF LineEnd
    <3> QED BY <1>1, <1>4, <1>5, <3>1, <3>2
  <2> QED BY <2>2, <2>3
<1>7. PICK column : column = Col(t, from, o)
  OBVIOUS
<1>8. column \in Int /\ column >= 0
  <2>1. CASE from = o
    <3>1. Passed(t, from, from) = {}
      <4>1. \A w \in NewIndex(t).wide : w.start \in Nat /\ w.end \in Nat /\ w.start < w.end
        BY WideEnds
      <4> QED BY <1>5, <4>1 DEF Passed
    <3>2. Col(t, from, from) = (from - from) - Shortfall(Passed(t, from, from), Encoding)
      BY <1>5, ColIs
    <3>3. Shortfall({}, Encoding) = 0
      BY TextEditsAssumption, NoShortfall
    <3> QED BY <1>5, <1>7, <2>1, <3>1, <3>2, <3>3
  <2>2. CASE from # o
    <3>1. from < o
      BY <1>1, <1>4, <1>5, <2>2
    <3>2. Col(t, from, from) < Col(t, from, o)
      BY <1>5, <3>1, ColGrows
    <3>3. Col(t, from, from) = (from - from) - Shortfall(Passed(t, from, from), Encoding)
      BY <1>5, ColIs
    <3>4. Passed(t, from, from) = {}
      <4>1. \A w \in NewIndex(t).wide : w.start \in Nat /\ w.end \in Nat /\ w.start < w.end
        BY WideEnds
      <4> QED BY <1>5, <4>1 DEF Passed
    <3>5. Shortfall({}, Encoding) = 0
      BY TextEditsAssumption, NoShortfall
    <3>6. Col(t, from, o) \in Int
      BY <1>1, <1>5, ColIs
    <3> QED BY <1>5, <1>7, <3>2, <3>3, <3>4, <3>5, <3>6
  <2> QED BY <2>1, <2>2
<1>9. PICK p : p = [line |-> line, character |-> column]
  OBVIOUS
<1>10. BytePosition(NewIndex(t), o, Encoding) = p
  <2>1. (IF o < NewIndex(t).len THEN o ELSE NewIndex(t).len) = o
    BY <1>1
  <2> QED BY <2>1, <1>2, <1>3, <1>7, <1>9, Zenon DEF BytePosition, Col
<1>11. p \in [line : Nat, character : Nat] /\ p.line = line /\ p.character = column
  BY <1>4, <1>8, <1>9
<1>12. PICK stop : /\ IsStop(t, from, to, column, stop)
                   /\ ByteAt(NewIndex(t), p, Encoding) =
                        IF Col(t, from, stop) - column > 0
                        THEN stop - (Col(t, from, stop) - column) ELSE stop
  <2>1. ~ (p.line >= Cardinality(NewIndex(t).lines))
    <3>1. NewIndex(t).lines \in SUBSET (0 .. n)
      BY <1>1, IndexLines
    <3>2. Cardinality(NewIndex(t).lines) \in Nat
      BY <3>1, Ranks
    <3> QED BY <1>4, <1>11, <3>2
  <2>2. PICK s : /\ IsStop(t, LineStart(NewIndex(t), p.line), LineEnd(t, p.line), p.character, s)
                 /\ ByteAt(NewIndex(t), p, Encoding) =
                      LET beyond == Col(t, LineStart(NewIndex(t), p.line), s) - p.character
                      IN  IF beyond > 0 THEN s - beyond ELSE s
    BY <1>11, <2>1, ByteAtIs
  <2> QED BY <1>3, <1>11, <2>2
<1>13. PICK z : z = ByteAt(NewIndex(t), p, Encoding)
  OBVIOUS
<1>14. /\ IsBoundary(t, z) /\ from <= z /\ z <= stop /\ Col(t, from, z) <= column
       /\ \A x : IsBoundary(t, x) /\ z < x /\ (stop < x => stop # to) => Col(t, from, x) > column
  <2>1. column \in Nat
    BY <1>8
  <2> QED BY <1>5, <1>12, <1>13, <2>1, ByteAtColumn
<1>15. z \in Nat /\ stop \in Nat /\ stop <= to
  BY <1>1, <1>12, <1>14 DEF IsBoundary, IsStop
<1>16. ~ (z < o)
  <2> SUFFICES ASSUME z < o PROVE FALSE
    OBVIOUS
  <2>1. stop < o => stop # to
    BY <1>1, <1>5, <1>6, <1>15
  <2>2. Col(t, from, o) > column
    BY <1>14, <2>1
  <2> QED BY <1>7, <1>8, <2>2
<1>17. ~ (o < z)
  <2> SUFFICES ASSUME o < z PROVE FALSE
    OBVIOUS
  <2>1. Col(t, from, o) < Col(t, from, z)
    BY <1>4, <1>5, <1>14, ColGrows
  <2>2. Col(t, from, z) \in Int
    BY <1>5, <1>15, ColIs
  <2> QED BY <1>7, <1>8, <1>14, <2>1, <2>2
<1> QED BY <1>1, <1>10, <1>13, <1>15, <1>16, <1>17

\* Every position resolves to a character boundary; if that is on the line it
\* names, to the last one there at or before its column.
LEMMA Resolves ==
  ASSUME NEW t, IsText(t), NEW p \in [line : Nat, character : Nat],
         NEW o, o = ByteAt(NewIndex(t), p, Encoding)
  PROVE  /\ IsBoundary(t, o)
         /\ p.line < Cardinality(NewIndex(t).lines) /\ LineOf(NewIndex(t), o) = p.line =>
              /\ BytePosition(NewIndex(t), o, Encoding).character <= p.character
              /\ \A x \in o + 1 .. Len(t) :
                   LineOf(NewIndex(t), x) = p.line /\ IsBoundary(t, x) =>
                     BytePosition(NewIndex(t), x, Encoding).character > p.character
<1>1. PICK n \in Nat : n = Len(t) /\ NewIndex(t).len = n /\ NewIndex(t).lines \in SUBSET (0 .. n)
  BY IndexLines
<1>2. Cardinality(NewIndex(t).lines) \in Nat /\ p.line \in Nat /\ p.character \in Nat
  <2>1. Cardinality(NewIndex(t).lines) \in Nat
    BY <1>1, Ranks
  <2> QED BY <2>1
<1>3. CASE p.line >= Cardinality(NewIndex(t).lines)
  <2>1. o = Len(t)
    BY <1>2, <1>3, ByteAtIs
  <2> QED BY <1>2, <1>3, <2>1, TextEnds
<1>4. CASE ~ (p.line >= Cardinality(NewIndex(t).lines))
  <2>1. PICK from, to, column, line :
           /\ line = p.line /\ column = p.character
           /\ from = LineStart(NewIndex(t), line) /\ to = LineEnd(t, line)
    OBVIOUS
  <2>2. line \in Nat /\ column \in Nat /\ line < Cardinality(NewIndex(t).lines)
    BY <1>2, <1>4, <2>1
  <2>3. from \in Nat /\ to \in Nat /\ from <= to /\ to <= n /\ IsBoundary(t, from) /\ IsBoundary(t, to)
    BY <1>1, <2>1, <2>2, LineBounds
  <2>4. PICK stop : /\ IsStop(t, from, to, column, stop)
                    /\ o = IF Col(t, from, stop) - column > 0
                           THEN stop - (Col(t, from, stop) - column) ELSE stop
    <3>1. PICK s : /\ IsStop(t, LineStart(NewIndex(t), p.line), LineEnd(t, p.line), p.character, s)
                   /\ ByteAt(NewIndex(t), p, Encoding) =
                        LET beyond == Col(t, LineStart(NewIndex(t), p.line), s) - p.character
                        IN  IF beyond > 0 THEN s - beyond ELSE s
      BY <1>4, ByteAtIs
    <3> QED BY <2>1, <3>1
  <2>5. /\ IsBoundary(t, o) /\ from <= o /\ o <= stop /\ Col(t, from, o) <= column
        /\ \A x : IsBoundary(t, x) /\ o < x /\ (stop < x => stop # to) => Col(t, from, x) > column
    BY <2>2, <2>3, <2>4, ByteAtColumn
  <2>6. ASSUME NEW x \in 0 .. n, LineOf(NewIndex(t), x) = line
        PROVE  /\ BytePosition(NewIndex(t), x, Encoding).character = Col(t, from, x)
               /\ x \in Nat /\ (x <= to) /\ (to = n \/ x < to)
    <3>1. (IF x < NewIndex(t).len THEN x ELSE NewIndex(t).len) = x /\ x \in Nat /\ x \in 0 .. Len(t)
      BY <1>1
    <3>2. BytePosition(NewIndex(t), x, Encoding).character = Col(t, from, x)
      <4>1. BytePosition(NewIndex(t), x, Encoding) =
              [line |-> line, character |-> ColIn(NewIndex(t), from, x, Encoding)]
        BY <2>1, <2>6, <3>1, Zenon DEF BytePosition
      <4> QED BY <4>1 DEF Col
    <3>3. line + 1 < Cardinality(NewIndex(t).lines) => x < LineStart(NewIndex(t), line + 1)
      BY <2>6, <3>1, LineOfIs
    <3>4. CASE line + 1 = Cardinality(NewIndex(t).lines)
      <4>1. to = n
        BY <1>1, <2>1, <3>4 DEF LineEnd
      <4> QED BY <3>1, <3>2, <4>1
    <3>5. CASE line + 1 # Cardinality(NewIndex(t).lines)
      <4>1. line + 1 < Cardinality(NewIndex(t).lines)
        BY <1>2, <2>2, <3>5
      <4>2. to = LineStart(NewIndex(t), line + 1)
        BY <2>1, <3>5 DEF LineEnd
      <4> QED BY <2>3, <3>1, <3>2, <3>3, <4>1, <4>2
    <3> QED BY <3>4, <3>5
  <2>7. o \in 0 .. n /\ stop \in Nat /\ stop <= to
    BY <1>1, <2>4, <2>5 DEF IsBoundary, IsStop
  <2>8. ASSUME NEW x \in o + 1 .. Len(t), LineOf(NewIndex(t), x) = line, IsBoundary(t, x)
        PROVE  BytePosition(NewIndex(t), x, Encoding).character > column
    <3>1. x \in 0 .. n /\ o < x
      BY <1>1, <2>7
    <3>2. /\ BytePosition(NewIndex(t), x, Encoding).character = Col(t, from, x)
          /\ x \in Nat /\ x <= to /\ (to = n \/ x < to)
      BY <2>6, <2>8, <3>1
    <3>3. stop < x => stop # to
      BY <2>3, <2>7, <3>2
    <3> QED BY <2>5, <2>8, <3>1, <3>2, <3>3
  <2>9. LineOf(NewIndex(t), o) = line => BytePosition(NewIndex(t), o, Encoding).character <= column
    BY <2>5, <2>6, <2>7
  <2> QED BY <2>1, <2>5, <2>8, <2>9
<1> QED BY <1>3, <1>4

-----------------------------------------------------------------------------
(* What the handlers hand to each other.                                   *)

-----------------------------------------------------------------------------
(* The document.                                                           *)

EditType == [start : Nat, end : Nat, insert : {t \in Seq(Bytes) : IsText(t)}]

\* The coercion yields boundaries in order, those of the edit if it fits.
LEMMA ClampIs ==
  ASSUME NEW t, IsText(t), NEW from \in Nat, NEW to \in Nat
  PROVE  /\ IsBoundary(t, Clamp(t, from, to).start) /\ IsBoundary(t, Clamp(t, from, to).end)
         /\ Clamp(t, from, to).start \in Nat /\ Clamp(t, from, to).end \in Nat
         /\ Clamp(t, from, to).start <= Clamp(t, from, to).end
         /\ Clamp(t, from, to).end <= Len(t)
         /\ IsBoundary(t, from) /\ IsBoundary(t, to) /\ from <= to =>
              Clamp(t, from, to).start = from /\ Clamp(t, from, to).end = to
<1>1. PICK n \in Nat : n = Len(t)
  BY DEF IsText
<1>2. IsBoundary(t, 0) /\ IsBoundary(t, n) /\ \A o : IsBoundary(t, o) => o \in 0 .. n
  BY <1>1, TextEnds DEF IsBoundary
<1>3. PICK a : a = Smaller(from, n)
  OBVIOUS
<1>4. a \in Nat /\ a <= n /\ (from <= n => a = from)
  BY <1>3 DEF Smaller
<1>5. PICK b : b = Smaller(IF to < a THEN a ELSE to, n)
  OBVIOUS
<1>6. b \in Nat /\ a <= b /\ b <= n /\ (from <= to /\ to <= n => b = to)
  BY <1>3, <1>4, <1>5 DEF Smaller
<1> DEFINE starts == {o \in 0 .. a : IsBoundary(t, o)}
           ends == {o \in b .. n : IsBoundary(t, o)}
<1>7. PICK x : x = Largest(starts)
  OBVIOUS
<1>8. x \in starts /\ \A o \in starts : o <= x
  <2>1. starts \subseteq 0 .. a /\ starts # {}
    BY <1>2, <1>4
  <2> HIDE DEF starts
  <2> QED BY <1>4, <1>7, <2>1, LargestOf
<1>9. PICK e \in ends : \A o \in ends : e <= o
  <2>1. ends \subseteq Nat /\ ends # {}
    BY <1>2, <1>6
  <2> HIDE DEF ends
  <2> QED BY <2>1, LeastNatural
<1>10. \E o \in b .. n : IsBoundary(t, o) /\ \A p \in b .. o - 1 : ~ IsBoundary(t, p)
  <2>1. e \in b .. n /\ IsBoundary(t, e)
    BY <1>9
  <2>2. ASSUME NEW p \in b .. e - 1 PROVE ~ IsBoundary(t, p)
    <3>1. p \in b .. n /\ ~ (e <= p)
      BY <1>6, <2>1
    <3> QED BY <1>9, <3>1
  <2> QED BY <2>1, <2>2
<1>11. PICK y : y = CHOOSE o \in b .. n : IsBoundary(t, o) /\ \A p \in b .. o - 1 : ~ IsBoundary(t, p)
  OBVIOUS
<1>12. y \in b .. n /\ IsBoundary(t, y) /\ \A p \in b .. y - 1 : ~ IsBoundary(t, p)
  BY <1>10, <1>11
<1>13. Clamp(t, from, to) = [start |-> x, end |-> y]
  BY <1>1, <1>3, <1>5, <1>7, <1>11, Zenon DEF Clamp
<1>14. x \in Nat /\ y \in Nat /\ x <= y /\ y <= n /\ IsBoundary(t, x) /\ IsBoundary(t, y)
  BY <1>4, <1>6, <1>8, <1>12
<1>15. ASSUME IsBoundary(t, from), IsBoundary(t, to), from <= to
       PROVE  x = from /\ y = to
  <2>1. a = from /\ b = to
    BY <1>2, <1>4, <1>6, <1>15
  <2>2. from \in starts
    BY <1>4, <1>15, <2>1
  <2>3. x = from
    BY <1>4, <1>8, <2>1, <2>2
  <2>4. ~ (to \in b .. y - 1)
    BY <1>12, <1>15
  <2> QED BY <1>12, <2>1, <2>3, <2>4
<1> QED BY <1>1, <1>13, <1>14, <1>15

\* Positions resolve to offsets.
LEMMA ByteAtType ==
  ASSUME NEW t, IsText(t), NEW p \in Positions
  PROVE  ByteAt(NewIndex(t), p, Encoding) \in Nat
<1>1. p \in [line : Nat, character : Nat]
  BY TextEditsAssumption
<1>2. IsBoundary(t, ByteAt(NewIndex(t), p, Encoding))
  BY <1>1, Resolves
<1>3. Len(t) \in Nat
  BY DEF IsText
<1> QED BY <1>2, <1>3 DEF IsBoundary

\* No byte is marked.
LEMMA UnmarkedType ==
  ASSUME NEW t, t \in Seq(Bytes)
  PROVE  Unmarked(t) \in Seq(BOOLEAN) /\ Len(Unmarked(t)) = Len(t)
BY DEF Unmarked

\* The marks are spliced as the bytes are.
LEMMA SpliceMark ==
  ASSUME NEW m \in Seq(BOOLEAN), NEW insert \in Seq(BOOLEAN),
         NEW start \in Nat, NEW end \in Nat, start <= end, end <= Len(m)
  PROVE  /\ Splice(m, start, end, insert) \in Seq(BOOLEAN)
         /\ Len(Splice(m, start, end, insert)) = Len(m) - (end - start) + Len(insert)
<1>1. PICK n \in Nat, k \in Nat : n = Len(m) /\ k = Len(insert)
  OBVIOUS
<1>2. n - (end - start) + k \in Nat
  BY <1>1
<1>3. PICK s : s = Splice(m, start, end, insert)
  OBVIOUS
<1>4. s = [i \in 1 .. n - (end - start) + k |->
             IF i <= start THEN m[i]
             ELSE IF i <= start + k THEN insert[i - start]
             ELSE m[i - k + (end - start)]]
  BY <1>1, <1>3 DEF Splice
<1>5. ASSUME NEW i \in 1 .. n - (end - start) + k PROVE s[i] \in BOOLEAN
  <2>1. CASE i <= start
    <3>1. i \in 1 .. n
      BY <1>1, <2>1
    <3>2. s[i] = m[i]
      BY <1>4, <2>1
    <3> QED BY <1>1, <3>1, <3>2
  <2>2. CASE ~ (i <= start) /\ i <= start + k
    <3>1. i - start \in 1 .. k
      BY <2>2
    <3>2. s[i] = insert[i - start]
      BY <1>4, <2>2
    <3> QED BY <1>1, <3>1, <3>2
  <2>3. CASE ~ (i <= start) /\ ~ (i <= start + k)
    <3>1. i - k + (end - start) \in 1 .. n
      BY <1>1, <2>3
    <3>2. s[i] = m[i - k + (end - start)]
      BY <1>4, <2>3
    <3> QED BY <1>1, <3>1, <3>2
  <2> QED BY <2>1, <2>2, <2>3
<1>6. s \in Seq(BOOLEAN) /\ Len(s) = n - (end - start) + k
  BY <1>2, <1>4, <1>5
<1> QED BY <1>1, <1>3, <1>6

-----------------------------------------------------------------------------
(* Parses and ranges after a chain of edits.                               *)

\* A chain of edits that fits at every step is the texts it was checked on.
LEMMA CheckedIsApplied ==
  ASSUME NEW base, NEW edits, Len(edits) \in Nat, NEW tr, NEW last, NEW ap, NEW applied,
         IsTrace(tr, "check", [ok |-> TRUE, of |-> base], edits, last), last.ok,
         IsTrace(ap, "apply", base, edits, applied)
  PROVE  last.of = applied
<1>1. PICK n \in Nat : n = Len(edits)
  OBVIOUS
<1>2. /\ tr[0] = [ok |-> TRUE, of |-> base] /\ tr[n] = last /\ ap[0] = base /\ ap[n] = applied
      /\ \A k \in 1 .. n : tr[k] = Checked(tr[k - 1], edits[k])
      /\ \A k \in 1 .. n : ap[k] = Apply(edits[k], ap[k - 1])
  BY <1>1 DEF IsTrace, Step
<1> DEFINE G == {k \in Nat : tr[k].ok => tr[k].of = ap[k]}
<1>3. 0 \in G
  BY <1>2
<1>4. ASSUME NEW k \in 1 .. n, k - 1 \in G PROVE k \in G
  <2> SUFFICES ASSUME tr[k].ok PROVE tr[k].of = ap[k]
    OBVIOUS
  <2>1. tr[k] = Checked(tr[k - 1], edits[k]) /\ ap[k] = Apply(edits[k], ap[k - 1])
    BY <1>2
  <2>2. tr[k - 1].ok /\ tr[k].of = Apply(edits[k], tr[k - 1].of)
    <3>1. CASE tr[k - 1].ok /\ Fits(edits[k], tr[k - 1].of)
      <4>1. tr[k] = [ok |-> TRUE, of |-> Apply(edits[k], tr[k - 1].of)]
        BY <2>1, <3>1, Zenon DEF Checked
      <4> QED BY <3>1, <4>1
    <3>2. CASE ~ (tr[k - 1].ok /\ Fits(edits[k], tr[k - 1].of))
      <4>1. tr[k] = [ok |-> FALSE, of |-> <<>>]
        BY <2>1, <3>2, Zenon DEF Checked
      <4> QED BY <4>1
    <3> QED BY <3>1, <3>2
  <2> QED BY <1>4, <2>1, <2>2
<1>5. n \in G
  <2> HIDE DEF G
  <2>1. n \in 0 .. n
    OBVIOUS
  <2> QED BY <1>3, <1>4, <2>1, CountUp
<1> QED BY <1>2, <1>5

\* The parse after a lint is of the text that was asked for, whatever edits
\* were staged.
LEMMA ReparseIsExact ==
  ASSUME NEW prev, IsText(prev), NEW target, IsText(target), NEW E, NEW edits \in Seq(E)
  PROVE  Reparse(prev, edits, target) = target
<1>1. CASE edits # <<>> /\ EditsProduce(prev, edits, target)
  <2>1. PICK tr, last : /\ IsTrace(tr, "check", [ok |-> TRUE, of |-> prev], edits, last)
                        /\ last.ok /\ last.of = target
    BY <1>1, CheckTrace
  <2>2. PICK ap : IsTrace(ap, "apply", prev, edits, ApplyAll(prev, edits))
    BY ApplyTrace
  <2>3. Len(edits) \in Nat
    OBVIOUS
  <2>4. ApplyAll(prev, edits) = target
    BY <2>1, <2>2, <2>3, CheckedIsApplied
  <2>5. Reparse(prev, edits, target) = ApplyAll(prev, edits)
    BY <1>1, Zenon DEF Reparse, ApplyAll, FoldLeft, MapThenFoldSet
  <2> QED BY <2>4, <2>5
<1>2. CASE ~ (edits # <<>> /\ EditsProduce(prev, edits, target))
  <2>1. Reparse(prev, edits, target) = Apply(DiffEdit(prev, target), prev)
    BY <1>2, Zenon DEF Reparse
  <2> QED BY <2>1, DiffExact
<1> QED BY <1>1, <1>2

\* The same bytes, at another place of another sequence.
SameAt(s, a, t, b, n) == \A i \in 1 .. n : s[a + i] = t[b + i]

\* The range r of t, moved to m by an edit.
Lands(m, r, e, t, insert) ==
  /\ m.start \in Nat /\ m.end \in Nat /\ m.start < m.end
  /\ m.end <= Len(t) - (e.end - e.start) + Len(insert)
  /\ m.end - m.start = r.end - r.start
  /\ SameAt(Splice(t, e.start, e.end, insert), m.start, t, r.start, r.end - r.start)

\* A range an edit leaves alone finds its bytes, whatever they are, in the
\* edited sequence.
LEMMA MappedInBounds ==
  ASSUME NEW t, NEW insert, Len(t) \in Nat, Len(insert) \in Nat,
         NEW e, e.start \in Nat, e.end \in Nat, e.start <= e.end, e.end <= Len(t),
         Len(e.insert) = Len(insert),
         NEW r, r.start \in Nat, r.end \in Nat, r.start < r.end, r.end <= Len(t),
         MapRange(r, e) # NoRange
  PROVE  Lands(MapRange(r, e), r, e, t, insert)
<1>10. PICK m : m = MapRange(r, e) /\ m # NoRange
  OBVIOUS
<1>11. PICK start \in Nat, end \in Nat : start = e.start /\ end = e.end /\ start <= end
  OBVIOUS
<1>1. PICK n \in Nat, k \in Nat, a \in Nat, b \in Nat :
         n = Len(t) /\ k = Len(insert) /\ a = r.start /\ b = r.end
  OBVIOUS
<1>0. a < b /\ b <= n /\ start <= end /\ end <= n
  BY <1>1, <1>11
<1>2. PICK s : s = Splice(t, e.start, e.end, insert)
  OBVIOUS
<1>3. s = [i \in 1 .. n - (end - start) + k |->
             IF i <= start THEN t[i]
             ELSE IF i <= start + k THEN insert[i - start]
             ELSE t[i - k + (end - start)]]
  BY <1>1, <1>2, <1>11 DEF Splice
<1>4. Delta(e) = k - (end - start) /\ Delta(e) \in Int
  BY <1>1, <1>11 DEF Delta
<1>5. CASE b <= start
  <2>1. m = r
    BY <1>1, <1>5, <1>10, <1>11 DEF MapRange
  <2>2. ASSUME NEW i \in 1 .. b - a PROVE s[a + i] = t[a + i]
    <3>1. a + i \in 1 .. n - (end - start) + k /\ a + i <= start
      BY <1>0, <1>5
    <3> QED BY <1>3, <3>1
  <2>3. b <= n - (end - start) + k
    BY <1>0, <1>5
  <2> QED BY <1>0, <1>1, <1>2, <1>10, <1>11, <2>1, <2>2, <2>3 DEF SameAt, Lands
<1>6. CASE ~ (b <= start) /\ a >= end
  <2>1. PICK d \in Int : d = k - (end - start) /\ Delta(e) = d
    BY <1>4
  <2>2. m.start = a + d /\ m.end = b + d
    BY <1>0, <1>1, <1>6, <1>10, <1>11, <2>1 DEF MapRange
  <2>3. ASSUME NEW i \in 1 .. b - a PROVE s[(a + d) + i] = t[a + i]
    <3>1. /\ (a + d) + i \in 1 .. n - (end - start) + k
          /\ ~ ((a + d) + i <= start) /\ ~ ((a + d) + i <= start + k)
          /\ ((a + d) + i) - k + (end - start) = a + i
      BY <1>0, <1>6, <2>1
    <3> QED BY <1>3, <3>1
  <2>4. a + d \in Nat /\ b + d \in Nat /\ a + d < b + d /\ b + d <= n - (end - start) + k
        /\ (b + d) - (a + d) = b - a
    BY <1>0, <1>6, <2>1
  <2> QED BY <1>0, <1>1, <1>2, <1>10, <1>11, <2>2, <2>3, <2>4 DEF SameAt, Lands
<1>7. CASE ~ (b <= start) /\ ~ (a >= end)
  <2>1. m = NoRange
    BY <1>1, <1>7, <1>10, <1>11 DEF MapRange
  <2> QED BY <1>10, <2>1
<1> QED BY <1>5, <1>6, <1>7

\* The range m of t holds the bytes of the anchor's name, marked.
Holds(m, a, t, mk) ==
  /\ m.start \in Nat /\ m.end \in Nat /\ m.start < m.end /\ m.end <= Len(t)
  /\ m.end - m.start = a.range.end - a.range.start
  /\ SameAt(t, m.start, a.text, a.range.start, a.range.end - a.range.start)
  /\ \A i \in m.start + 1 .. m.end : mk[i]

\* As long as the recorded edits fit the texts they lead through, these are the
\* texts the buffer had, and the mapped range is the name a rename is prepared
\* on.
Follows(a, t, mk) ==
  \A tr, last, mr, m :
    /\ IsTrace(tr, "check", [ok |-> TRUE, of |-> a.text], a.edits, last) /\ last.ok
    /\ IsTrace(mr, "map", a.range, a.edits, m)
    => /\ last.of = t
       /\ m # NoRange => Holds(m, a, t, mk)

\* One more edit, recorded as resolved and taken as coerced.
LEMMA FollowsMore ==
  ASSUME NEW t, IsText(t), NEW mk \in Seq(BOOLEAN), Len(mk) = Len(t),
         NEW a, a.edits \in Seq(EditType), Follows(a, t, mk),
         NEW e \in EditType, NEW cut, cut = Clamp(t, e.start, e.end),
         NEW b, b.text = a.text, b.range = a.range, b.edits = a.edits \o <<e>>
  PROVE  Follows(b, Splice(t, cut.start, cut.end, e.insert),
                 Splice(mk, cut.start, cut.end, Unmarked(e.insert)))
<1>0. /\ e.start \in Nat /\ e.end \in Nat /\ IsText(e.insert)
      /\ e.insert \in Seq(Bytes) /\ Len(e.insert) \in Nat /\ Len(t) \in Nat
  BY DEF EditType, IsText
<1> SUFFICES ASSUME NEW tr, NEW last, NEW mr, NEW m,
                    IsTrace(tr, "check", [ok |-> TRUE, of |-> b.text], b.edits, last), last.ok,
                    IsTrace(mr, "map", b.range, b.edits, m)
             PROVE  /\ last.of = Splice(t, cut.start, cut.end, e.insert)
                    /\ m # NoRange => Holds(m, b, Splice(t, cut.start, cut.end, e.insert),
                                            Splice(mk, cut.start, cut.end, Unmarked(e.insert)))
  BY DEF Follows
<1>1. PICK n \in Nat : n = Len(a.edits)
  OBVIOUS
<1>2. /\ Len(b.edits) = n + 1 /\ b.edits[n + 1] = e
      /\ \A k \in 1 .. n : b.edits[k] = a.edits[k]
  BY <1>1
<1>3. /\ tr[0] = [ok |-> TRUE, of |-> a.text] /\ mr[0] = a.range
      /\ \A k \in 1 .. n : tr[k] = Step("check", tr[k - 1], a.edits[k])
      /\ \A k \in 1 .. n : mr[k] = Step("map", mr[k - 1], a.edits[k])
      /\ tr[n + 1] = Step("check", tr[n], e) /\ tr[n + 1] = last
      /\ mr[n + 1] = Step("map", mr[n], e) /\ mr[n + 1] = m
  <2>1. /\ tr[0] = [ok |-> TRUE, of |-> b.text] /\ mr[0] = b.range
        /\ \A k \in 1 .. n + 1 : tr[k] = Step("check", tr[k - 1], b.edits[k])
        /\ \A k \in 1 .. n + 1 : mr[k] = Step("map", mr[k - 1], b.edits[k])
        /\ tr[n + 1] = last /\ mr[n + 1] = m
    BY <1>2 DEF IsTrace
  <2>2. \A k \in 1 .. n : k \in 1 .. n + 1
    OBVIOUS
  <2>3. n + 1 \in 1 .. n + 1 /\ (n + 1) - 1 = n
    OBVIOUS
  <2>4. \A k \in 1 .. n : /\ tr[k] = Step("check", tr[k - 1], a.edits[k])
                          /\ mr[k] = Step("map", mr[k - 1], a.edits[k])
    BY <1>2, <2>1, <2>2
  <2>5. tr[n + 1] = Step("check", tr[n], e) /\ mr[n + 1] = Step("map", mr[n], e)
    BY <1>2, <2>1, <2>3
  <2> QED BY <2>1, <2>4, <2>5
<1>4. /\ IsTrace(tr, "check", [ok |-> TRUE, of |-> a.text], a.edits, tr[n])
      /\ IsTrace(mr, "map", a.range, a.edits, mr[n])
  BY <1>1, <1>3 DEF IsTrace
<1>5. last = Checked(tr[n], e) /\ m = IF mr[n] = NoRange THEN mr[n] ELSE MapRange(mr[n], e)
  BY <1>3 DEF Step
<1>6. tr[n].ok /\ Fits(e, tr[n].of) /\ last.of = Apply(e, tr[n].of)
  <2>1. CASE tr[n].ok /\ Fits(e, tr[n].of)
    <3>1. last = [ok |-> TRUE, of |-> Apply(e, tr[n].of)]
      BY <1>5, <2>1, Zenon DEF Checked
    <3> QED BY <2>1, <3>1
  <2>2. CASE ~ (tr[n].ok /\ Fits(e, tr[n].of))
    <3>1. last = [ok |-> FALSE, of |-> <<>>]
      BY <1>5, <2>2, Zenon DEF Checked
    <3> QED BY <3>1
  <2> QED BY <2>1, <2>2
<1>7. tr[n].of = t /\ (mr[n] # NoRange => Holds(mr[n], a, t, mk))
  BY <1>4, <1>6, Zenon DEF Follows
<1>8. /\ e.start <= e.end /\ e.end <= Len(t) /\ IsBoundary(t, e.start) /\ IsBoundary(t, e.end)
  BY <1>6, <1>7 DEF Fits
<1>9. cut.start = e.start /\ cut.end = e.end
  <2>1. PICK from \in Nat, to \in Nat : from = e.start /\ to = e.end
    BY <1>0
  <2>2. IsBoundary(t, from) /\ IsBoundary(t, to) /\ from <= to
    BY <1>8, <2>1
  <2>3. Clamp(t, from, to).start = from /\ Clamp(t, from, to).end = to
    BY <2>2, ClampIs
  <2> QED BY <2>1, <2>3
<1>10. PICK new, nmk : /\ new = Splice(t, e.start, e.end, e.insert)
                       /\ nmk = Splice(mk, e.start, e.end, Unmarked(e.insert))
  OBVIOUS
<1>11. last.of = new
  BY <1>6, <1>7, <1>10 DEF Apply
<1>12. ASSUME m # NoRange PROVE Holds(m, b, new, nmk)
  <2>1. mr[n] # NoRange /\ m = MapRange(mr[n], e)
    BY <1>5, <1>12
  <2>2. PICK r : r = mr[n]
    OBVIOUS
  <2>3. Holds(r, a, t, mk)
    BY <1>7, <2>1, <2>2
  <2>4. /\ r.start \in Nat /\ r.end \in Nat /\ r.start < r.end /\ r.end <= Len(t)
        /\ r.end - r.start = a.range.end - a.range.start
        /\ SameAt(t, r.start, a.text, a.range.start, a.range.end - a.range.start)
        /\ \A i \in r.start + 1 .. r.end : mk[i]
    BY <2>3 DEF Holds
  <2>5. /\ m.start \in Nat /\ m.end \in Nat /\ m.start < m.end
        /\ m.end <= Len(t) - (e.end - e.start) + Len(e.insert)
        /\ m.end - m.start = r.end - r.start
        /\ SameAt(new, m.start, t, r.start, r.end - r.start)
    <3>1. m = MapRange(r, e) /\ m # NoRange
      BY <1>12, <2>1, <2>2
    <3>2. Lands(m, r, e, t, e.insert)
      BY <1>0, <1>8, <2>4, <3>1, MappedInBounds
    <3> QED BY <1>10, <3>2 DEF Lands
  <2>6. PICK um : um = Unmarked(e.insert) /\ Len(um) = Len(e.insert)
    BY <1>0, UnmarkedType
  <2>7. SameAt(nmk, m.start, mk, r.start, r.end - r.start)
    <3>1. /\ Len(mk) \in Nat /\ Len(um) \in Nat /\ e.end <= Len(mk) /\ r.end <= Len(mk)
          /\ Len(e.insert) = Len(um) /\ nmk = Splice(mk, e.start, e.end, um)
      BY <1>0, <1>8, <1>10, <2>4, <2>6
    <3>2. m = MapRange(r, e) /\ m # NoRange
      BY <1>12, <2>1, <2>2
    <3>3. Lands(m, r, e, mk, um)
      BY <1>0, <1>8, <2>4, <3>1, <3>2, MappedInBounds
    <3> QED BY <3>1, <3>3 DEF Lands
  <2>8. Len(new) = Len(t) - (e.end - e.start) + Len(e.insert)
    <3>1. t \in Seq(Bytes)
      BY DEF IsText
    <3>2. /\ Shift(e.start, e.end, e.insert) \in Int
          /\ Len(Splice(t, e.start, e.end, e.insert)) = Len(t) + Shift(e.start, e.end, e.insert)
      BY <1>0, <1>8, <3>1, SpliceLen
    <3>3. Len(t) + Shift(e.start, e.end, e.insert) = Len(t) - (e.end - e.start) + Len(e.insert)
      BY <1>0 DEF Shift
    <3> QED BY <1>10, <3>2, <3>3
  <2>9. PICK k \in Nat : k = r.end - r.start /\ k = m.end - m.start /\ k = a.range.end - a.range.start
    BY <2>4, <2>5
  <2>10. SameAt(new, m.start, a.text, a.range.start, k)
    BY <2>4, <2>5, <2>9, Zenon DEF SameAt
  <2>11. ASSUME NEW i \in m.start + 1 .. m.end PROVE nmk[i]
    <3>1. PICK j \in 1 .. k : i = m.start + j
      <4>1. i - m.start \in 1 .. k /\ i = m.start + (i - m.start)
        BY <2>5, <2>9
      <4> QED BY <4>1
    <3>2. nmk[m.start + j] = mk[r.start + j]
      BY <2>7, <2>9 DEF SameAt
    <3>3. r.start + j \in r.start + 1 .. r.end
      BY <2>4, <2>9
    <3> QED BY <2>4, <3>1, <3>2, <3>3
  <2> QED BY <2>5, <2>8, <2>9, <2>10, <2>11 DEF Holds
<1> QED BY <1>9, <1>10, <1>11, <1>12

\* No edits lead nowhere: the name is where it was.
LEMMA FollowsNothing ==
  ASSUME NEW t, NEW mk, NEW a, a.edits = <<>>, a.text = t, Holds(a.range, a, t, mk)
  PROVE  Follows(a, t, mk)
<1> SUFFICES ASSUME NEW tr, NEW last, NEW mr, NEW m,
                    IsTrace(tr, "check", [ok |-> TRUE, of |-> a.text], a.edits, last), last.ok,
                    IsTrace(mr, "map", a.range, a.edits, m)
             PROVE  /\ last.of = t
                    /\ m # NoRange => Holds(m, a, t, mk)
  BY DEF Follows
<1>1. last = [ok |-> TRUE, of |-> t] /\ m = a.range
  BY DEF IsTrace
<1> QED BY <1>1

-----------------------------------------------------------------------------
(* The document.                                                           *)

Anchors == [range : [start : Int, end : Int], text : Seq(Bytes), precise : BOOLEAN,
            edits : Seq(EditType)]

\* The document is in step: its index is that of its text, and what the lint
\* thread was not told of it is nothing.
InStep ==
  /\ IsText(text) /\ Len(text) <= MaxLen /\ index = NewIndex(text)
  /\ changes \in 0 .. MaxChanges
  /\ mark \in Seq(BOOLEAN) /\ Len(mark) = Len(text)
  /\ IsText(parsed)
  /\ request.pending => request.text = text /\ request.edits \in Seq(EditType)
  /\ ~ request.pending => parsed = text

\* The anchor is on a name of its text, and its edits lead from there.
Anchored ==
  /\ anchor \in Anchors
  /\ anchor # NoAnchor =>
       /\ IsText(anchor.text)
       /\ anchor.range.start \in Nat /\ anchor.range.end \in Nat
       /\ anchor.range.start < anchor.range.end /\ anchor.range.end <= Len(anchor.text)
       /\ anchor.precise => Follows(anchor, text, mark)

\* A document that was just opened, its lint requested.
LEMMA InitInv == Init => InStep /\ Anchored
<1> SUFFICES ASSUME Init PROVE InStep /\ Anchored
  OBVIOUS
<1>1. IsText(text) /\ Len(text) <= MaxLen /\ text \in Seq(Bytes)
  BY TextEditsAssumption DEF Init, IsText
<1>2. mark \in Seq(BOOLEAN) /\ Len(mark) = Len(text)
  BY <1>1, UnmarkedType DEF Init
<1>3. IsText(<<>>)
  BY DEF IsText
<1>4. /\ request = [pending |-> TRUE, text |-> text, edits |-> <<>>] /\ parsed = <<>>
      /\ index = NewIndex(text) /\ changes = 0 /\ anchor = NoAnchor /\ 0 \in 0 .. MaxChanges
  BY TextEditsAssumption DEF Init
<1>5. <<>> \in Seq(EditType) /\ <<>> \in Seq(Bytes) /\ NoRange \in [start : Int, end : Int]
  BY DEF NoRange
<1>6. InStep
  BY <1>1, <1>2, <1>3, <1>4, <1>5 DEF InStep
<1>7. Anchored
  BY <1>4, <1>5 DEF Anchored, Anchors, NoAnchor
<1> QED BY <1>6, <1>7

\* send_lint: the request has the new text, and edits however many were staged.
LEMMA Sent ==
  ASSUME InStep, NEW new, NEW edits \in Seq(EditType), SendLint(new, edits)
  PROVE  request'.pending /\ request'.text = new /\ request'.edits \in Seq(EditType)
<1>1. request' = [pending |-> TRUE, text |-> new,
                  edits |-> IF request.pending THEN request.edits \o edits ELSE edits]
  BY DEF SendLint
<1>2. (IF request.pending THEN request.edits \o edits ELSE edits) \in Seq(EditType)
  <2>1. CASE request.pending
    <3>1. request.edits \in Seq(EditType)
      BY <2>1 DEF InStep
    <3>2. request.edits \o edits \in Seq(EditType)
      BY <3>1
    <3> QED BY <2>1, <3>2
  <2>2. CASE ~ request.pending
    BY <2>2
  <2> QED BY <2>1, <2>2
<1> QED BY <1>1, <1>2

\* An anchor is its four fields.
LEMMA Fields ==
  ASSUME NEW a \in Anchors
  PROVE  \E r, t, p, es : a = [range |-> r, text |-> t, precise |-> p, edits |-> es]
<1>1. a = [range |-> a.range, text |-> a.text, precise |-> a.precise, edits |-> a.edits]
  BY DEF Anchors
<1> QED BY <1>1

\* An anchor whose edits were lost.
LEMMA Imprecise ==
  ASSUME NEW a \in Anchors, NEW b, b = [a EXCEPT !.precise = FALSE, !.edits = <<>>]
  PROVE  /\ b \in Anchors /\ b.text = a.text /\ b.range = a.range /\ ~ b.precise
<1>1. PICK no, nil : /\ no \in BOOLEAN /\ nil \in Seq(EditType)
                     /\ no = FALSE /\ nil = <<>>
  <2>1. FALSE \in BOOLEAN
    OBVIOUS
  <2>2. <<>> \in Seq(EditType)
    OBVIOUS
  <2> QED BY <2>1, <2>2, Zenon
<1>2. b = [range |-> a.range, text |-> a.text, precise |-> no, edits |-> nil]
  <2>1. PICK r, t, p, es : a = [range |-> r, text |-> t, precise |-> p, edits |-> es]
    BY Fields
  <2> QED BY <1>1, <2>1
<1>3. a.range \in [start : Int, end : Int] /\ a.text \in Seq(Bytes)
  BY DEF Anchors
<1>4. b \in Anchors /\ b.text = a.text /\ b.range = a.range /\ b.precise = no
  BY <1>1, <1>2, <1>3 DEF Anchors
<1> QED BY <1>1, <1>4

\* An anchor with one more edit.
LEMMA Extended ==
  ASSUME NEW a \in Anchors, NEW e \in EditType,
         NEW b, b = [a EXCEPT !.edits = @ \o <<e>>]
  PROVE  b \in Anchors /\ b.text = a.text /\ b.range = a.range /\ b.edits = a.edits \o <<e>>
<1>1. PICK es : es = a.edits \o <<e>>
  OBVIOUS
<1>2. es \in Seq(EditType)
  <2>1. a.edits \in Seq(EditType) /\ <<e>> \in Seq(EditType)
    BY DEF Anchors
  <2> QED BY <1>1, <2>1
<1>3. PICK yes : yes = a.precise /\ yes \in BOOLEAN
  BY DEF Anchors
<1>4. b = [range |-> a.range, text |-> a.text, precise |-> yes, edits |-> es]
  <2>1. PICK r, t, p, fs : a = [range |-> r, text |-> t, precise |-> p, edits |-> fs]
    BY Fields
  <2>2. b = [range |-> r, text |-> t, precise |-> p, edits |-> fs \o <<e>>]
    BY <2>1
  <2> QED BY <1>1, <1>3, <2>1, <2>2
<1>5. a.range \in [start : Int, end : Int] /\ a.text \in Seq(Bytes)
  BY DEF Anchors
<1>6. b.text = a.text /\ b.range = a.range /\ b.edits = es
  BY <1>4
<1>7. b \in Anchors
  <2>1. [range |-> a.range, text |-> a.text, precise |-> yes, edits |-> es] \in Anchors
    BY <1>2, <1>3, <1>5 DEF Anchors
  <2> QED BY <1>4, <2>1, Zenon
<1> QED BY <1>1, <1>6, <1>7

\* A ranged change: index, marks, staged and recorded edits move together.
LEMMA RangeStep ==
  ASSUME InStep, Anchored, NEW p \in Positions, NEW q \in Positions, NEW insert \in Inserts,
         ChangeRange(p, q, insert)
  PROVE  InStep' /\ Anchored'
<1>1. PICK from, to : from = ByteAt(index, p, Encoding) /\ to = ByteAt(index, q, Encoding)
  OBVIOUS
<1>2. from \in Nat /\ to \in Nat /\ IsText(text) /\ index = NewIndex(text)
  <2>1. IsText(text) /\ index = NewIndex(text)
    BY DEF InStep
  <2> QED BY <1>1, <2>1, ByteAtType
<1>3. PICK cut, e : cut = Clamp(text, from, to) /\ e = Edit(from, to, insert)
  OBVIOUS
<1>4. /\ IsText(insert) /\ insert \in Seq(Bytes) /\ text \in Seq(Bytes)
      /\ Len(insert) \in Nat /\ Len(text) \in Nat
  BY <1>2, TextEditsAssumption DEF IsText
<1>5. e \in EditType /\ e.start = from /\ e.end = to /\ e.insert = insert /\ <<e>> \in Seq(EditType)
  <2>1. e = [start |-> from, end |-> to, insert |-> insert]
    BY <1>3 DEF Edit
  <2>2. e \in EditType
    BY <1>2, <1>4, <2>1 DEF EditType
  <2> QED BY <2>1, <2>2
<1>6. /\ changes < MaxChanges /\ changes' = changes + 1 /\ parsed' = parsed
      /\ Len(text') <= MaxLen
      /\ text' = Splice(text, cut.start, cut.end, insert)
      /\ index' = Patch(index, cut.start, cut.end, insert)
      /\ mark' = Splice(mark, cut.start, cut.end, Unmarked(insert))
      /\ RecordEdits(<<e>>, TRUE)
      /\ SendLint(text', <<e>>)
  BY <1>1, <1>3, Zenon DEF ChangeRange
<1>7. /\ cut.start \in Nat /\ cut.end \in Nat /\ cut.start <= cut.end /\ cut.end <= Len(text)
      /\ IsBoundary(text, cut.start) /\ IsBoundary(text, cut.end)
  BY <1>2, <1>3, ClampIs
<1>8. IsText(text')
  BY <1>2, <1>4, <1>6, <1>7, SpliceText
<1>9. index' = NewIndex(text')
  BY <1>2, <1>4, <1>6, <1>7, PatchIsRebuild
<1>10. mark \in Seq(BOOLEAN) /\ Len(mark) = Len(text)
  BY DEF InStep
<1>11. mark' \in Seq(BOOLEAN) /\ Len(mark') = Len(text')
  <2>1. PICK um : um = Unmarked(insert)
    OBVIOUS
  <2>2. um \in Seq(BOOLEAN) /\ Len(um) = Len(insert)
    BY <1>4, <2>1, UnmarkedType
  <2>3. /\ mark' \in Seq(BOOLEAN)
        /\ Len(mark') = Len(mark) - (cut.end - cut.start) + Len(um)
    BY <1>6, <1>7, <1>10, <2>1, <2>2, SpliceMark
  <2>4. Shift(cut.start, cut.end, insert) \in Int /\ Len(text') = Len(text) + Shift(cut.start, cut.end, insert)
    BY <1>4, <1>6, <1>7, SpliceLen
  <2>5. Len(text') = Len(text) - (cut.end - cut.start) + Len(insert)
    BY <1>4, <1>7, <2>4 DEF Shift
  <2> QED BY <1>10, <2>2, <2>3, <2>5
<1>12. request'.pending /\ request'.text = text' /\ request'.edits \in Seq(EditType)
  BY <1>5, <1>6, Sent
<1>13. changes' \in 0 .. MaxChanges
  <2>1. changes \in 0 .. MaxChanges
    BY DEF InStep
  <2> QED BY <1>6, <2>1, TextEditsAssumption
<1>14. InStep'
  <2>1. IsText(parsed')
    BY <1>6 DEF InStep
  <2> QED BY <1>6, <1>8, <1>9, <1>11, <1>12, <1>13, <2>1 DEF InStep
<1>15. CASE anchor = NoAnchor
  <2>1. anchor' = anchor
    BY <1>6, <1>15 DEF RecordEdits
  <2> QED BY <1>14, <1>15, <2>1 DEF Anchored, NoAnchor
<1>16. CASE anchor # NoAnchor /\ anchor.precise
  <2>1. anchor' = [anchor EXCEPT !.edits = @ \o <<e>>]
    BY <1>6, <1>16 DEF RecordEdits
  <2>2. anchor \in Anchors /\ Follows(anchor, text, mark) /\ anchor.edits \in Seq(EditType)
    BY <1>16 DEF Anchored, Anchors
  <2>3. /\ anchor' \in Anchors /\ anchor'.text = anchor.text /\ anchor'.range = anchor.range
        /\ anchor'.edits = anchor.edits \o <<e>>
    <3>1. PICK a, b : a \in Anchors /\ a = anchor /\ b = anchor'
      BY <2>2
    <3>2. b = [a EXCEPT !.edits = @ \o <<e>>]
      BY <2>1, <3>1
    <3>3. b \in Anchors /\ b.text = a.text /\ b.range = a.range /\ b.edits = a.edits \o <<e>>
      <4>1. a \in Anchors /\ e \in EditType
        BY <1>5, <3>1
      <4> QED BY <3>2, <4>1, Extended
    <3> QED BY <3>1, <3>3
  <2>4. Follows(anchor', text', mark')
    BY <1>2, <1>3, <1>5, <1>6, <1>10, <2>2, <2>3, FollowsMore
  <2> QED BY <1>14, <1>16, <2>3, <2>4 DEF Anchored
<1>17. CASE anchor # NoAnchor /\ ~ anchor.precise
  <2>1. anchor' = [anchor EXCEPT !.precise = FALSE, !.edits = <<>>]
    BY <1>6, <1>17 DEF RecordEdits
  <2>2. anchor' \in Anchors /\ anchor'.text = anchor.text /\ anchor'.range = anchor.range
        /\ ~ anchor'.precise
    <3>1. anchor \in Anchors
      BY DEF Anchored
    <3> QED BY <2>1, <3>1, Imprecise
  <2> QED BY <1>14, <1>17, <2>2 DEF Anchored
<1> QED BY <1>15, <1>16, <1>17

\* A document replaced: the recorded edits are dropped.
LEMMA AllStep ==
  ASSUME InStep, Anchored, NEW t \in InitialTexts, ChangeAll(t)
  PROVE  InStep' /\ Anchored'
<1>1. IsText(t) /\ Len(t) <= MaxLen /\ t \in Seq(Bytes)
  BY TextEditsAssumption DEF IsText
<1>2. /\ text' = t /\ index' = NewIndex(t) /\ mark' = Unmarked(t) /\ parsed' = parsed
      /\ changes < MaxChanges /\ changes' = changes + 1
      /\ RecordEdits(<<>>, FALSE) /\ SendLint(t, <<>>)
  BY DEF ChangeAll
<1>3. request'.pending /\ request'.text = t /\ request'.edits \in Seq(EditType)
  <2>1. <<>> \in Seq(EditType)
    OBVIOUS
  <2> QED BY <1>2, <2>1, Sent
<1>4. mark' \in Seq(BOOLEAN) /\ Len(mark') = Len(text')
  BY <1>1, <1>2, UnmarkedType
<1>5. changes' \in 0 .. MaxChanges /\ IsText(parsed')
  <2>1. changes \in 0 .. MaxChanges /\ IsText(parsed)
    BY DEF InStep
  <2> QED BY <1>2, <2>1, TextEditsAssumption
<1>6. InStep'
  BY <1>1, <1>2, <1>3, <1>4, <1>5 DEF InStep
<1>7. Anchored'
  <2>1. CASE anchor = NoAnchor
    <3>1. anchor' = anchor
      BY <1>2, <2>1 DEF RecordEdits
    <3> QED BY <2>1, <3>1 DEF Anchored, NoAnchor
  <2>2. CASE anchor # NoAnchor
    <3>1. anchor' = [anchor EXCEPT !.precise = FALSE, !.edits = <<>>]
      BY <1>2, <2>2 DEF RecordEdits
    <3>2. anchor' \in Anchors /\ anchor'.text = anchor.text /\ anchor'.range = anchor.range
          /\ ~ anchor'.precise
      <4>1. anchor \in Anchors
        BY DEF Anchored
      <4> QED BY <3>1, <4>1, Imprecise
    <3> QED BY <2>2, <3>2 DEF Anchored
  <2> QED BY <2>1, <2>2
<1> QED BY <1>6, <1>7

\* A rename prepared: the name leads to itself.
LEMMA PrepareStep ==
  ASSUME InStep, Anchored, NEW start \in 0 .. MaxLen, NEW end \in 0 .. MaxLen,
         PrepareRename([start |-> start, end |-> end])
  PROVE  InStep' /\ Anchored'
<1>1. PICK r : r = [start |-> start, end |-> end]
  OBVIOUS
<1>2. /\ IsName(text, r)
      /\ anchor' = [range |-> r, text |-> text, precise |-> TRUE, edits |-> <<>>]
      /\ mark' = [i \in 1 .. Len(text) |-> i > r.start /\ i <= r.end]
      /\ UNCHANGED <<text, index, request, parsed, changes>>
  BY <1>1 DEF PrepareRename
<1>3. /\ start \in Nat /\ end \in Nat /\ start < end /\ end <= Len(text)
      /\ r.start = start /\ r.end = end
  BY <1>1, <1>2, TextEditsAssumption DEF IsName
<1>4. IsText(text) /\ text \in Seq(Bytes) /\ Len(text) \in Nat
  BY DEF InStep, IsText
<1>5. mark' \in Seq(BOOLEAN) /\ Len(mark') = Len(text)
  BY <1>2, <1>4
<1>6. InStep'
  BY <1>2, <1>5 DEF InStep
<1>7. /\ anchor' \in Anchors /\ anchor'.range = r /\ anchor'.text = text
      /\ anchor'.edits = <<>>
  <2>1. r \in [start : Int, end : Int] /\ <<>> \in Seq(EditType)
    BY <1>1, <1>3
  <2> QED BY <1>2, <1>4, <2>1 DEF Anchors
<1>8. Holds(r, anchor', text, mark')
  <2>1. SameAt(text, r.start, anchor'.text, anchor'.range.start, anchor'.range.end - anchor'.range.start)
    BY <1>7 DEF SameAt
  <2>2. \A i \in r.start + 1 .. r.end : mark'[i]
    <3>1. \A i \in r.start + 1 .. r.end : i \in 1 .. Len(text) /\ i > r.start /\ i <= r.end
      BY <1>3, <1>4
    <3> QED BY <1>2, <3>1
  <2> QED BY <1>3, <1>7, <2>1, <2>2 DEF Holds
<1>9. Follows(anchor', text, mark')
  BY <1>7, <1>8, FollowsNothing
<1>10. text' = text
  BY <1>2
<1>11. Anchored'
  BY <1>3, <1>4, <1>7, <1>9, <1>10 DEF Anchored
<1> QED BY <1>6, <1>11

\* A lint: the parse is of the text of the request, which is the buffer's.
LEMMA LintStep ==
  ASSUME InStep, Anchored, Lint
  PROVE  InStep' /\ Anchored'
<1>1. /\ request.pending /\ request' = NoRequest
      /\ parsed' = IF parsed = request.text THEN parsed
                   ELSE Reparse(parsed, request.edits, request.text)
      /\ UNCHANGED <<text, index, anchor, mark, changes>>
  BY DEF Lint
<1>2. IsText(text) /\ IsText(parsed) /\ request.text = text /\ request.edits \in Seq(EditType)
  BY <1>1 DEF InStep
<1>3. Reparse(parsed, request.edits, text) = text
  BY <1>2, ReparseIsExact
<1>4. parsed' = text
  BY <1>1, <1>2, <1>3
<1>5. ~ request'.pending
  BY <1>1 DEF NoRequest
<1> QED BY <1>1, <1>2, <1>4, <1>5 DEF InStep, Anchored

\* A rename consumes the anchor.
LEMMA RenameStep ==
  ASSUME InStep, Anchored, Rename
  PROVE  InStep' /\ Anchored'
<1>1. /\ anchor' = NoAnchor /\ mark' = Unmarked(text)
      /\ UNCHANGED <<text, index, request, parsed, changes>>
  BY DEF Rename
<1>2. text \in Seq(Bytes)
  BY DEF InStep, IsText
<1>3. mark' \in Seq(BOOLEAN) /\ Len(mark') = Len(text)
  BY <1>1, <1>2, UnmarkedType
<1>4. InStep'
  BY <1>1, <1>3 DEF InStep
<1>5. NoAnchor \in Anchors
  <2>1. <<>> \in Seq(EditType) /\ <<>> \in Seq(Bytes) /\ NoRange \in [start : Int, end : Int]
    BY DEF NoRange
  <2> QED BY <2>1 DEF Anchors, NoAnchor
<1> QED BY <1>1, <1>4, <1>5 DEF Anchored

\* The inductive invariant: every handler keeps both.
LEMMA DocumentInv == Spec => [](InStep /\ Anchored)
<1>1. InStep /\ Anchored /\ [Next]_vars => (InStep /\ Anchored)'
  <2> SUFFICES ASSUME InStep, Anchored, [Next]_vars PROVE InStep' /\ Anchored'
    OBVIOUS
  <2>1. ASSUME NEW from \in Positions, NEW to \in Positions, NEW insert \in Inserts,
               ChangeRange(from, to, insert)
        PROVE  InStep' /\ Anchored'
    BY <2>1, RangeStep
  <2>2. ASSUME NEW t \in InitialTexts, ChangeAll(t) PROVE InStep' /\ Anchored'
    BY <2>2, AllStep
  <2>3. ASSUME NEW start \in 0 .. MaxLen, NEW end \in 0 .. MaxLen,
               PrepareRename([start |-> start, end |-> end])
        PROVE  InStep' /\ Anchored'
    BY <2>3, PrepareStep
  <2>4. CASE Rename
    BY <2>4, RenameStep
  <2>5. CASE Lint
    BY <2>5, LintStep
  <2>6. CASE UNCHANGED vars
    BY <2>6 DEF vars, InStep, Anchored
  <2> QED BY <2>1, <2>2, <2>3, <2>4, <2>5, <2>6 DEF Next
<1> QED BY <1>1, InitInv, PTL DEF Spec

\* "The result is bit-identical to LineIndex::new(edited_text)": after any
\* sequence of changes, whatever was replaced by whatever, apply_edit has left
\* the index that LineIndex::new would build.
THEOREM IndexIsRebuilt == Spec => []PatchedIndexIsRebuilt
<1>1. InStep => PatchedIndexIsRebuilt
  BY DEF InStep, PatchedIndexIsRebuilt
<1> QED BY <1>1, DocumentInv, PTL

\* What a buffer may hold: whole characters, a mark per byte.
THEOREM DocumentIsTyped == Spec => []TypeOK
<1>1. InStep => TypeOK
  <2> SUFFICES ASSUME InStep PROVE TypeOK
    OBVIOUS
  <2>1. text \in Seq(Bytes) /\ mark \in Seq(BOOLEAN) /\ Len(mark) = Len(text)
    BY DEF InStep, IsText
  <2>2. DOMAIN mark = DOMAIN text
    BY <2>1
  <2> QED BY <2>2 DEF InStep, TypeOK
<1> QED BY <1>1, DocumentInv, PTL

\* byte_to_position and position_to_byte agree on every text a buffer can hold,
\* in every encoding: boundaries survive the round trip, and a position of the
\* client resolves to the last boundary of its line that is not past it.
THEOREM PositionsConvert == Spec => []PositionsAreConsistent
<1>1. InStep => PositionsAreConsistent
  <2> SUFFICES ASSUME InStep PROVE PositionsAreConsistent
    OBVIOUS
  <2>1. IsText(text) /\ index = NewIndex(text)
    BY DEF InStep
  <2>2. ASSUME NEW o \in {x \in 0 .. Len(text) : IsBoundary(text, x)}
        PROVE  ByteAt(index, BytePosition(index, o, Encoding), Encoding) = o
    BY <2>1, RoundTrip
  <2>3. ASSUME NEW p \in Positions
        PROVE  LET o == ByteAt(index, p, Encoding)
               IN  /\ IsBoundary(text, o)
                   /\ p.line < Cardinality(index.lines) /\ LineOf(index, o) = p.line =>
                        /\ BytePosition(index, o, Encoding).character <= p.character
                        /\ \A x \in o + 1 .. Len(text) :
                             LineOf(index, x) = p.line /\ IsBoundary(text, x) =>
                               BytePosition(index, x, Encoding).character > p.character
    <3>1. p \in [line : Nat, character : Nat]
      BY TextEditsAssumption
    <3> QED BY <2>1, <3>1, Resolves
  <2> QED BY <2>2, <2>3 DEF PositionsAreConsistent
<1> QED BY <1>1, DocumentInv, PTL

\* The edit that diff_edit recovers from the parsed text and the buffer fits the
\* one and leads to the other, on character boundaries.
THEOREM RecoveredEditsAreExact == Spec => []DiffEditIsExact
<1>1. InStep => DiffEditIsExact
  BY DiffExact DEF InStep, DiffEditIsExact
<1> QED BY <1>1, DocumentInv, PTL

\* Once parsed_document has served the newest request, the tree in the database
\* is that of the buffer: requests that were coalesced, edits that were coerced
\* when the buffer took them, and documents that were replaced cannot make the
\* incremental path parse another text.
THEOREM ParsesAreOfTheText == Spec => []ParseIsOfTheText
<1>1. InStep => ParseIsOfTheText
  BY DEF InStep, ParseIsOfTheText
<1> QED BY <1>1, DocumentInv, PTL

\* rename_cursor_offset finds bytes that spell the name the rename was prepared
\* on; with every edit recorded as resolved and verified against the buffer it
\* finds the very name.
THEOREM RenamesFindTheName == Spec => []RenameFindsTheName
<1>1. InStep /\ Anchored => RenameFindsTheName
  <2> SUFFICES ASSUME InStep, Anchored, anchor # NoAnchor, RenameTarget(text, anchor) # NoRange
               PROVE  LET target == RenameTarget(text, anchor)
                          bytes(t, r) == [i \in 1 .. r.end - r.start |-> t[r.start + i]]
                      IN  /\ bytes(text, target) = bytes(anchor.text, anchor.range)
                          /\ anchor.precise /\ text # anchor.text
                             /\ EditsProduce(anchor.text, anchor.edits, text) =>
                               \A i \in target.start + 1 .. target.end : mark[i]
    BY DEF RenameFindsTheName
  <2>1. /\ IsText(anchor.text) /\ IsText(text)
        /\ anchor.range.start \in Nat /\ anchor.range.end \in Nat
        /\ anchor.range.start < anchor.range.end /\ anchor.range.end <= Len(anchor.text)
        /\ anchor.precise => Follows(anchor, text, mark)
        /\ anchor.edits \in Seq(EditType)
    BY DEF Anchored, Anchors, InStep
  <2>2. PICK target : target = RenameTarget(text, anchor) /\ target # NoRange
    OBVIOUS
  <2>3. target = IF text = anchor.text THEN anchor.range
                 ELSE IF anchor.precise /\ anchor.edits # <<>>
                         /\ EditsProduce(anchor.text, anchor.edits, text)
                 THEN MapRangeThrough(anchor.range, anchor.edits)
                 ELSE MapRange(anchor.range, DiffEdit(anchor.text, text))
    BY <2>2, Zenon DEF RenameTarget
  <2> DEFINE Goal ==
        /\ target.end - target.start = anchor.range.end - anchor.range.start
        /\ SameAt(text, target.start, anchor.text, anchor.range.start,
                  anchor.range.end - anchor.range.start)
        /\ anchor.precise /\ text # anchor.text
           /\ EditsProduce(anchor.text, anchor.edits, text) =>
             \A i \in target.start + 1 .. target.end : mark[i]
  <2>4. ASSUME text = anchor.text PROVE Goal
    <3>1. target = anchor.range
      BY <2>3, <2>4
    <3>2. SameAt(text, target.start, anchor.text, anchor.range.start,
                 anchor.range.end - anchor.range.start)
      BY <2>4, <3>1 DEF SameAt
    <3> QED BY <2>4, <3>1, <3>2
  <2>5. ASSUME /\ text # anchor.text /\ anchor.precise
               /\ EditsProduce(anchor.text, anchor.edits, text)
        PROVE  Goal
    <3>1. PICK tr, last : /\ IsTrace(tr, "check", [ok |-> TRUE, of |-> anchor.text], anchor.edits, last)
                          /\ last.ok /\ last.of = text
      BY <2>1, <2>5, CheckTrace
    <3>2. anchor.edits # <<>>
      <4> SUFFICES ASSUME anchor.edits = <<>> PROVE FALSE
        OBVIOUS
      <4>1. last = [ok |-> TRUE, of |-> anchor.text]
        BY <3>1 DEF IsTrace
      <4> QED BY <2>5, <3>1, <4>1
    <3>3. target = MapRangeThrough(anchor.range, anchor.edits)
      BY <2>3, <2>5, <3>2
    <3>4. PICK mr : IsTrace(mr, "map", anchor.range, anchor.edits, target)
      BY <2>1, <3>3, MapTrace
    <3>5. Follows(anchor, text, mark)
      BY <2>1, <2>5
    <3>6. Holds(target, anchor, text, mark)
      BY <2>2, <3>1, <3>4, <3>5, Zenon DEF Follows
    <3> QED BY <3>6 DEF Holds
  <2>6. ASSUME /\ text # anchor.text
               /\ ~ (anchor.precise /\ EditsProduce(anchor.text, anchor.edits, text))
        PROVE  Goal
    <3>1. PICK e : e = DiffEdit(anchor.text, text)
      OBVIOUS
    <3>2. Fits(e, anchor.text) /\ IsText(e.insert) /\ Apply(e, anchor.text) = text
      BY <2>1, <3>1, DiffExact
    <3>3. target = MapRange(anchor.range, e)
      BY <2>3, <2>6, <3>1
    <3>4. /\ e.start \in Nat /\ e.end \in Nat /\ e.start <= e.end /\ e.end <= Len(anchor.text)
          /\ Len(anchor.text) \in Nat /\ Len(e.insert) \in Nat
      BY <2>1, <3>2 DEF Fits, IsBoundary, IsText
    <3>5. Lands(target, anchor.range, e, anchor.text, e.insert)
      BY <2>1, <2>2, <3>3, <3>4, MappedInBounds
    <3>6. Splice(anchor.text, e.start, e.end, e.insert) = text
      BY <3>2 DEF Apply
    <3>7. /\ target.end - target.start = anchor.range.end - anchor.range.start
          /\ SameAt(Splice(anchor.text, e.start, e.end, e.insert), target.start,
                    anchor.text, anchor.range.start, anchor.range.end - anchor.range.start)
      BY <3>5, Zenon DEF Lands
    <3>8. SameAt(text, target.start, anchor.text, anchor.range.start,
                 anchor.range.end - anchor.range.start)
      BY <3>6, <3>7, Zenon
    <3> QED BY <2>6, <3>7, <3>8
  <2>7. Goal
    <3> HIDE DEF Goal
    <3> QED BY <2>4, <2>5, <2>6
  <2>8. [i \in 1 .. target.end - target.start |-> text[target.start + i]]
          = [i \in 1 .. anchor.range.end - anchor.range.start |-> anchor.text[anchor.range.start + i]]
    BY <2>7 DEF SameAt
  <2> QED BY <2>2, <2>7, <2>8
<1> QED BY <1>1, DocumentInv, PTL
=============================================================================
