--------------------- MODULE WorkspaceMembershipProofs ---------------------
(***************************************************************************)
(* That the members of the workspace follow the disk (WorkspaceMembership):*)
(* at rest their texts are the disk's, nothing a rename took away is one,  *)
(* and, when the client notifies in the order it acted, the roots are the  *)
(* client's and no member is one a fresh seed would not find.              *)
(*                                                                         *)
(* The invariants say what is under way where the server lags behind: each *)
(* member whose text differs from the disk's, was renamed away or is out   *)
(* of scope has an event or a message that will put it right, and the      *)
(* roots, carried through every message under way, end as the client's.    *)
(***************************************************************************)
EXTENDS WorkspaceMembership, WellFoundedInduction, TLAPS

-----------------------------------------------------------------------------
(* Folds.  A fold over a sequence is a recursive function on the sets of   *)
(* its positions; what follows turns it into a trace, one value after      *)
(* each element, which an invariant can be carried along.                  *)

\* The order of the naturals is well founded: a set of them has a least one.
LEMMA LeastNatural ==
  ASSUME NEW T, T \subseteq Nat, T # {}
  PROVE  \E x \in T : \A y \in T : x <= y
<1>1. PICK x \in T : \A y \in T : <<y, x>> \notin OpToRel(<, Nat)
  BY NatLessThanWellFounded, WFMin
<1>2. \A y \in T : ~ (y < x)
  BY <1>1 DEF OpToRel
<1> QED BY <1>2

\* Induction up to n, for a set of naturals.
LEMMA CountUp ==
  ASSUME NEW n \in Nat, NEW G, 0 \in G, \A k \in 1 .. n : k - 1 \in G => k \in G
  PROVE  \A k \in 0 .. n : k \in G
<1> SUFFICES ASSUME {k \in 0 .. n : k \notin G} # {} PROVE FALSE
  OBVIOUS
<1> DEFINE T == {k \in 0 .. n : k \notin G}
<1>1. PICK k \in T : \A y \in T : k <= y
  <2>1. T \subseteq Nat /\ T # {}
    OBVIOUS
  <2> HIDE DEF T
  <2> QED BY <2>1, LeastNatural
<1>2. k \in 1 .. n /\ k \notin G /\ k - 1 \in 0 .. n
  OBVIOUS
<1>3. k - 1 \in G
  BY <1>1, <1>2
<1> QED BY <1>2, <1>3

\* A bounded set of positions has a greatest one, which is its Max.
LEMMA GreatestOf ==
  ASSUME NEW n \in Nat, NEW s, s \subseteq 1 .. n, s # {}
  PROVE  Max(s) \in s /\ \A y \in s : Max(s) >= y
<1> DEFINE T == {n - x : x \in s}
<1>1. PICK z \in T : \A y \in T : z <= y
  <2>1. \A x \in s : n - x \in Nat
    OBVIOUS
  <2>2. T \subseteq Nat /\ T # {}
    BY <2>1
  <2> HIDE DEF T
  <2> QED BY <2>2, LeastNatural
<1>2. PICK x \in s : z = n - x
  BY <1>1
<1>3. \A y \in s : x >= y
  <2> TAKE y \in s
  <2>1. n - y \in T /\ x \in Nat /\ y \in Nat
    OBVIOUS
  <2> QED BY <2>1, <1>1, <1>2
<1> QED BY <1>2, <1>3 DEF Max

\* The last position is the Max of the sets that hold it.
LEMMA GreatestIs ==
  ASSUME NEW n \in Nat, NEW s, s \subseteq 1 .. n, n \in s
  PROVE  Max(s) = n
<1>1. Max(s) \in s /\ \A y \in s : Max(s) >= y
  BY GreatestOf
<1>2. Max(s) \in 1 .. n /\ Max(s) >= n
  BY <1>1
<1> QED BY <1>2

\* `it` is the recursion that FoldLeft makes of F over seq.
IsFold(it, X, F, base, seq) ==
  /\ it \in [SUBSET (1 .. Len(seq)) -> X]
  /\ \A s \in SUBSET (1 .. Len(seq)) :
       it[s] = IF s = {} THEN base ELSE F[<<it[s \ {Max(s)}], seq[Max(s)]>>]

\* That recursion has a solution.
LEMMA FoldExists ==
  ASSUME NEW X, NEW E, NEW F, NEW base \in X, NEW seq \in Seq(E),
         \A x \in X, e \in E : F[<<x, e>>] \in X
  PROVE  \E it : IsFold(it, X, F, base, seq)
<1> DEFINE Solves(n, it) ==
             /\ it \in [SUBSET (1 .. n) -> X]
             /\ \A s \in SUBSET (1 .. n) :
                  it[s] = IF s = {} THEN base ELSE F[<<it[s \ {Max(s)}], seq[Max(s)]>>]
           G == {n \in Nat : \E it : Solves(n, it)}
<1>1. 0 \in G
  <2>1. Solves(0, [s \in SUBSET (1 .. 0) |-> base])
    <3>1. \A s \in SUBSET (1 .. 0) : s = {}
      OBVIOUS
    <3> QED BY <3>1
  <2> QED BY <2>1
<1>2. ASSUME NEW n \in 1 .. Len(seq), n - 1 \in G PROVE n \in G
  <2>1. PICK it0 : Solves(n - 1, it0)
    BY <1>2
  <2> DEFINE it == [s \in SUBSET (1 .. n) |->
                      IF n \in s THEN F[<<it0[s \ {n}], seq[n]>>] ELSE it0[s]]
  <2>2. \A s \in SUBSET (1 .. n) : n \notin s => s \in SUBSET (1 .. n - 1)
    OBVIOUS
  <2>3. \A s \in SUBSET (1 .. n) : s \ {n} \in SUBSET (1 .. n - 1)
    OBVIOUS
  <2>4. seq[n] \in E /\ n \in Nat
    OBVIOUS
  <2>5. it \in [SUBSET (1 .. n) -> X]
    <3>1. ASSUME NEW s \in SUBSET (1 .. n) PROVE it[s] \in X
      <4>1. CASE n \in s
        <5>1. it0[s \ {n}] \in X
          BY <2>1, <2>3
        <5> QED BY <4>1, <5>1, <2>4
      <4>2. CASE n \notin s
        BY <4>2, <2>1, <2>2
      <4> QED BY <4>1, <4>2
    <3> QED BY <3>1
  <2>6. ASSUME NEW s \in SUBSET (1 .. n), s # {}
        PROVE  it[s] = F[<<it[s \ {Max(s)}], seq[Max(s)]>>]
    <3>1. CASE n \in s
      <4>1. Max(s) = n
        BY <3>1, <2>4, GreatestIs
      <4>2. it[s \ {n}] = it0[s \ {n}] /\ it[s] = F[<<it0[s \ {n}], seq[n]>>]
        BY <3>1
      <4> HIDE DEF it
      <4> QED BY <4>1, <4>2
    <3>2. CASE n \notin s
      <4>1. it[s] = it0[s] /\ it[s \ {Max(s)}] = it0[s \ {Max(s)}]
        BY <3>2
      <4>2. it0[s] = F[<<it0[s \ {Max(s)}], seq[Max(s)]>>]
        BY <3>2, <2>1, <2>2, <2>6
      <4> HIDE DEF it
      <4> QED BY <4>1, <4>2
    <3> QED BY <3>1, <3>2
  <2>7. it[{}] = base
    BY <2>1
  <2>8. Solves(n, it)
    <3> HIDE DEF it
    <3> QED BY <2>5, <2>6, <2>7
  <2> HIDE DEF it, Solves
  <2> QED BY <2>8, <2>4
<1>3. Len(seq) \in G
  <2> HIDE DEF G
  <2>1. Len(seq) \in Nat /\ Len(seq) \in 0 .. Len(seq)
    OBVIOUS
  <2> QED BY <1>1, <1>2, <2>1, CountUp
<1> QED BY <1>3 DEF IsFold

\* Its first positions, one more at a time.
LEMMA FirstPositions ==
  ASSUME NEW n \in Nat, NEW k \in 1 .. n
  PROVE  /\ 1 .. k \in SUBSET (1 .. n) /\ 1 .. k # {}
         /\ Max(1 .. k) = k /\ (1 .. k) \ {k} = 1 .. k - 1
<1>1. Max(1 .. k) = k
  BY GreatestIs
<1> QED BY <1>1

-----------------------------------------------------------------------------
Renames == [type : {"rename"}, files : SUBSET [old : Path, new : Path],
            dir : SUBSET [old : Dirs, new : Dirs]]
Watches == [type : {"watch"}, created : SUBSET Path, deleted : SUBSET Path,
            changed : SUBSET Path]
Seeds == [type : {"seed"}, roots : SUBSET Root]
Events == [path : Path, kind : {"created", "deleted", "changed"}]
Tracking == [members : SUBSET Path, texts : [Path -> Content]]

Typed ==
  /\ disk \in [Path -> Content] /\ texts \in [Path -> Content]
  /\ folders \subseteq Root /\ roots \subseteq Root
  /\ members \subseteq Path /\ gone \subseteq Path
  /\ \A p \in members : texts[p] # 0
  /\ changes \in 0 .. MaxChanges
  /\ events \in Seq(Events)
  /\ told \in Seq(Renames)
  /\ inbox \in Seq(Renames \cup Watches \cup Seeds)

\* PathOrder lists every path.
LEMMA PathsInOrder ==
  /\ PathOrder \in Seq(Path) /\ DOMAIN PathOrder = 1 .. Len(PathOrder) /\ Len(PathOrder) \in Nat
  /\ \A p \in Path : \E k \in 1 .. Len(PathOrder) : PathOrder[k] = p
BY MembershipAssumption DEF Path, Range

\* The batch of a rename, pair by pair.
LEMMA SwapType ==
  ASSUME disk \in [Path -> Content], NEW rs, NEW pairs, NEW st \in Tracking, NEW p \in Path
  PROVE  SwapOld(rs, pairs, st, p) \in Tracking
<1>1. ASSUME NEW pair PROVE SwapMember(rs, st, pair) \in Tracking
  <2>1. InScope(rs, pair.new) => pair.new \in Path
    BY DEF InScope, Walk
  <2>2. ReadFrom({pair.new}, st.texts) \in [Path -> Content]
    BY DEF ReadFrom, Tracking
  <2> QED BY <2>1, <2>2 DEF SwapMember, Tracking
<1> QED BY <1>1 DEF SwapOld

RenameAll(rs, pairs, base) ==
  FoldLeft(LAMBDA st, p : SwapOld(rs, pairs, st, p), base, PathOrder)

\* The loop over the batch as a trace: what is tracked after each path.
LEMMA RenameFold ==
  ASSUME disk \in [Path -> Content], NEW rs, NEW pairs, NEW base \in Tracking
  PROVE  \E tr :
           /\ tr[0] = base
           /\ \A k \in 1 .. Len(PathOrder) : tr[k] = SwapOld(rs, pairs, tr[k - 1], PathOrder[k])
           /\ tr[Len(PathOrder)] = RenameAll(rs, pairs, base)
<1> DEFINE F == [z \in Tracking \X Path |-> SwapOld(rs, pairs, z[1], z[2])]
<1>1. \A x \in Tracking, p \in Path :
        F[<<x, p>>] = SwapOld(rs, pairs, x, p) /\ F[<<x, p>>] \in Tracking
  BY SwapType
<1>3. PICK it : IsFold(it, Tracking, F, base, PathOrder)
  <2>1. \A x \in Tracking, p \in Path : F[<<x, p>>] \in Tracking
    BY <1>1
  <2> HIDE DEF F
  <2> QED BY <2>1, FoldExists, PathsInOrder
<1>4. \A s \in SUBSET (1 .. Len(PathOrder)) :
        it[s] = IF s = {} THEN base ELSE SwapOld(rs, pairs, it[s \ {Max(s)}], PathOrder[Max(s)])
  <2> SUFFICES ASSUME NEW s \in SUBSET (1 .. Len(PathOrder)), s # {}
               PROVE  F[<<it[s \ {Max(s)}], PathOrder[Max(s)]>>]
                        = SwapOld(rs, pairs, it[s \ {Max(s)}], PathOrder[Max(s)])
    BY <1>3 DEF IsFold
  <2>1. Max(s) \in 1 .. Len(PathOrder)
    BY GreatestOf, PathsInOrder
  <2>2. PathOrder[Max(s)] \in Path
    BY <2>1, PathsInOrder
  <2>3. it[s \ {Max(s)}] \in Tracking
    <3>1. s \ {Max(s)} \in SUBSET (1 .. Len(PathOrder))
      OBVIOUS
    <3> QED BY <3>1, <1>3 DEF IsFold
  <2> HIDE DEF F
  <2> QED BY <2>2, <2>3, <1>1
<1>5. \E f : f = [s \in SUBSET DOMAIN PathOrder |->
                    IF s = {} THEN base ELSE SwapOld(rs, pairs, f[s \ {Max(s)}], PathOrder[Max(s)])]
  <2>1. it = [s \in SUBSET (1 .. Len(PathOrder)) |->
                IF s = {} THEN base ELSE SwapOld(rs, pairs, it[s \ {Max(s)}], PathOrder[Max(s)])]
    BY <1>3, <1>4 DEF IsFold
  <2> QED BY <2>1, PathsInOrder
<1>6. PICK f : /\ f = [s \in SUBSET DOMAIN PathOrder |->
                         IF s = {} THEN base ELSE SwapOld(rs, pairs, f[s \ {Max(s)}], PathOrder[Max(s)])]
               /\ RenameAll(rs, pairs, base) = f[DOMAIN PathOrder]
  BY <1>5 DEF RenameAll, FoldLeft, MapThenFoldSet
<1> DEFINE tr == [k \in 0 .. Len(PathOrder) |-> f[1 .. k]]
<1>7. tr[0] = base
  <2>1. {} \in SUBSET DOMAIN PathOrder /\ 1 .. 0 = {}
    OBVIOUS
  <2>2. f[{}] = base
    BY <1>6
  <2> QED BY <2>1, <2>2, PathsInOrder
<1>8. ASSUME NEW k \in 1 .. Len(PathOrder) PROVE tr[k] = SwapOld(rs, pairs, tr[k - 1], PathOrder[k])
  <2>1. /\ 1 .. k \in SUBSET DOMAIN PathOrder /\ 1 .. k # {}
        /\ Max(1 .. k) = k /\ (1 .. k) \ {k} = 1 .. k - 1
    BY FirstPositions, PathsInOrder
  <2>2. f[1 .. k] = SwapOld(rs, pairs, f[1 .. k - 1], PathOrder[k])
    BY <2>1, <1>6
  <2>3. tr[k] = f[1 .. k] /\ tr[k - 1] = f[1 .. k - 1]
    BY PathsInOrder
  <2> HIDE DEF tr
  <2> QED BY <2>2, <2>3
<1>9. tr[Len(PathOrder)] = f[DOMAIN PathOrder]
  BY PathsInOrder
<1> HIDE DEF tr
<1> QED BY <1>6, <1>7, <1>8, <1>9

\* What is known of the members and texts once the olds of the batch among the
\* first k paths were swapped.
SwappedTo(rs, pairs, k, st) ==
  /\ st \in Tracking
  /\ \A p \in Path : st.texts[p] \in {texts[p], disk[p]}
  /\ \A p \in st.members :
       \/ InScope(rs, p) /\ st.texts[p] = disk[p]
       \/ /\ p \in members /\ st.texts[p] = texts[p]
          /\ \A j \in 1 .. k : PathOrder[j] = p => ~ \E x \in pairs : x.old = p

\* One path more of the batch.
LEMMA SwapOldStep ==
  ASSUME disk \in [Path -> Content], NEW rs, NEW pairs, NEW k \in 1 .. Len(PathOrder), NEW st,
         SwappedTo(rs, pairs, k - 1, st)
  PROVE  SwappedTo(rs, pairs, k, SwapOld(rs, pairs, st, PathOrder[k]))
<1> DEFINE q == PathOrder[k]
<1>0. PICK to : to = SwapOld(rs, pairs, st, q)
  OBVIOUS
<1>1. q \in Path /\ k \in Nat /\ 1 .. k = (1 .. k - 1) \cup {k}
  BY PathsInOrder
<1>2. st \in Tracking /\ to \in Tracking
  BY <1>1, <1>0, SwapType DEF SwappedTo
<1>3. CASE ~ \E x \in pairs : x.old = q
  <2>1. to = st
    BY <1>0, <1>3 DEF SwapOld
  <2>2. \A p \in st.members : PathOrder[k] = p => ~ \E x \in pairs : x.old = p
    BY <1>3
  <2> QED BY <1>0, <2>1, <2>2, <1>1 DEF SwappedTo
<1>4. CASE \E x \in pairs : x.old = q
  <2>1. PICK x : x.old = q /\ to = SwapMember(rs, st, x)
    BY <1>0, <1>4 DEF SwapOld
  <2>2. CASE InScope(rs, x.new)
    <3>1. x.new \in Path
      BY <2>2 DEF InScope, Walk
    <3>2. to.members = (st.members \ {q}) \union {x.new} /\ to.texts = ReadFrom({x.new}, st.texts)
      BY <2>1, <2>2 DEF SwapMember
    <3>3. \A p \in Path : to.texts[p] = IF p = x.new THEN disk[p] ELSE st.texts[p]
      BY <3>2 DEF ReadFrom
    <3>4. \A p \in Path : to.texts[p] \in {texts[p], disk[p]}
      BY <3>3 DEF SwappedTo
    <3>5. ASSUME NEW p \in to.members
          PROVE  \/ InScope(rs, p) /\ to.texts[p] = disk[p]
                 \/ /\ p \in members /\ to.texts[p] = texts[p]
                    /\ \A j \in 1 .. k : PathOrder[j] = p => ~ \E y \in pairs : y.old = p
      <4>1. CASE p = x.new
        BY <4>1, <2>2, <3>1, <3>3
      <4>2. CASE p # x.new
        <5>1. p \in st.members /\ p # q /\ p \in Path
          BY <4>2, <3>2, <1>2 DEF Tracking
        <5>2. to.texts[p] = st.texts[p]
          BY <5>1, <4>2, <3>3
        <5>3. \A j \in 1 .. k : PathOrder[j] = p => j \in 1 .. k - 1
          BY <5>1, <1>1
        <5> QED BY <5>1, <5>2, <5>3 DEF SwappedTo
      <4> QED BY <4>1, <4>2
    <3> QED BY <1>0, <1>2, <3>4, <3>5 DEF SwappedTo
  <2>3. CASE ~ InScope(rs, x.new)
    <3>1. to.members = st.members \ {q} /\ to.texts = st.texts
      BY <2>1, <2>3 DEF SwapMember
    <3>2. ASSUME NEW p \in to.members
          PROVE  \/ InScope(rs, p) /\ to.texts[p] = disk[p]
                 \/ /\ p \in members /\ to.texts[p] = texts[p]
                    /\ \A j \in 1 .. k : PathOrder[j] = p => ~ \E y \in pairs : y.old = p
      <4>1. p \in st.members /\ p # q
        BY <3>1
      <4>2. \A j \in 1 .. k : PathOrder[j] = p => j \in 1 .. k - 1
        BY <4>1, <1>1
      <4> QED BY <3>1, <4>1, <4>2 DEF SwappedTo
    <3> QED BY <1>0, <1>2, <3>1, <3>2 DEF SwappedTo
  <2> QED BY <2>2, <2>3
<1> QED BY <1>3, <1>4

\* A handled rename: what stays a member is no old path of the batch, unless
\* the disk has it in scope again, and then it was read.
LEMMA RenamesApplied ==
  ASSUME Typed, NEW msg, ApplyFileRenames(msg)
  PROVE  /\ roots' = Rebase(roots, msg.dir)
         /\ members' \subseteq Path /\ texts' \in [Path -> Content]
         /\ \A p \in members' :
              \/ InScope(Rebase(roots, msg.dir), p) /\ texts'[p] = disk[p]
              \/ /\ p \in members /\ texts'[p] = texts[p]
                 /\ ~ \E x \in Expand(msg, members) : x.old = p
<1> DEFINE rs == Rebase(roots, msg.dir)
           pairs == Expand(msg, members)
           base == [members |-> members, texts |-> texts]
           n == Len(PathOrder)
<1>1. disk \in [Path -> Content] /\ base \in Tracking
  BY DEF Typed, Tracking
<1>2. roots' = rs /\ \E z : /\ members' = z.members /\ texts' = z.texts
                            /\ z = RenameAll(rs, pairs, base)
  BY DEF ApplyFileRenames, RenameAll
<1> HIDE DEF rs, pairs
<1>3. PICK tr :
        /\ tr[0] = base
        /\ \A k \in 1 .. n : tr[k] = SwapOld(rs, pairs, tr[k - 1], PathOrder[k])
        /\ tr[n] = RenameAll(rs, pairs, base)
  BY <1>1, RenameFold
<1>4. members' = tr[n].members /\ texts' = tr[n].texts
  BY <1>2, <1>3
<1> DEFINE G == {k \in 0 .. n : SwappedTo(rs, pairs, k, tr[k])}
<1>5. 0 \in G
  <2>1. SwappedTo(rs, pairs, 0, base)
    BY <1>1 DEF SwappedTo
  <2>2. 0 \in 0 .. n
    BY PathsInOrder
  <2> HIDE DEF base
  <2> QED BY <2>1, <2>2, <1>3
<1>6. ASSUME NEW k \in 1 .. n, k - 1 \in G PROVE k \in G
  <2>1. SwappedTo(rs, pairs, k - 1, tr[k - 1]) /\ k \in 0 .. n
    BY <1>6, PathsInOrder
  <2>2. SwappedTo(rs, pairs, k, SwapOld(rs, pairs, tr[k - 1], PathOrder[k]))
    BY <2>1, <1>1, SwapOldStep
  <2> QED BY <2>1, <2>2, <1>3
<1>7. n \in G
  <2> HIDE DEF G
  <2>1. n \in Nat /\ n \in 0 .. n
    BY PathsInOrder
  <2> QED BY <2>1, <1>5, <1>6, CountUp
<1>8. SwappedTo(rs, pairs, n, tr[n])
  BY <1>7
<1>9. \A p \in Path : \E j \in 1 .. n : PathOrder[j] = p
  BY PathsInOrder
<1>10. tr[n] \in Tracking
  BY <1>8 DEF SwappedTo
<1>11. members' \subseteq Path /\ texts' \in [Path -> Content]
  BY <1>4, <1>10 DEF Tracking
<1>12. \A p \in members' : \/ InScope(rs, p) /\ texts'[p] = disk[p]
                          \/ /\ p \in members /\ texts'[p] = texts[p]
                             /\ ~ \E x \in pairs : x.old = p
  BY <1>4, <1>8, <1>9, <1>11 DEF SwappedTo
<1> QED BY <1>2, <1>11, <1>12 DEF rs, pairs

-----------------------------------------------------------------------------
\* The watcher's events of a new disk, path by path.
EventOf(new, p) == [path |-> p, kind |-> IF disk[p] = 0 THEN "created"
                                         ELSE IF new[p] = 0 THEN "deleted" ELSE "changed"]

\* At most one event a path, and of what kind.
LEMMA NoticedIs ==
  ASSUME NEW new, NEW seen \in Seq(Events), NEW p \in Path
  PROVE  /\ Noticed(new, seen, p) = IF disk[p] = new[p] THEN seen ELSE Append(seen, EventOf(new, p))
         /\ EventOf(new, p) \in Events
         /\ Noticed(new, seen, p) \in Seq(Events)
<1>1. EventOf(new, p) \in Events
  BY DEF EventOf, Events
<1>2. CASE disk[p] = new[p]
  BY <1>1, <1>2 DEF Noticed
<1>3. CASE disk[p] # new[p]
  <2>1. Noticed(new, seen, p) = Append(seen, EventOf(new, p))
    BY <1>3 DEF Noticed, EventOf
  <2> QED BY <1>1, <1>3, <2>1
<1> QED BY <1>2, <1>3

NoticeAll(new, base) == FoldLeft(LAMBDA seen, p : Noticed(new, seen, p), base, PathOrder)

\* The watcher's pass over the paths as a trace: its events after each path.
LEMMA NoticeFold ==
  ASSUME NEW new, NEW base \in Seq(Events)
  PROVE  \E tr :
           /\ tr[0] = base
           /\ \A k \in 1 .. Len(PathOrder) : tr[k] = Noticed(new, tr[k - 1], PathOrder[k])
           /\ tr[Len(PathOrder)] = NoticeAll(new, base)
<1> DEFINE X == Seq(Events)
           F == [z \in X \X Path |-> Noticed(new, z[1], z[2])]
<1>1. \A x \in X, p \in Path : F[<<x, p>>] = Noticed(new, x, p) /\ F[<<x, p>>] \in X
  BY NoticedIs
<1>3. PICK it : IsFold(it, X, F, base, PathOrder)
  <2>1. \A x \in X, p \in Path : F[<<x, p>>] \in X
    BY <1>1
  <2> HIDE DEF F
  <2> QED BY <2>1, FoldExists, PathsInOrder
<1>4. \A s \in SUBSET (1 .. Len(PathOrder)) :
        it[s] = IF s = {} THEN base ELSE Noticed(new, it[s \ {Max(s)}], PathOrder[Max(s)])
  <2> SUFFICES ASSUME NEW s \in SUBSET (1 .. Len(PathOrder)), s # {}
               PROVE  F[<<it[s \ {Max(s)}], PathOrder[Max(s)]>>]
                        = Noticed(new, it[s \ {Max(s)}], PathOrder[Max(s)])
    BY <1>3 DEF IsFold
  <2>1. Max(s) \in 1 .. Len(PathOrder)
    BY GreatestOf, PathsInOrder
  <2>2. PathOrder[Max(s)] \in Path
    BY <2>1, PathsInOrder
  <2>3. it[s \ {Max(s)}] \in X
    <3>1. s \ {Max(s)} \in SUBSET (1 .. Len(PathOrder))
      OBVIOUS
    <3> QED BY <3>1, <1>3 DEF IsFold
  <2> HIDE DEF F
  <2> QED BY <2>2, <2>3, <1>1
<1>5. \E f : f = [s \in SUBSET DOMAIN PathOrder |->
                    IF s = {} THEN base ELSE Noticed(new, f[s \ {Max(s)}], PathOrder[Max(s)])]
  <2>1. it = [s \in SUBSET (1 .. Len(PathOrder)) |->
                IF s = {} THEN base ELSE Noticed(new, it[s \ {Max(s)}], PathOrder[Max(s)])]
    BY <1>3, <1>4 DEF IsFold
  <2> QED BY <2>1, PathsInOrder
<1>6. PICK f : /\ f = [s \in SUBSET DOMAIN PathOrder |->
                         IF s = {} THEN base ELSE Noticed(new, f[s \ {Max(s)}], PathOrder[Max(s)])]
               /\ NoticeAll(new, base) = f[DOMAIN PathOrder]
  BY <1>5 DEF NoticeAll, FoldLeft, MapThenFoldSet
<1> DEFINE tr == [k \in 0 .. Len(PathOrder) |-> f[1 .. k]]
<1>7. tr[0] = base
  <2>1. {} \in SUBSET DOMAIN PathOrder /\ 1 .. 0 = {}
    OBVIOUS
  <2>2. f[{}] = base
    BY <1>6
  <2> QED BY <2>1, <2>2, PathsInOrder
<1>8. ASSUME NEW k \in 1 .. Len(PathOrder) PROVE tr[k] = Noticed(new, tr[k - 1], PathOrder[k])
  <2>1. /\ 1 .. k \in SUBSET DOMAIN PathOrder /\ 1 .. k # {}
        /\ Max(1 .. k) = k /\ (1 .. k) \ {k} = 1 .. k - 1
    BY FirstPositions, PathsInOrder
  <2>2. f[1 .. k] = Noticed(new, f[1 .. k - 1], PathOrder[k])
    BY <2>1, <1>6
  <2>3. tr[k] = f[1 .. k] /\ tr[k - 1] = f[1 .. k - 1]
    BY PathsInOrder
  <2> HIDE DEF tr
  <2> QED BY <2>2, <2>3
<1>9. tr[Len(PathOrder)] = f[DOMAIN PathOrder]
  BY PathsInOrder
<1> HIDE DEF tr
<1> QED BY <1>6, <1>7, <1>8, <1>9

\* What Append makes of a sequence, position by position.
LEMMA Appended ==
  ASSUME NEW S, NEW s \in Seq(S), NEW e \in S
  PROVE  /\ Append(s, e) \in Seq(S) /\ Len(Append(s, e)) = Len(s) + 1 /\ Len(s) \in Nat
         /\ \A i \in 1 .. Len(s) : Append(s, e)[i] = s[i]
         /\ Append(s, e)[Len(s) + 1] = e
OBVIOUS

Among(e, s) == \E i \in 1 .. Len(s) : s[i] = e

NoticedTo(new, k, seen) ==
  /\ seen \in Seq(Events)
  /\ \A i \in 1 .. Len(events) : Among(events[i], seen)
  /\ \A j \in 1 .. k : disk[PathOrder[j]] # new[PathOrder[j]] => Among(EventOf(new, PathOrder[j]), seen)

\* No event is lost, and each path that differs has its event.
LEMMA AllNoticed ==
  ASSUME events \in Seq(Events), NEW new, SetDisk(new)
  PROVE  /\ events' \in Seq(Events)
         /\ \A i \in 1 .. Len(events) : Among(events[i], events')
         /\ \A p \in Path : disk[p] # new[p] => Among(EventOf(new, p), events')
<1> DEFINE n == Len(PathOrder)
<1>2. events' = NoticeAll(new, events)
  BY DEF SetDisk, NoticeAll
<1>3. PICK tr :
        /\ tr[0] = events
        /\ \A k \in 1 .. n : tr[k] = Noticed(new, tr[k - 1], PathOrder[k])
        /\ tr[n] = NoticeAll(new, events)
  BY NoticeFold
<1> DEFINE G == {k \in 0 .. n : NoticedTo(new, k, tr[k])}
<1>5. 0 \in G
  <2>1. 0 \in 0 .. n
    BY PathsInOrder
  <2> QED BY <2>1, <1>3 DEF NoticedTo, Among
<1>6. ASSUME NEW k \in 1 .. n, k - 1 \in G PROVE k \in G
  <2>1. NoticedTo(new, k - 1, tr[k - 1]) /\ k \in 0 .. n /\ PathOrder[k] \in Path
    BY <1>6, PathsInOrder
  <2>2. PICK old : old = tr[k - 1]
    OBVIOUS
  <2>3. old \in Seq(Events)
    BY <2>1, <2>2 DEF NoticedTo
  <2>4. /\ tr[k] = IF disk[PathOrder[k]] = new[PathOrder[k]] THEN old
                   ELSE Append(old, EventOf(new, PathOrder[k]))
        /\ EventOf(new, PathOrder[k]) \in Events
    BY <1>3, <2>1, <2>2, <2>3, NoticedIs
  <2>5. /\ tr[k] \in Seq(Events)
        /\ \A e : Among(e, old) => Among(e, tr[k])
        /\ disk[PathOrder[k]] # new[PathOrder[k]] => Among(EventOf(new, PathOrder[k]), tr[k])
    <3>1. CASE disk[PathOrder[k]] = new[PathOrder[k]]
      BY <3>1, <2>3, <2>4
    <3>2. CASE disk[PathOrder[k]] # new[PathOrder[k]]
      <4>1. tr[k] = Append(old, EventOf(new, PathOrder[k]))
        BY <3>2, <2>4
      <4>2. /\ tr[k] \in Seq(Events) /\ Len(tr[k]) = Len(old) + 1 /\ Len(old) \in Nat
            /\ \A i \in 1 .. Len(old) : tr[k][i] = old[i]
            /\ tr[k][Len(old) + 1] = EventOf(new, PathOrder[k])
        <5>1. \A e \in Events :
                /\ Append(old, e) \in Seq(Events) /\ Len(Append(old, e)) = Len(old) + 1
                /\ Len(old) \in Nat /\ Append(old, e)[Len(old) + 1] = e
                /\ \A i \in 1 .. Len(old) : Append(old, e)[i] = old[i]
          BY <2>3, Appended
        <5>2. EventOf(new, PathOrder[k]) \in Events
          BY <2>4
        <5> HIDE DEF EventOf
        <5> QED BY <4>1, <5>1, <5>2
      <4>3. /\ Len(old) + 1 \in 1 .. Len(tr[k])
            /\ \A i \in 1 .. Len(old) : i \in 1 .. Len(tr[k])
        BY <4>2
      <4> HIDE DEF EventOf
      <4> QED BY <4>2, <4>3 DEF Among
    <3> QED BY <3>1, <3>2
  <2>6. \A j \in 1 .. k : j = k \/ j \in 1 .. k - 1
    BY PathsInOrder
  <2>7. NoticedTo(new, k, tr[k])
    BY <2>1, <2>2, <2>5, <2>6 DEF NoticedTo
  <2> QED BY <2>1, <2>7
<1>7. n \in G
  <2> HIDE DEF G
  <2>1. n \in Nat /\ n \in 0 .. n
    BY PathsInOrder
  <2> QED BY <2>1, <1>5, <1>6, CountUp
<1>8. NoticedTo(new, n, events')
  BY <1>2, <1>3, <1>7
<1>9. \A p \in Path : \E j \in 1 .. n : PathOrder[j] = p
  BY PathsInOrder
<1> QED BY <1>8, <1>9 DEF NoticedTo
-----------------------------------------------------------------------------
\* Types.
\* What a queue holds after an enqueue, as a set.
LEMMA Queued ==
  ASSUME NEW S, NEW s \in Seq(S), NEW e \in S
  PROVE  Append(s, e) \in Seq(S) /\ Range(Append(s, e)) = Range(s) \cup {e}
<1>1. Append(s, e) \in Seq(S) /\ Len(Append(s, e)) = Len(s) + 1 /\ Len(s) \in Nat
      /\ (\A i \in 1 .. Len(s) : Append(s, e)[i] = s[i]) /\ Append(s, e)[Len(s) + 1] = e
  BY Appended
<1>2. PICK t \in Seq(S) : t = Append(s, e)
  BY <1>1
<1>3. DOMAIN t = 1 .. Len(s) + 1 /\ DOMAIN s = 1 .. Len(s)
  BY <1>1, <1>2
<1>4. ASSUME NEW z PROVE z \in Range(t) <=> z \in Range(s) \cup {e}
  <2>1. Len(s) + 1 \in DOMAIN t /\ \A i \in DOMAIN s : i \in DOMAIN t
    BY <1>1, <1>3
  <2>2. \A i \in DOMAIN t : i \in DOMAIN s \/ i = Len(s) + 1
    BY <1>1, <1>3
  <2> QED BY <1>1, <1>2, <1>3, <2>1, <2>2 DEF Range
<1>5. Range(t) = Range(s) \cup {e}
  BY <1>4
<1> QED BY <1>1, <1>2, <1>5

\* What a queue holds after a dequeue, as a set.
LEMMA Dequeued ==
  ASSUME NEW S, NEW s \in Seq(S), s # << >>
  PROVE  /\ Head(s) \in S /\ Tail(s) \in Seq(S)
         /\ Range(s) = {Head(s)} \cup Range(Tail(s))
<1>1. /\ Head(s) = s[1] /\ Head(s) \in S /\ Tail(s) \in Seq(S) /\ Len(s) \in Nat /\ Len(s) >= 1
      /\ Len(Tail(s)) = Len(s) - 1 /\ \A i \in 1 .. Len(s) - 1 : Tail(s)[i] = s[i + 1]
  OBVIOUS
<1>2. PICK t \in Seq(S) : t = Tail(s)
  BY <1>1
<1>3. DOMAIN t = 1 .. Len(s) - 1 /\ DOMAIN s = 1 .. Len(s)
  BY <1>1, <1>2
<1>4. ASSUME NEW z PROVE z \in Range(s) <=> z \in {Head(s)} \cup Range(t)
  <2>1. 1 \in DOMAIN s /\ \A i \in DOMAIN t : i + 1 \in DOMAIN s
    BY <1>1, <1>3
  <2>2. \A i \in DOMAIN s : i = 1 \/ (i - 1 \in DOMAIN t /\ s[i] = t[i - 1])
    BY <1>1, <1>2, <1>3
  <2>3. \A i \in DOMAIN t : t[i] = s[i + 1]
    BY <1>1, <1>2, <1>3
  <2> QED BY <1>1, <2>1, <2>2, <2>3 DEF Range
<1>5. Range(s) = {Head(s)} \cup Range(t)
  BY <1>4
<1> QED BY <1>1, <1>2, <1>5

Messages == Renames \cup Watches \cup Seeds

\* The fields of each kind of message, and the kind from the type.
LEMMA MessageTypes ==
  /\ \A m \in Renames : m.type = "rename" /\ m.files \subseteq [old : Path, new : Path]
                        /\ m.dir \subseteq [old : Dirs, new : Dirs]
  /\ \A m \in Watches : m.type = "watch" /\ m.created \subseteq Path
                        /\ m.deleted \subseteq Path /\ m.changed \subseteq Path
  /\ \A m \in Seeds : m.type = "seed" /\ m.roots \subseteq Root
  /\ \A m \in Messages : /\ m.type = "rename" => m \in Renames
                         /\ m.type = "watch" => m \in Watches
                         /\ m.type = "seed" => m \in Seeds
                         /\ m.type \in {"rename", "watch", "seed"}
BY DEF Renames, Watches, Seeds, Messages

\* Every directory is a root, and "w" is none of them.
LEMMA RootTypes ==
  /\ \A p \in Path : p.d \in Dirs /\ p.d \in Root
  /\ Dirs \subseteq Root /\ "w" \notin Dirs
BY MembershipAssumption DEF Dirs, Root

\* Reading some paths from the disk, pointwise.
LEMMA ReadFromType ==
  ASSUME disk \in [Path -> Content], NEW ps, NEW ts \in [Path -> Content]
  PROVE  /\ ReadFrom(ps, ts) \in [Path -> Content]
         /\ \A p \in Path : ReadFrom(ps, ts)[p] = IF p \in ps THEN disk[p] ELSE ts[p]
BY DEF ReadFrom

\* A seed finds files.
LEMMA SeedIsRead ==
  ASSUME NEW rs
  PROVE  Seed(rs) \subseteq Path /\ \A p \in Seed(rs) : disk[p] # 0
BY DEF Seed, Walk

\* What is in scope of some roots is what their seed finds.
LEMMA InScopeIsSeed ==
  ASSUME NEW rs, NEW p, InScope(rs, p)
  PROVE  p \in Seed(rs) /\ p \in Path /\ disk[p] # 0
<1>1. PICK r \in rs : Under(r, p)
  BY DEF InScope
<1>2. OwningRoot(rs, p) \in rs
  BY <1>1 DEF Under, OwningRoot
<1>3. p \in Walk(OwningRoot(rs, p))
  BY DEF InScope
<1> QED BY <1>2, <1>3 DEF Seed, Walk

\* Rebased roots are roots.
LEMMA RebaseType ==
  ASSUME NEW rs, rs \subseteq Root, NEW dirs, dirs \subseteq [old : Dirs, new : Dirs]
  PROVE  Rebase(rs, dirs) \subseteq Root
<1>1. \A r : (\E x \in dirs : x.old = r) => (CHOOSE x \in dirs : x.old = r).new \in Root
  BY RootTypes
<1> QED BY <1>1 DEF Rebase

\* The disk after a batch is a disk.
LEMMA MovedType ==
  ASSUME disk \in [Path -> Content], NEW batch
  PROVE  Moved(batch) \in [Path -> Content]
<1>1. 0 \in Content
  BY MembershipAssumption DEF Content
<1>2. ASSUME NEW p \in Path,
             NEW from, from = {q \in Path : disk[q] # 0 /\ Target(batch, q) = p},
             NEW movers, movers = {q \in from : q # p}
      PROVE  (IF movers # {} THEN disk[CHOOSE q \in movers : TRUE]
              ELSE IF from # {} THEN disk[p] ELSE 0) \in Content
  <2>1. movers # {} => (CHOOSE q \in movers : TRUE) \in Path
    BY <1>2
  <2> QED BY <1>1, <2>1
<1> QED BY <1>2 DEF Moved

\* The three handlers, as what they leave of a member.
LEMMA WatchApplied ==
  ASSUME Typed, NEW msg \in Watches, ApplyRMembership(msg)
  PROVE  /\ roots' = roots /\ members' \subseteq Path /\ texts' \in [Path -> Content]
         /\ \A p \in members' :
              \/ InScope(roots, p) /\ texts'[p] = disk[p]
              \/ /\ p \in members /\ p \notin msg.deleted
                 /\ \/ texts'[p] = texts[p] /\ (p \in msg.changed => disk[p] = 0)
                    \/ texts'[p] = disk[p] /\ disk[p] # 0
<1> DEFINE added == {p \in msg.created : InScope(roots, p)}
           read  == {p \in msg.changed : disk[p] # 0} \union added
<1>1. members' = (members \ msg.deleted) \union added /\ texts' = ReadFrom(read, texts) /\ roots' = roots
  BY DEF ApplyRMembership
<1>2. msg.created \subseteq Path
  BY MessageTypes
<1>3. /\ texts' \in [Path -> Content]
      /\ \A p \in Path : texts'[p] = IF p \in read THEN disk[p] ELSE texts[p]
  BY <1>1, ReadFromType DEF Typed
<1>4. members' \subseteq Path
  BY <1>1, <1>2 DEF Typed
<1>5. ASSUME NEW p \in members', p \notin added
      PROVE  /\ p \in members /\ p \notin msg.deleted
             /\ \/ texts'[p] = texts[p] /\ (p \in msg.changed => disk[p] = 0)
                \/ texts'[p] = disk[p] /\ disk[p] # 0
  <2>1. p \in members /\ p \notin msg.deleted /\ p \in Path
    BY <1>1, <1>4, <1>5
  <2>2. p \in read <=> p \in msg.changed /\ disk[p] # 0
    BY <1>5
  <2> HIDE DEF read
  <2> QED BY <1>3, <2>1, <2>2
<1>6. ASSUME NEW p \in added PROVE InScope(roots, p) /\ texts'[p] = disk[p]
  BY <1>2, <1>3
<1> QED BY <1>1, <1>3, <1>4, <1>5, <1>6

\* A handled seed: a member was found by it, or it was one before.
LEMMA SeedApplied ==
  ASSUME Typed, NEW msg \in Seeds, SeedWorkspace(msg)
  PROVE  /\ roots' = msg.roots /\ members' \subseteq Path /\ texts' \in [Path -> Content]
         /\ \A p \in members' :
              \/ p \in Seed(msg.roots) /\ texts'[p] = disk[p]
              \/ p \in members /\ texts'[p] = texts[p]
<1>1. members' = members \union Seed(msg.roots) /\ texts' = ReadFrom(Seed(msg.roots), texts)
      /\ roots' = msg.roots
  BY DEF SeedWorkspace
<1>2. /\ texts' \in [Path -> Content]
      /\ \A p \in Path : texts'[p] = IF p \in Seed(msg.roots) THEN disk[p] ELSE texts[p]
  BY <1>1, ReadFromType DEF Typed
<1> QED BY <1>1, <1>2, SeedIsRead DEF Typed

\* A handled message, whatever its kind: a member was found by a seed of the
\* roots that are tracked by then and read, or it stayed one, and why it may.
Stays(msg, p) ==
  /\ p \in members
  /\ msg.type = "rename" => /\ ~ \E x \in Expand(msg, members) : x.old = p
                            /\ texts'[p] = texts[p]
  /\ msg.type = "watch" => /\ p \notin msg.deleted
                           /\ \/ texts'[p] = texts[p] /\ (p \in msg.changed => disk[p] = 0)
                              \/ texts'[p] = disk[p] /\ disk[p] # 0
  /\ msg.type = "seed" => texts'[p] = texts[p]

LEMMA Handled ==
  ASSUME Typed, Handle
  PROVE  /\ Head(inbox) \in Messages /\ UNCHANGED client
         /\ Range(inbox) = {Head(inbox)} \cup Range(inbox')
         /\ inbox' = Tail(inbox) /\ inbox # << >> /\ inbox' \in Seq(Messages)
         /\ roots' = CASE Head(inbox).type = "rename" -> Rebase(roots, Head(inbox).dir)
                       [] Head(inbox).type = "watch" -> roots
                       [] Head(inbox).type = "seed" -> Head(inbox).roots
         /\ roots' \subseteq Root
         /\ members' \subseteq Path /\ texts' \in [Path -> Content]
         /\ \A p \in members' : (p \in Seed(roots') /\ texts'[p] = disk[p]) \/ Stays(Head(inbox), p)
<1> DEFINE m == Head(inbox)
<1>1. inbox \in Seq(Messages) /\ inbox # << >> /\ inbox' = Tail(inbox)
  BY DEF Handle, Typed, Messages
<1>2. m \in Messages /\ inbox' \in Seq(Messages) /\ Range(inbox) = {m} \cup Range(inbox')
  BY <1>1, Dequeued
<1>3. UNCHANGED client
  BY DEF Handle
<1>4. CASE m.type = "rename"
  <2>1. ApplyFileRenames(m)
    BY <1>4 DEF Handle
  <2>2. /\ roots' = Rebase(roots, m.dir) /\ members' \subseteq Path /\ texts' \in [Path -> Content]
        /\ \A p \in members' :
              \/ InScope(Rebase(roots, m.dir), p) /\ texts'[p] = disk[p]
              \/ /\ p \in members /\ texts'[p] = texts[p]
                 /\ ~ \E x \in Expand(m, members) : x.old = p
    BY <2>1, RenamesApplied
  <2>3. \A p \in members' : (p \in Seed(roots') /\ texts'[p] = disk[p]) \/ Stays(m, p)
    BY <2>2, <1>4, InScopeIsSeed DEF Stays
  <2>4. Rebase(roots, m.dir) \subseteq Root
    BY <1>2, <1>4, MessageTypes, RebaseType DEF Typed
  <2> QED BY <1>1, <1>2, <1>3, <1>4, <2>2, <2>3, <2>4
<1>5. CASE m.type = "watch"
  <2>1. ApplyRMembership(m) /\ m \in Watches
    BY <1>2, <1>5, MessageTypes DEF Handle
  <2>2. /\ roots' = roots /\ members' \subseteq Path /\ texts' \in [Path -> Content]
        /\ \A p \in members' :
              \/ InScope(roots, p) /\ texts'[p] = disk[p]
              \/ /\ p \in members /\ p \notin m.deleted
                 /\ \/ texts'[p] = texts[p] /\ (p \in m.changed => disk[p] = 0)
                    \/ texts'[p] = disk[p] /\ disk[p] # 0
    BY <2>1, WatchApplied
  <2>3. \A p \in members' : (p \in Seed(roots') /\ texts'[p] = disk[p]) \/ Stays(m, p)
    BY <2>2, <1>5, InScopeIsSeed DEF Stays
  <2>4. roots' \subseteq Root
    BY <2>2 DEF Typed
  <2> QED BY <1>1, <1>2, <1>3, <1>5, <2>2, <2>3, <2>4
<1>6. CASE m.type = "seed"
  <2>1. SeedWorkspace(m) /\ m \in Seeds
    BY <1>2, <1>6, MessageTypes DEF Handle
  <2>2. /\ roots' = m.roots /\ members' \subseteq Path /\ texts' \in [Path -> Content]
        /\ \A p \in members' :
              \/ p \in Seed(m.roots) /\ texts'[p] = disk[p]
              \/ p \in members /\ texts'[p] = texts[p]
    BY <2>1, SeedApplied
  <2>3. \A p \in members' : (p \in Seed(roots') /\ texts'[p] = disk[p]) \/ Stays(m, p)
    BY <2>2, <1>6 DEF Stays
  <2>4. roots' \subseteq Root
    BY <2>1, <2>2, MessageTypes
  <2> QED BY <1>1, <1>2, <1>3, <1>6, <2>2, <2>3, <2>4
<1> QED BY <1>2, <1>4, <1>5, <1>6, MessageTypes

\* Among is membership in the range.
LEMMA AmongIsInRange ==
  ASSUME NEW S, NEW s \in Seq(S), NEW e
  PROVE  Among(e, s) <=> e \in Range(s)
<1>1. DOMAIN s = 1 .. Len(s)
  OBVIOUS
<1> QED BY <1>1 DEF Among, Range

\* A changed or deleted file has its event from then on.
LEMMA EventsOfSetDisk ==
  ASSUME Typed, NEW new \in [Path -> Content], SetDisk(new)
  PROVE  /\ disk' \in [Path -> Content] /\ disk' = new
         /\ events' \in Seq(Events) /\ Range(events) \subseteq Range(events')
         /\ \A p \in Path : disk'[p] # disk[p] /\ disk[p] # 0 =>
              [path |-> p, kind |-> IF disk'[p] = 0 THEN "deleted" ELSE "changed"] \in Range(events')
<1>1. disk' = new
  BY DEF SetDisk
<1>2. events \in Seq(Events)
  BY DEF Typed
<1>3. /\ events' \in Seq(Events)
      /\ \A i \in 1 .. Len(events) : Among(events[i], events')
      /\ \A p \in Path : disk[p] # new[p] => Among(EventOf(new, p), events')
  BY <1>2, AllNoticed
<1>4. \A e : Among(e, events') <=> e \in Range(events')
  BY <1>3, AmongIsInRange
<1>5. Range(events) \subseteq Range(events')
  <2>1. \A e \in Range(events) : \E i \in 1 .. Len(events) : events[i] = e
    BY <1>2 DEF Range
  <2> QED BY <2>1, <1>3, <1>4
<1>6. ASSUME NEW p \in Path, disk'[p] # disk[p], disk[p] # 0
      PROVE  [path |-> p, kind |-> IF disk'[p] = 0 THEN "deleted" ELSE "changed"] \in Range(events')
  <2>1. EventOf(new, p) \in Range(events')
    BY <1>1, <1>3, <1>4, <1>6
  <2>2. EventOf(new, p) = [path |-> p, kind |-> IF disk'[p] = 0 THEN "deleted" ELSE "changed"]
    BY <1>1, <1>6 DEF EventOf
  <2> QED BY <2>1, <2>2
<1> QED BY <1>1, <1>3, <1>5, <1>6

\* The paths a rename takes away.
Olds(m, p) == IF m.dir = {} THEN \E x \in m.files : x.old = p ELSE \E x \in m.dir : x.old = p.d

\* What the client does to the disk, and what it will tell of it.
Edits ==
  \/ \E p \in Path : Write(p) \/ Delete(p)
  \/ \E b \in FileBatches : RenameFiles(b)
  \/ \E x \in DirRenames : RenameDir(x)

ToldOf(m) == told' = Append(told, m) /\ folders' = Rebase(folders, m.dir)

DiskEdited ==
  /\ UNCHANGED <<inbox, members, roots, texts>>
  /\ changes' \in 0 .. MaxChanges
  /\ disk' \in [Path -> Content]
  /\ events' \in Seq(Events) /\ Range(events) \subseteq Range(events')
  /\ \A p \in Path : disk'[p] # disk[p] /\ disk[p] # 0 =>
       [path |-> p, kind |-> IF disk'[p] = 0 THEN "deleted" ELSE "changed"] \in Range(events')

EditTold ==
  \/ /\ told' = told /\ folders' = folders /\ gone' \subseteq gone
     /\ \A p \in gone' : disk'[p] = disk[p] \/ disk'[p] = 0
  \/ \E m \in Renames :
       /\ ToldOf(m) /\ m.dir \subseteq DirRenames
       /\ gone' \subseteq Path
       /\ \A p \in gone' : disk'[p] = 0 /\ (p \in gone \/ Olds(m, p))

\* A step of the client on the disk: the events it causes, and the rename it
\* will tell of, whose paths are gone.
LEMMA Edited ==
  ASSUME Typed, Edits
  PROVE  DiskEdited /\ EditTold
<1>0. /\ MaxChanges \in Nat /\ disk \in [Path -> Content] /\ 0 \in Content
      /\ Change => changes' \in 0 .. MaxChanges /\ changes + 2 \in Content
  BY MembershipAssumption DEF Typed, Content, Change
<1>1. ASSUME NEW p \in Path, Write(p) PROVE DiskEdited /\ EditTold
  <2>1. PICK new : new = [disk EXCEPT ![p] = changes + 2]
    OBVIOUS
  <2>2. Change /\ SetDisk(new) /\ gone' = gone \ {p}
        /\ UNCHANGED <<folders, told, inbox, members, roots, texts>>
    BY <1>1, <2>1 DEF Write
  <2>3. new \in [Path -> Content] /\ \A q \in Path : q # p => new[q] = disk[q]
    BY <1>0, <2>1, <2>2
  <2>4. DiskEdited /\ disk' = new
    BY <1>0, <2>2, <2>3, EventsOfSetDisk DEF DiskEdited
  <2>5. gone \subseteq Path
    BY DEF Typed
  <2> QED BY <2>2, <2>3, <2>4, <2>5 DEF EditTold
<1>2. ASSUME NEW p \in Path, Delete(p) PROVE DiskEdited /\ EditTold
  <2>1. PICK new : new = [disk EXCEPT ![p] = 0]
    OBVIOUS
  <2>2. Change /\ SetDisk(new) /\ gone' = gone
        /\ UNCHANGED <<folders, told, inbox, members, roots, texts>>
    BY <1>2, <2>1 DEF Delete
  <2>3. new \in [Path -> Content] /\ \A q \in Path : q # p => new[q] = disk[q]
    BY <1>0, <2>1
  <2>4. DiskEdited /\ disk' = new
    BY <1>0, <2>2, <2>3, EventsOfSetDisk DEF DiskEdited
  <2>5. gone \subseteq Path /\ new[p] = 0
    BY <1>0, <2>1 DEF Typed
  <2> QED BY <2>2, <2>3, <2>4, <2>5 DEF EditTold
<1>3. ASSUME NEW b, Change, Rename(b), UNCHANGED <<inbox, members, roots, texts>>
      PROVE  DiskEdited /\ gone' = {p \in gone \union {x.old : x \in b} : disk'[p] = 0}
  <2>1. Moved(b) \in [Path -> Content]
    BY <1>0, MovedType
  <2>2. SetDisk(Moved(b)) /\ gone' = {p \in gone \union {x.old : x \in b} : Moved(b)[p] = 0}
    BY <1>3 DEF Rename
  <2>3. DiskEdited /\ disk' = Moved(b)
    BY <1>0, <1>3, <2>1, <2>2, EventsOfSetDisk DEF DiskEdited
  <2> QED BY <2>2, <2>3
<1>4. ASSUME NEW b \in FileBatches, RenameFiles(b) PROVE DiskEdited /\ EditTold
  <2>1. PICK m : m = [type |-> "rename", files |-> b, dir |-> {}]
    OBVIOUS
  <2>2. /\ Change /\ Rename(b) /\ told' = Append(told, m)
        /\ UNCHANGED <<folders, inbox, members, roots, texts>>
    BY <1>4, <2>1 DEF RenameFiles
  <2>3. DiskEdited /\ gone' = {p \in gone \union {x.old : x \in b} : disk'[p] = 0}
    BY <1>3, <2>2
  <2>4. m \in Renames /\ m.dir = {} /\ m.files = b /\ b \subseteq [old : Path, new : Path]
    BY <2>1, MembershipAssumption DEF Renames
  <2>5. Rebase(folders, m.dir) = folders
    BY <2>4 DEF Rebase
  <2>6. ToldOf(m)
    BY <2>2, <2>5 DEF ToldOf
  <2>7. \A x \in b : x.old \in Path /\ Olds(m, x.old)
    BY <2>4 DEF Olds
  <2>8. gone \subseteq Path
    BY DEF Typed
  <2>9. gone' \subseteq Path /\ \A p \in gone' : disk'[p] = 0 /\ (p \in gone \/ Olds(m, p))
    BY <2>3, <2>7, <2>8
  <2>10. m.dir \subseteq DirRenames
    BY <2>4
  <2> QED BY <2>3, <2>4, <2>6, <2>9, <2>10 DEF EditTold
<1>5. ASSUME NEW y \in DirRenames, RenameDir(y) PROVE DiskEdited /\ EditTold
  <2>1. PICK m : m = [type |-> "rename", files |-> {}, dir |-> {y}]
    OBVIOUS
  <2>2. PICK b : b = Below(y, Path)
    OBVIOUS
  <2>3. /\ Change /\ Rename(b) /\ told' = Append(told, m)
        /\ folders' = {IF r = y.old THEN y.new ELSE r : r \in folders}
        /\ UNCHANGED <<inbox, members, roots, texts>>
    BY <1>5, <2>1, <2>2 DEF RenameDir
  <2>4. DiskEdited /\ gone' = {p \in gone \union {x.old : x \in b} : disk'[p] = 0}
    BY <1>3, <2>3
  <2>5. m \in Renames /\ m.dir = {y} /\ m.dir \subseteq DirRenames
    BY <2>1, MembershipAssumption DEF Renames
  <2>6. \A r : (IF r = y.old THEN y.new ELSE r)
             = (IF \E x \in m.dir : x.old = r THEN (CHOOSE x \in m.dir : x.old = r).new ELSE r)
    <3> TAKE r
    <3>1. CASE r = y.old
      <4>1. \E x \in m.dir : x.old = r
        BY <2>5, <3>1
      <4>2. (CHOOSE x \in m.dir : x.old = r) = y
        BY <2>5, <3>1
      <4> QED BY <3>1, <4>1, <4>2
    <3>2. CASE r # y.old
      BY <2>5, <3>2
    <3> QED BY <3>1, <3>2
  <2>7. folders' = Rebase(folders, m.dir)
    <3> DEFINE A(r) == IF r = y.old THEN y.new ELSE r
               B(r) == IF \E x \in m.dir : x.old = r THEN (CHOOSE x \in m.dir : x.old = r).new ELSE r
    <3>1. \A r : A(r) = B(r)
      BY <2>6
    <3>2. folders' = {A(r) : r \in folders} /\ Rebase(folders, m.dir) = {B(r) : r \in folders}
      BY <2>3 DEF Rebase
    <3> HIDE DEF A, B
    <3> QED BY <3>1, <3>2
  <2>8. ToldOf(m)
    BY <2>3, <2>7 DEF ToldOf
  <2>9. \A x \in b : x.old \in Path /\ Olds(m, x.old)
    <3>1. \A x \in b : x.old \in Path /\ x.old.d = y.old
      BY <2>2 DEF Below
    <3> QED BY <3>1, <2>5 DEF Olds
  <2>10. gone \subseteq Path
    BY DEF Typed
  <2>11. gone' \subseteq Path /\ \A p \in gone' : disk'[p] = 0 /\ (p \in gone \/ Olds(m, p))
    BY <2>4, <2>9, <2>10
  <2> QED BY <2>4, <2>5, <2>8, <2>11 DEF EditTold
<1> QED BY <1>1, <1>2, <1>4, <1>5 DEF Edits

\* The steps that only move what is under way.
LEMMA Notified ==
  ASSUME Typed, NotifyRename
  PROVE  /\ UNCHANGED <<disk, events, folders, gone, changes, members, roots, texts>>
         /\ told # << >> /\ told' = Tail(told) /\ Head(told) \in Renames
         /\ inbox' = Append(inbox, Head(told))
         /\ told' \in Seq(Renames) /\ inbox' \in Seq(Messages)
         /\ Range(told) = {Head(told)} \cup Range(told')
         /\ Range(inbox') = Range(inbox) \cup {Head(told)}
<1>1. told \in Seq(Renames) /\ inbox \in Seq(Messages)
  BY DEF Typed, Messages
<1>2. /\ told # << >> /\ told' = Tail(told) /\ inbox' = Append(inbox, Head(told))
      /\ UNCHANGED <<disk, events, folders, gone, changes, members, roots, texts>>
  BY DEF NotifyRename
<1>3. Head(told) \in Renames /\ told' \in Seq(Renames) /\ Range(told) = {Head(told)} \cup Range(told')
  BY <1>1, <1>2, Dequeued
<1>4. Head(told) \in Messages
  BY <1>3 DEF Messages
<1>5. inbox' \in Seq(Messages) /\ Range(inbox') = Range(inbox) \cup {Head(told)}
  BY <1>1, <1>2, <1>4, Queued
<1> QED BY <1>2, <1>3, <1>5

\* A reported event is in the batch under its kind, the others stay.
LEMMA Reported ==
  ASSUME Typed, NEW n \in 1 .. Len(events), Report(n)
  PROVE  /\ UNCHANGED <<disk, folders, told, gone, changes, members, roots, texts>>
         /\ events' \in Seq(Events) /\ inbox' \in Seq(Messages)
         /\ \E m \in Watches :
              /\ inbox' = Append(inbox, m) /\ Range(inbox') = Range(inbox) \cup {m}
              /\ \A e \in Range(events) : \/ e \in Range(events')
                                          \/ e.kind = "deleted" /\ e.path \in m.deleted
                                          \/ e.kind = "changed" /\ e.path \in m.changed
                                          \/ e.kind = "created"
<1> DEFINE of(kind) == {events[i].path : i \in {j \in 1 .. n : events[j].kind = kind}}
<1>0. events \in Seq(Events) /\ inbox \in Seq(Messages) /\ Len(events) \in Nat
  BY DEF Typed, Messages
<1>1. PICK m : m = [type |-> "watch", created |-> of("created"),
                    deleted |-> of("deleted"), changed |-> of("changed")]
  OBVIOUS
<1>2. /\ inbox' = Append(inbox, m) /\ events' = SubSeq(events, n + 1, Len(events))
      /\ UNCHANGED <<disk, folders, told, gone, changes, members, roots, texts>>
  BY <1>1 DEF Report
<1>3. \A i \in 1 .. Len(events) : events[i].path \in Path
                                  /\ events[i].kind \in {"created", "deleted", "changed"}
  <2>1. \A i \in 1 .. Len(events) : events[i] \in Events
    BY <1>0
  <2> QED BY <2>1 DEF Events
<1>4. m \in Watches
  <2>1. \A kind : of(kind) \subseteq Path
    BY <1>3
  <2> HIDE DEF of
  <2> QED BY <1>1, <2>1 DEF Watches
<1>5. inbox' \in Seq(Messages) /\ Range(inbox') = Range(inbox) \cup {m}
  <2>1. m \in Messages
    BY <1>4 DEF Messages
  <2> HIDE DEF of
  <2> QED BY <1>0, <1>2, <2>1, Queued
<1>6. /\ events' \in Seq(Events) /\ Len(events') = Len(events) - n
      /\ \A i \in 1 .. Len(events) - n : events'[i] = events[i + n]
  BY <1>0, <1>2
<1>7. ASSUME NEW e \in Range(events)
      PROVE  \/ e \in Range(events')
             \/ e.kind = "deleted" /\ e.path \in m.deleted
             \/ e.kind = "changed" /\ e.path \in m.changed
             \/ e.kind = "created"
  <2>1. PICK i \in 1 .. Len(events) : e = events[i]
    BY <1>0 DEF Range
  <2>2. CASE i > n
    <3>1. i - n \in 1 .. Len(events) - n /\ (i - n) + n = i
      BY <1>0, <2>2
    <3>2. events'[i - n] = e /\ i - n \in DOMAIN events'
      BY <1>0, <1>6, <2>1, <3>1
    <3> QED BY <3>2 DEF Range
  <2>3. CASE ~ (i > n)
    <3>1. i \in 1 .. n
      BY <2>3
    <3>2. \A kind : e.kind = kind => e.path \in of(kind)
      BY <2>1, <3>1
    <3>3. e.kind \in {"created", "deleted", "changed"}
      BY <1>3, <2>1
    <3> HIDE DEF of
    <3> QED BY <1>1, <3>2, <3>3
  <2> QED BY <2>2, <2>3
<1> QED BY <1>2, <1>4, <1>5, <1>6, <1>7

\* An added folder is seeded by the message sent with it.
LEMMA FolderAdded ==
  ASSUME Typed, NEW r \in NewFolders, AddFolder(r)
  PROVE  /\ UNCHANGED <<disk, events, told, gone, members, roots, texts>>
         /\ changes' \in 0 .. MaxChanges
         /\ folders' = folders \cup {r} /\ r \in Root /\ inbox' \in Seq(Messages)
         /\ \E m \in Seeds : /\ m.roots = {r} /\ inbox' = Append(inbox, m)
                             /\ Range(inbox') = Range(inbox) \cup {m}
<1>1. PICK m : m = [type |-> "seed", roots |-> {r}]
  OBVIOUS
<1>2. /\ inbox' = Append(inbox, m) /\ folders' = folders \cup {r} /\ Change
      /\ UNCHANGED <<disk, events, told, gone, members, roots, texts>>
  BY <1>1 DEF AddFolder
<1>3. m \in Seeds /\ m \in Messages /\ m.roots = {r} /\ r \in Root
  BY <1>1, MembershipAssumption DEF Seeds, Messages
<1>4. changes' \in 0 .. MaxChanges
  BY <1>2, MembershipAssumption DEF Change, Typed
<1>5. inbox' \in Seq(Messages) /\ Range(inbox') = Range(inbox) \cup {m}
  <2>1. inbox \in Seq(Messages)
    BY DEF Typed, Messages
  <2> QED BY <1>2, <1>3, <2>1, Queued
<1> QED BY <1>2, <1>3, <1>4, <1>5

\* The steps, as the cases of the proofs.
LEMMA Steps ==
  ASSUME Next
  PROVE  \/ Handle \/ Edits \/ NotifyRename
         \/ \E n \in 1 .. Len(events) : Report(n)
         \/ \E r \in NewFolders : AddFolder(r)
BY DEF Next, Edits
-----------------------------------------------------------------------------
\* Type correctness, and that a member always has a text.
LEMMA TypedInit ==
  ASSUME Init
  PROVE  Typed
<1>1. /\ MaxChanges \in Nat /\ RootsAtStart \subseteq Root
  BY MembershipAssumption
<1>2. disk \in [Path -> Content] /\ [p \in Path |-> 0] \in [Path -> Content]
  BY <1>1 DEF Init, Content
<1>3. Seed(RootsAtStart) \subseteq Path /\ \A p \in Seed(RootsAtStart) : disk[p] # 0
  BY SeedIsRead
<1>4. /\ texts \in [Path -> Content]
      /\ \A p \in Path : texts[p] = IF p \in Seed(RootsAtStart) THEN disk[p] ELSE 0
  <2>1. texts = ReadFrom(Seed(RootsAtStart), [p \in Path |-> 0])
    BY DEF Init
  <2> QED BY <1>2, <2>1, ReadFromType
<1>5. changes \in 0 .. MaxChanges
  BY <1>1 DEF Init
<1>6. events \in Seq(Events) /\ told \in Seq(Renames) /\ inbox \in Seq(Messages) /\ gone \subseteq Path
  BY DEF Init
<1>7. folders \subseteq Root /\ roots \subseteq Root /\ members \subseteq Path
  BY <1>1, <1>3 DEF Init
<1>8. \A p \in members : texts[p] # 0
  BY <1>3, <1>4 DEF Init
<1> QED BY <1>2, <1>4, <1>5, <1>6, <1>7, <1>8 DEF Typed, Messages

\* Every step keeps the types.
LEMMA TypedStep ==
  ASSUME Typed, [Next]_vars
  PROVE  Typed'
<1> USE DEF Messages
<1>1. CASE UNCHANGED vars
  BY <1>1 DEF Typed, vars
<1>2. CASE Handle
  <2>1. /\ inbox' \in Seq(Messages) /\ roots' \subseteq Root
        /\ members' \subseteq Path /\ texts' \in [Path -> Content]
        /\ \A p \in members' : (p \in Seed(roots') /\ texts'[p] = disk[p]) \/ Stays(Head(inbox), p)
        /\ UNCHANGED client /\ Head(inbox).type \in {"rename", "watch", "seed"}
    BY <1>2, Handled, MessageTypes
  <2>2. ASSUME NEW p \in members' PROVE texts'[p] # 0
    <3>1. CASE p \in Seed(roots') /\ texts'[p] = disk[p]
      BY <3>1, SeedIsRead
    <3>2. CASE Stays(Head(inbox), p)
      <4>1. p \in members /\ (texts'[p] = texts[p] \/ (texts'[p] = disk[p] /\ disk[p] # 0))
        <5>1. Head(inbox).type \in {"rename", "watch", "seed"} /\ Stays(Head(inbox), p)
          BY <2>1, <3>2
        <5>2. PICK t : t = Head(inbox).type
          OBVIOUS
        <5> QED BY <5>1, <5>2 DEF Stays
      <4> QED BY <4>1 DEF Typed
    <3> QED BY <2>1, <3>1, <3>2
  <2> QED BY <2>1, <2>2 DEF Typed, client
<1>3. CASE Edits
  <2>1. DiskEdited /\ EditTold
    BY <1>3, Edited
  <2>2. told' \in Seq(Renames) /\ folders' \subseteq Root /\ gone' \subseteq Path
    <3>1. CASE told' = told /\ folders' = folders /\ gone' \subseteq gone
      BY <3>1 DEF Typed
    <3>2. ASSUME NEW m \in Renames, ToldOf(m), gone' \subseteq Path
          PROVE  told' \in Seq(Renames) /\ folders' \subseteq Root
      <4>1. told' = Append(told, m) /\ folders' = Rebase(folders, m.dir) /\ told \in Seq(Renames)
            /\ folders \subseteq Root
        BY <3>2 DEF ToldOf, Typed
      <4>2. m.dir \subseteq [old : Dirs, new : Dirs]
        BY MessageTypes
      <4> QED BY <4>1, <4>2, Queued, RebaseType
    <3> QED BY <2>1, <3>1, <3>2 DEF EditTold
  <2> QED BY <2>1, <2>2 DEF Typed, DiskEdited
<1>4. CASE NotifyRename
  BY <1>4, Notified DEF Typed
<1>5. ASSUME NEW n \in 1 .. Len(events), Report(n) PROVE Typed'
  BY <1>5, Reported DEF Typed
<1>6. ASSUME NEW r \in NewFolders, AddFolder(r) PROVE Typed'
  BY <1>6, FolderAdded DEF Typed
<1> QED BY <1>1, <1>2, <1>3, <1>4, <1>5, <1>6, Steps

-----------------------------------------------------------------------------
\* What is under way about a path: a rename that takes it, an event of its
\* deletion or of its change, reported or not.
RenameDue(p) == \E m \in Range(inbox) \cup Range(told) : m \in Renames /\ Olds(m, p)

DeletionDue(p) == \/ [path |-> p, kind |-> "deleted"] \in Range(events)
                  \/ \E m \in Range(inbox) : m \in Watches /\ p \in m.deleted

ChangeDue(p) == \/ [path |-> p, kind |-> "changed"] \in Range(events)
                \/ \E m \in Range(inbox) : m \in Watches /\ p \in m.changed

\* A message that is not the one handled is still under way, and so is all of
\* it after a step of the client.
LEMMA DueStays ==
  ASSUME Typed, [Next]_vars, ~ Handle, NEW p
  PROVE  /\ RenameDue(p) => RenameDue(p)'
         /\ DeletionDue(p) => DeletionDue(p)'
         /\ ChangeDue(p) => ChangeDue(p)'
<1>1. CASE UNCHANGED vars
  BY <1>1 DEF RenameDue, DeletionDue, ChangeDue, vars
<1>3. CASE Edits
  <2>1. DiskEdited /\ EditTold
    BY <1>3, Edited
  <2>2. Range(told) \subseteq Range(told')
    <3>1. ASSUME NEW m \in Renames, ToldOf(m) PROVE Range(told) \subseteq Range(told')
      <4>1. told' = Append(told, m) /\ told \in Seq(Renames)
        BY <3>1 DEF ToldOf, Typed
      <4> QED BY <4>1, Queued
    <3> QED BY <2>1, <3>1 DEF EditTold
  <2>3. inbox' = inbox /\ Range(events) \subseteq Range(events')
    BY <2>1 DEF DiskEdited
  <2> QED BY <2>2, <2>3 DEF RenameDue, DeletionDue, ChangeDue
<1>4. CASE NotifyRename
  <2>1. /\ events' = events /\ Head(told) \in Renames
        /\ Range(told) = {Head(told)} \cup Range(told')
        /\ Range(inbox') = Range(inbox) \cup {Head(told)}
    BY <1>4, Notified
  <2> QED BY <2>1 DEF RenameDue, DeletionDue, ChangeDue
<1>5. ASSUME NEW n \in 1 .. Len(events), Report(n)
      PROVE  /\ RenameDue(p) => RenameDue(p)'
             /\ DeletionDue(p) => DeletionDue(p)'
             /\ ChangeDue(p) => ChangeDue(p)'
  <2>1. PICK m \in Watches :
          /\ inbox' = Append(inbox, m) /\ Range(inbox') = Range(inbox) \cup {m}
          /\ \A e \in Range(events) : \/ e \in Range(events')
                                      \/ e.kind = "deleted" /\ e.path \in m.deleted
                                      \/ e.kind = "changed" /\ e.path \in m.changed
                                      \/ e.kind = "created"
    BY <1>5, Reported
  <2>2. told' = told
    BY <1>5, Reported
  <2>3. PICK d, c : d = [path |-> p, kind |-> "deleted"] /\ c = [path |-> p, kind |-> "changed"]
    OBVIOUS
  <2>4. d.kind = "deleted" /\ d.path = p /\ c.kind = "changed" /\ c.path = p
    BY <2>3
  <2>5. d \in Range(events) => d \in Range(events') \/ p \in m.deleted
    BY <2>1, <2>4
  <2>6. c \in Range(events) => c \in Range(events') \/ p \in m.changed
    BY <2>1, <2>4
  <2> QED BY <2>1, <2>2, <2>3, <2>5, <2>6 DEF RenameDue, DeletionDue, ChangeDue
<1>6. ASSUME NEW r \in NewFolders, AddFolder(r)
      PROVE  /\ RenameDue(p) => RenameDue(p)'
             /\ DeletionDue(p) => DeletionDue(p)'
             /\ ChangeDue(p) => ChangeDue(p)'
  <2>1. /\ events' = events /\ told' = told
        /\ Range(inbox) \subseteq Range(inbox')
    BY <1>6, FolderAdded
  <2> QED BY <2>1 DEF RenameDue, DeletionDue, ChangeDue
<1> QED BY <1>1, <1>3, <1>4, <1>5, <1>6, Steps

\* What the handled message was about is settled, the rest is still under way.
LEMMA DueAfterHandle ==
  ASSUME Typed, Handle, NEW p \in members, Stays(Head(inbox), p)
  PROVE  /\ RenameDue(p) => RenameDue(p)'
         /\ DeletionDue(p) => DeletionDue(p)'
         /\ ChangeDue(p) => \/ ChangeDue(p)' \/ disk[p] = 0
                            \/ texts'[p] = disk[p]
<1>1. /\ Head(inbox) \in Messages /\ events' = events /\ told' = told
      /\ Range(inbox) = {Head(inbox)} \cup Range(inbox')
  BY Handled DEF client
<1>2. Head(inbox) \in Renames => ~ Olds(Head(inbox), p)
  <2> SUFFICES ASSUME Head(inbox) \in Renames, Olds(Head(inbox), p) PROVE FALSE
    OBVIOUS
  <2>1. ~ \E x \in Expand(Head(inbox), members) : x.old = p
    BY MessageTypes DEF Stays
  <2>2. CASE Head(inbox).dir = {}
    BY <2>1, <2>2 DEF Expand, Olds
  <2>3. CASE Head(inbox).dir # {}
    <3>1. PICK x \in Head(inbox).dir : x.old = p.d
      BY <2>3 DEF Olds
    <3>2. [old |-> p, new |-> [p EXCEPT !.d = x.new]] \in Below(x, members)
      BY <3>1 DEF Below
    <3>3. [old |-> p, new |-> [p EXCEPT !.d = x.new]] \in Expand(Head(inbox), members)
      BY <3>1, <3>2, <2>3 DEF Expand
    <3> QED BY <2>1, <3>3
  <2> QED BY <2>2, <2>3
<1>3. Head(inbox) \in Watches => p \notin Head(inbox).deleted
  BY MessageTypes DEF Stays
<1>4. Head(inbox) \in Watches /\ p \in Head(inbox).changed => disk[p] = 0 \/ texts'[p] = disk[p]
  BY MessageTypes DEF Stays
<1> QED BY <1>1, <1>2, <1>3, <1>4 DEF RenameDue, DeletionDue, ChangeDue

-----------------------------------------------------------------------------
\* A member whose text is not the disk's: its deletion is under way, or it
\* is still there and its change is.
UnreadIsDue ==
  \A p \in members : texts[p] # disk[p] =>
    DeletionDue(p) \/ (disk[p] # 0 /\ ChangeDue(p))

\* At the start every member was read.
LEMMA UnreadInit ==
  ASSUME Init
  PROVE  UnreadIsDue
<1>1. Typed /\ members = Seed(RootsAtStart)
  BY TypedInit DEF Init
<1>2. texts = ReadFrom(Seed(RootsAtStart), [p \in Path |-> 0])
  BY DEF Init
<1> QED BY <1>1, <1>2 DEF UnreadIsDue, ReadFrom, Typed

\* Every step keeps it: what overtakes a text leaves an event, and what settles
\* the event reads the text again or drops the member.
LEMMA UnreadStep ==
  ASSUME Typed, UnreadIsDue, [Next]_vars
  PROVE  UnreadIsDue'
<1>1. CASE Handle
  <2>1. /\ \A p \in members' : (p \in Seed(roots') /\ texts'[p] = disk[p]) \/ Stays(Head(inbox), p)
        /\ disk' = disk /\ Head(inbox).type \in {"rename", "watch", "seed"}
    BY <1>1, Handled, MessageTypes DEF client
  <2>2. ASSUME NEW p \in members', texts'[p] # disk'[p]
        PROVE  DeletionDue(p)' \/ (disk'[p] # 0 /\ ChangeDue(p)')
    <3>1. Stays(Head(inbox), p) /\ p \in members
      BY <2>1, <2>2 DEF Stays
    <3>2. texts'[p] = texts[p]
      BY <2>1, <2>2, <3>1 DEF Stays
    <3> QED BY <1>1, <2>1, <2>2, <3>1, <3>2, DueAfterHandle DEF UnreadIsDue
  <2> QED BY <2>2 DEF UnreadIsDue
<1>2. CASE Edits /\ ~ Handle
  <2>1. DiskEdited
    BY <1>2, Edited
  <2>2. ASSUME NEW p \in members', texts'[p] # disk'[p]
        PROVE  DeletionDue(p)' \/ (disk'[p] # 0 /\ ChangeDue(p)')
    <3>1. p \in members /\ p \in Path /\ texts' = texts /\ texts[p] # 0
      BY <2>1 DEF DiskEdited, Typed
    <3>2. /\ DeletionDue(p) => DeletionDue(p)'
          /\ ChangeDue(p) => ChangeDue(p)'
      BY <1>2, DueStays
    <3>3. CASE disk'[p] = disk[p]
      BY <2>2, <3>1, <3>2, <3>3 DEF UnreadIsDue
    <3>4. CASE disk[p] = 0
      BY <2>2, <3>1, <3>2, <3>4 DEF UnreadIsDue
    <3>5. CASE disk'[p] # disk[p] /\ disk[p] # 0
      <4>1. [path |-> p, kind |-> IF disk'[p] = 0 THEN "deleted" ELSE "changed"] \in Range(events')
        BY <2>1, <3>1, <3>5 DEF DiskEdited
      <4> QED BY <4>1 DEF DeletionDue, ChangeDue
    <3> QED BY <3>3, <3>4, <3>5
  <2> QED BY <2>2 DEF UnreadIsDue
<1>3. CASE ~ Edits /\ ~ Handle
  <2>1. UNCHANGED <<disk, members, texts>>
    BY <1>3, Steps, Notified, Reported, FolderAdded DEF vars
  <2>2. \A p : /\ DeletionDue(p) => DeletionDue(p)'
               /\ ChangeDue(p) => ChangeDue(p)'
    BY <1>3, DueStays
  <2> QED BY <2>1, <2>2 DEF UnreadIsDue
<1> QED BY <1>1, <1>2, <1>3

\* Once the watcher has reported and every message was handled, the text that
\* is analysed of a member is the one on the disk, however the events were
\* batched and whatever renames and seeds came between (watched_files.rs,
\* file_rename.rs, lint_thread.rs).
THEOREM MembersAreReadAtRest == Spec => []MembersAreRead
<1>1. Init => Typed /\ UnreadIsDue
  BY TypedInit, UnreadInit
<1>2. Typed /\ UnreadIsDue /\ [Next]_vars => Typed' /\ UnreadIsDue'
  BY TypedStep, UnreadStep
<1>3. UnreadIsDue => MembersAreRead
  BY DEF UnreadIsDue, MembersAreRead, AtRest, DeletionDue, ChangeDue, Range
<1> QED BY <1>1, <1>2, <1>3, PTL DEF Spec

-----------------------------------------------------------------------------
\* What a rename took away is gone from the disk, and a member only while the
\* notification is under way.
GoneIsDue == \A p \in gone : disk[p] = 0 /\ (p \in members => RenameDue(p))

\* Every step keeps it: a handled rename drops its old paths, and only a file
\* that is on the disk again comes back.
LEMMA GoneStep ==
  ASSUME Typed, GoneIsDue, [Next]_vars
  PROVE  GoneIsDue'
<1>1. CASE Handle
  <2>1. /\ \A p \in members' : (p \in Seed(roots') /\ texts'[p] = disk[p]) \/ Stays(Head(inbox), p)
        /\ disk' = disk /\ gone' = gone
    BY <1>1, Handled DEF client
  <2>2. ASSUME NEW p \in gone', p \in members' PROVE RenameDue(p)'
    <3>1. p \notin Seed(roots')
      BY <2>1, SeedIsRead DEF GoneIsDue
    <3>2. Stays(Head(inbox), p) /\ p \in members
      BY <2>1, <2>2, <3>1 DEF Stays
    <3> QED BY <1>1, <2>1, <3>2, DueAfterHandle DEF GoneIsDue
  <2> QED BY <2>1, <2>2 DEF GoneIsDue
<1>2. CASE Edits /\ ~ Handle
  <2>1. DiskEdited /\ EditTold /\ members' = members
    BY <1>2, Edited DEF DiskEdited
  <2>2. \A p : RenameDue(p) => RenameDue(p)'
    BY <1>2, DueStays
  <2>3. CASE gone' \subseteq gone /\ \A p \in gone' : disk'[p] = disk[p] \/ disk'[p] = 0
    BY <2>1, <2>2, <2>3 DEF GoneIsDue
  <2>4. ASSUME NEW m \in Renames, ToldOf(m),
               \A p \in gone' : disk'[p] = 0 /\ (p \in gone \/ Olds(m, p))
        PROVE  GoneIsDue'
    <3>1. told' = Append(told, m) /\ told \in Seq(Renames)
      BY <2>4 DEF ToldOf, Typed
    <3>2. m \in Range(told')
      BY <3>1, Queued
    <3>3. \A p : Olds(m, p) => RenameDue(p)'
      BY <3>2 DEF RenameDue, Olds
    <3> QED BY <2>1, <2>2, <2>4, <3>3 DEF GoneIsDue
  <2> QED BY <2>1, <2>3, <2>4 DEF EditTold
<1>3. CASE ~ Edits /\ ~ Handle
  <2>1. UNCHANGED <<disk, members, gone>>
    BY <1>3, Steps, Notified, Reported, FolderAdded DEF vars
  <2>2. \A p : RenameDue(p) => RenameDue(p)'
    BY <1>3, DueStays
  <2> QED BY <2>1, <2>2 DEF GoneIsDue
<1> QED BY <1>1, <1>2, <1>3

\* Once its notification was handled, what a rename took away is no member,
\* whatever the watcher has yet to report (file_rename.rs).
THEOREM RenamesDropTheOldPaths == Spec => []RenamedAwayIsDropped
<1>1. Init => Typed /\ GoneIsDue
  BY TypedInit DEF Init, GoneIsDue
<1>2. Typed /\ GoneIsDue /\ [Next]_vars => Typed' /\ GoneIsDue'
  BY TypedStep, GoneStep
<1>3. GoneIsDue => RenamedAwayIsDropped
  BY DEF GoneIsDue, RenamedAwayIsDropped, RenameDue, Range
<1> QED BY <1>1, <1>2, <1>3, PTL DEF Spec
-----------------------------------------------------------------------------
\* The roots the server will track, message by message: a carried sequence of
\* root sets holds, after each message, what that message makes of them.
Through(m, rs) == IF m.type = "rename" THEN Rebase(rs, m.dir)
                  ELSE IF m.type = "seed" THEN rs \cup m.roots ELSE rs

Carries(tr, msgs) ==
  /\ tr \in [0 .. Len(msgs) -> SUBSET Root]
  /\ \A k \in 1 .. Len(msgs) : Through(msgs[k], tr[k - 1]) \subseteq tr[k]

Moves(m, r) == m \in Renames /\ \E x \in m.dir : x.old = r

\* A message makes roots of roots.
LEMMA ThroughType ==
  ASSUME NEW m \in Messages, NEW rs, rs \subseteq Root
  PROVE  Through(m, rs) \subseteq Root
BY MessageTypes, RebaseType DEF Through

\* It makes no less of more roots.
LEMMA ThroughGrows ==
  ASSUME NEW m, NEW rs, NEW ts, rs \subseteq ts
  PROVE  Through(m, rs) \subseteq Through(m, ts)
<1>1. Rebase(rs, m.dir) \subseteq Rebase(ts, m.dir)
  BY DEF Rebase
<1> QED BY <1>1 DEF Through

\* It keeps a root it does not move.
LEMMA ThroughKeeps ==
  ASSUME NEW m \in Messages, NEW r, ~ Moves(m, r), NEW rs
  PROVE  /\ r \in rs => r \in Through(m, rs)
         /\ Through(m, rs \cup {r}) \subseteq Through(m, rs) \cup {r}
<1>1. CASE m.type = "rename"
  <2>1. ~ \E x \in m.dir : x.old = r
    BY <1>1, MessageTypes DEF Moves
  <2>2. r \in rs => r \in Rebase(rs, m.dir)
    BY <2>1 DEF Rebase
  <2>3. Rebase(rs \cup {r}, m.dir) \subseteq Rebase(rs, m.dir) \cup {r}
    BY <2>1 DEF Rebase
  <2> QED BY <1>1, <2>2, <2>3 DEF Through
<1>2. CASE m.type # "rename"
  BY <1>2 DEF Through
<1> QED BY <1>1, <1>2

CarriedOn(tr, msgs, m, last) ==
  \E t : /\ Carries(t, Append(msgs, m)) /\ t[0] = tr[0]
        /\ t[Len(Append(msgs, m))] = last

LEMMA CarryOn ==
  ASSUME NEW msgs \in Seq(Messages), NEW tr, Carries(tr, msgs), NEW m \in Messages,
         NEW last, last \subseteq Root, Through(m, tr[Len(msgs)]) \subseteq last
  PROVE  CarriedOn(tr, msgs, m, last)
<1>1. PICK n \in Nat : n = Len(msgs)
  OBVIOUS
<1>2. PICK all \in Seq(Messages) :
        /\ all = Append(msgs, m) /\ Len(all) = n + 1 /\ all[n + 1] = m
        /\ \A k \in 1 .. n : all[k] = msgs[k]
  <2>1. /\ Append(msgs, m) \in Seq(Messages) /\ Len(Append(msgs, m)) = Len(msgs) + 1
        /\ \A i \in 1 .. Len(msgs) : Append(msgs, m)[i] = msgs[i]
        /\ Append(msgs, m)[Len(msgs) + 1] = m
    BY Appended
  <2> QED BY <1>1, <2>1
<1>3. tr \in [0 .. n -> SUBSET Root] /\ \A k \in 1 .. n : Through(msgs[k], tr[k - 1]) \subseteq tr[k]
  BY <1>1 DEF Carries
<1>4. PICK t : t = [k \in 0 .. n + 1 |-> IF k = n + 1 THEN last ELSE tr[k]]
  OBVIOUS
<1>5. t \in [0 .. n + 1 -> SUBSET Root] /\ t[n + 1] = last /\ \A k \in 0 .. n : t[k] = tr[k]
  BY <1>3, <1>4
<1>6. ASSUME NEW k \in 1 .. n + 1 PROVE Through(all[k], t[k - 1]) \subseteq t[k]
  <2>1. CASE k = n + 1
    <3>1. all[k] = m /\ t[k] = last /\ t[k - 1] = tr[n]
      BY <1>2, <1>5, <2>1
    <3> QED BY <1>1, <3>1
  <2>2. CASE k # n + 1
    <3>1. k \in 1 .. n /\ k \in 0 .. n /\ k - 1 \in 0 .. n
      BY <2>2
    <3>2. all[k] = msgs[k] /\ t[k] = tr[k] /\ t[k - 1] = tr[k - 1]
      BY <1>2, <1>5, <3>1
    <3> QED BY <1>3, <3>1, <3>2
  <2> QED BY <2>1, <2>2
<1>7. Carries(t, all)
  BY <1>2, <1>5, <1>6 DEF Carries
<1> QED BY <1>2, <1>5, <1>7 DEF CarriedOn

\* The first message taken off: the rest is carried from what it made.
LEMMA CarryOff ==
  ASSUME NEW msgs \in Seq(Messages), msgs # << >>, NEW tr, Carries(tr, msgs)
  PROVE  \E t : /\ Carries(t, Tail(msgs)) /\ Through(Head(msgs), tr[0]) \subseteq t[0]
                /\ t[Len(Tail(msgs))] = tr[Len(msgs)]
<1>1. PICK n \in Nat : n + 1 = Len(msgs) /\ Head(msgs) = msgs[1]
  <2>1. Len(msgs) \in Nat /\ Len(msgs) # 0
    OBVIOUS
  <2>2. Len(msgs) - 1 \in Nat /\ (Len(msgs) - 1) + 1 = Len(msgs)
    BY <2>1
  <2>3. Head(msgs) = msgs[1]
    OBVIOUS
  <2> QED BY <2>2, <2>3
<1>2. PICK rest \in Seq(Messages) :
        rest = Tail(msgs) /\ Len(rest) = n /\ \A k \in 1 .. n : rest[k] = msgs[k + 1]
  <2>1. /\ Tail(msgs) \in Seq(Messages) /\ Len(msgs) \in Nat /\ Len(Tail(msgs)) = Len(msgs) - 1
        /\ \A k \in 1 .. Len(msgs) - 1 : Tail(msgs)[k] = msgs[k + 1]
    OBVIOUS
  <2>2. n = Len(msgs) - 1
    BY <1>1, <2>1
  <2> QED BY <2>1, <2>2
<1>3. /\ tr \in [0 .. n + 1 -> SUBSET Root]
      /\ \A k \in 1 .. n + 1 : Through(msgs[k], tr[k - 1]) \subseteq tr[k]
  BY <1>1 DEF Carries
<1>4. PICK t : t = [k \in 0 .. n |-> tr[k + 1]]
  OBVIOUS
<1>5. t \in [0 .. n -> SUBSET Root] /\ \A k \in 0 .. n : t[k] = tr[k + 1]
  BY <1>3, <1>4
<1>6. ASSUME NEW k \in 1 .. n PROVE Through(rest[k], t[k - 1]) \subseteq t[k]
  <2>1. k + 1 \in 1 .. n + 1 /\ k \in 0 .. n /\ k - 1 \in 0 .. n /\ (k + 1) - 1 = k /\ (k - 1) + 1 = k
    OBVIOUS
  <2>2. rest[k] = msgs[k + 1] /\ t[k] = tr[k + 1] /\ t[k - 1] = tr[k]
    BY <1>2, <1>5, <2>1
  <2>3. Through(msgs[k + 1], tr[(k + 1) - 1]) \subseteq tr[k + 1]
    BY <1>3, <2>1
  <2> QED BY <2>1, <2>2, <2>3
<1>7. Carries(t, rest)
  BY <1>2, <1>5, <1>6 DEF Carries
<1>8. Through(Head(msgs), tr[0]) \subseteq t[0]
  <2>1. 1 \in 1 .. n + 1 /\ 0 \in 0 .. n /\ 1 - 1 = 0 /\ 0 + 1 = 1
    OBVIOUS
  <2>2. Through(msgs[1], tr[1 - 1]) \subseteq tr[1] /\ t[0] = tr[0 + 1]
    BY <1>3, <1>5, <2>1
  <2> QED BY <1>1, <2>1, <2>2
<1>9. t[Len(rest)] = tr[Len(msgs)]
  BY <1>1, <1>2, <1>5
<1> QED BY <1>2, <1>7, <1>8, <1>9

\* A root that no message moves is carried along to the end.
LEMMA CarryMore ==
  ASSUME NEW msgs \in Seq(Messages), NEW tr, Carries(tr, msgs), NEW r \in Root,
         \A m \in Range(msgs) : ~ Moves(m, r)
  PROVE  \E t : /\ Carries(t, msgs) /\ t[0] = tr[0] \cup {r}
                /\ t[Len(msgs)] = tr[Len(msgs)] \cup {r}
<1>1. PICK n \in Nat : n = Len(msgs) /\ \A k \in 1 .. n : msgs[k] \in Messages /\ msgs[k] \in Range(msgs)
  BY DEF Range
<1>2. tr \in [0 .. n -> SUBSET Root] /\ \A k \in 1 .. n : Through(msgs[k], tr[k - 1]) \subseteq tr[k]
  BY <1>1 DEF Carries
<1>3. PICK t : t = [k \in 0 .. n |-> tr[k] \cup {r}]
  OBVIOUS
<1>4. t \in [0 .. n -> SUBSET Root] /\ \A k \in 0 .. n : t[k] = tr[k] \cup {r}
  BY <1>2, <1>3
<1>5. ASSUME NEW k \in 1 .. n PROVE Through(msgs[k], t[k - 1]) \subseteq t[k]
  <2>1. k \in 0 .. n /\ k - 1 \in 0 .. n
    OBVIOUS
  <2>2. t[k] = tr[k] \cup {r} /\ t[k - 1] = tr[k - 1] \cup {r}
    BY <1>4, <2>1
  <2>3. Through(msgs[k], tr[k - 1] \cup {r}) \subseteq Through(msgs[k], tr[k - 1]) \cup {r}
    BY <1>1, ThroughKeeps
  <2>4. Through(msgs[k], tr[k - 1]) \subseteq tr[k]
    BY <1>2
  <2> QED BY <2>2, <2>3, <2>4
<1>6. Carries(t, msgs)
  BY <1>1, <1>4, <1>5 DEF Carries
<1> QED BY <1>1, <1>4, <1>6

\* A root at the start that no message moves is there at the end.
LEMMA CarriesUnmoved ==
  ASSUME NEW msgs \in Seq(Messages), NEW tr, Carries(tr, msgs), NEW r \in tr[0],
         \A m \in Range(msgs) : ~ Moves(m, r)
  PROVE  r \in tr[Len(msgs)]
<1>1. PICK n \in Nat : n = Len(msgs) /\ \A k \in 1 .. n : msgs[k] \in Messages /\ msgs[k] \in Range(msgs)
  BY DEF Range
<1>2. \A k \in 1 .. n : Through(msgs[k], tr[k - 1]) \subseteq tr[k]
  BY <1>1 DEF Carries
<1> DEFINE G == {k \in 0 .. n : r \in tr[k]}
<1>3. 0 \in G
  OBVIOUS
<1>4. ASSUME NEW k \in 1 .. n, k - 1 \in G PROVE k \in G
  <2>1. r \in tr[k - 1] /\ k \in 0 .. n
    BY <1>4
  <2>2. r \in Through(msgs[k], tr[k - 1])
    BY <1>1, <2>1, ThroughKeeps
  <2> QED BY <1>2, <2>1, <2>2
<1>5. n \in G
  <2> HIDE DEF G
  <2>1. n \in 0 .. n
    OBVIOUS
  <2> QED BY <2>1, <1>3, <1>4, CountUp
<1> QED BY <1>1, <1>5

\* The roots of the server become those of the client, once every message that
\* is under way was handled.
RootsAreCarried ==
  \E a, b : /\ Carries(a, inbox) /\ Carries(b, told)
            /\ roots \subseteq a[0] /\ a[Len(inbox)] \subseteq b[0] /\ b[Len(told)] \subseteq folders

\* A folder is added only when no rename of that folder is still to be told:
\* the client notifies in the order it acted.
AddsInOrder == \A r \in NewFolders : AddFolder(r) =>
                 \A i \in 1 .. Len(told) : \A x \in told[i].dir : x.old # r

\* At the start nothing is under way and the roots agree.
LEMMA CarriedInit ==
  ASSUME Init
  PROVE  RootsAreCarried
<1>1. PICK a : a = [k \in 0 .. 0 |-> RootsAtStart]
  OBVIOUS
<1>2. a[0] = RootsAtStart /\ a \in [0 .. 0 -> SUBSET Root]
  BY <1>1, MembershipAssumption
<1>3. Carries(a, << >>)
  BY <1>2 DEF Carries
<1> QED BY <1>2, <1>3 DEF Init, RootsAreCarried

\* Every step keeps it, an added folder because nothing under way moves it.
LEMMA CarriedStep ==
  ASSUME Typed, RootsAreCarried, [Next]_vars, [AddsInOrder]_vars
  PROVE  RootsAreCarried'
<1>0. PICK a, b : /\ Carries(a, inbox) /\ Carries(b, told)
                  /\ roots \subseteq a[0] /\ a[Len(inbox)] \subseteq b[0]
                  /\ b[Len(told)] \subseteq folders
  BY DEF RootsAreCarried
<1>t. inbox \in Seq(Messages) /\ told \in Seq(Messages) /\ folders \subseteq Root
  BY DEF Typed, Messages
<1>1. CASE UNCHANGED vars
  BY <1>1, <1>0 DEF RootsAreCarried, vars
<1>2. CASE Handle
  <2>1. /\ inbox' = Tail(inbox) /\ inbox # << >> /\ UNCHANGED client /\ Head(inbox) \in Messages
        /\ roots' = CASE Head(inbox).type = "rename" -> Rebase(roots, Head(inbox).dir)
                      [] Head(inbox).type = "watch" -> roots
                      [] Head(inbox).type = "seed" -> Head(inbox).roots
    BY <1>2, Handled
  <2>2. roots' \subseteq Through(Head(inbox), roots)
    BY <2>1, MessageTypes DEF Through
  <2>3. PICK t : /\ Carries(t, Tail(inbox)) /\ Through(Head(inbox), a[0]) \subseteq t[0]
                 /\ t[Len(Tail(inbox))] = a[Len(inbox)]
    BY <1>0, <1>t, <2>1, CarryOff
  <2>4. roots' \subseteq t[0]
    BY <1>0, <2>2, <2>3, ThroughGrows
  <2>5. Carries(t, inbox') /\ t[Len(inbox')] \subseteq b[0] /\ told' = told /\ folders' = folders
    BY <1>0, <2>1, <2>3 DEF client
  <2> QED BY <1>0, <2>4, <2>5 DEF RootsAreCarried
<1>3. CASE Edits
  <2>1. DiskEdited /\ EditTold
    BY <1>3, Edited
  <2>2. roots' = roots /\ inbox' = inbox
    BY <2>1 DEF DiskEdited
  <2>3. CASE told' = told /\ folders' = folders
    BY <1>0, <2>2, <2>3 DEF RootsAreCarried
  <2>4. ASSUME NEW m \in Renames, ToldOf(m) PROVE RootsAreCarried'
    <3>1. told' = Append(told, m) /\ folders' = Rebase(folders, m.dir) /\ m \in Messages
          /\ m.type = "rename"
      BY <2>4, MessageTypes DEF ToldOf, Messages
    <3>2. Through(m, folders) = folders'
      BY <3>1 DEF Through
    <3>3. folders' \subseteq Root /\ Through(m, b[Len(told)]) \subseteq folders'
      BY <1>0, <1>t, <3>1, <3>2, ThroughType, ThroughGrows
    <3>4. PICK t : /\ Carries(t, Append(told, m)) /\ t[0] = b[0]
                   /\ t[Len(Append(told, m))] = folders'
      <4>1. CarriedOn(b, told, m, folders')
        BY <1>0, <1>t, <3>1, <3>3, CarryOn
      <4> QED BY <4>1 DEF CarriedOn
    <3>5. Carries(t, told') /\ t[Len(told')] \subseteq folders'
      BY <3>1, <3>4
    <3> QED BY <1>0, <2>2, <3>4, <3>5 DEF RootsAreCarried
  <2> QED BY <2>1, <2>3, <2>4 DEF EditTold
<1>4. CASE NotifyRename
  <2>1. /\ roots' = roots /\ folders' = folders
        /\ told # << >> /\ told' = Tail(told) /\ Head(told) \in Messages
        /\ inbox' = Append(inbox, Head(told))
    BY <1>4, Notified DEF Messages
  <2>2. PICK t : /\ Carries(t, Tail(told)) /\ Through(Head(told), b[0]) \subseteq t[0]
                 /\ t[Len(Tail(told))] = b[Len(told)]
    BY <1>0, <1>t, <2>1, CarryOff
  <2>3. Through(Head(told), a[Len(inbox)]) \subseteq t[0]
    BY <1>0, <2>2, ThroughGrows
  <2>4. t[0] \subseteq Root
    <3>1. 0 \in 0 .. Len(Tail(told))
      BY <1>t, <2>1
    <3> QED BY <3>1, <2>2 DEF Carries
  <2>5. PICK c : /\ Carries(c, Append(inbox, Head(told))) /\ c[0] = a[0]
                 /\ c[Len(Append(inbox, Head(told)))] = t[0]
    <3>1. CarriedOn(a, inbox, Head(told), t[0])
      BY <1>0, <1>t, <2>1, <2>3, <2>4, CarryOn
    <3> QED BY <3>1 DEF CarriedOn
  <2>6. Carries(c, inbox') /\ c[Len(inbox')] \subseteq t[0]
    BY <2>1, <2>5
  <2>7. Carries(t, told') /\ t[Len(told')] \subseteq folders'
    BY <1>0, <2>1, <2>2
  <2> QED BY <1>0, <2>1, <2>5, <2>6, <2>7 DEF RootsAreCarried
<1>5. ASSUME NEW n \in 1 .. Len(events), Report(n) PROVE RootsAreCarried'
  <2>1. PICK m \in Watches : inbox' = Append(inbox, m)
    BY <1>5, Reported
  <2>2. roots' = roots /\ folders' = folders /\ told' = told
    BY <1>5, Reported
  <2>3. m \in Messages /\ Through(m, a[Len(inbox)]) = a[Len(inbox)]
    BY MessageTypes DEF Through, Messages
  <2>4. a[Len(inbox)] \subseteq Root
    <3>1. Len(inbox) \in 0 .. Len(inbox)
      BY <1>t
    <3> QED BY <3>1, <1>0 DEF Carries
  <2>5. PICK c : /\ Carries(c, Append(inbox, m)) /\ c[0] = a[0]
                 /\ c[Len(Append(inbox, m))] = a[Len(inbox)]
    <3>1. CarriedOn(a, inbox, m, a[Len(inbox)])
      BY <1>0, <1>t, <2>3, <2>4, CarryOn
    <3> QED BY <3>1 DEF CarriedOn
  <2>6. Carries(c, inbox') /\ c[Len(inbox')] \subseteq b[0]
    BY <1>0, <2>1, <2>5
  <2> QED BY <1>0, <2>2, <2>5, <2>6 DEF RootsAreCarried
<1>6. ASSUME NEW r \in NewFolders, AddFolder(r), ~ UNCHANGED vars PROVE RootsAreCarried'
  <2>1. PICK m \in Seeds : m.roots = {r} /\ inbox' = Append(inbox, m)
    BY <1>6, FolderAdded
  <2>2. roots' = roots /\ told' = told /\ folders' = folders \cup {r} /\ r \in Root
    BY <1>6, FolderAdded
  <2>3. \A i \in 1 .. Len(told) : \A x \in told[i].dir : x.old # r
    BY <1>6 DEF AddsInOrder
  <2>4. \A z \in Range(told) : ~ Moves(z, r)
    BY <1>t, <2>3 DEF Range, Moves
  <2>5. PICK d : /\ Carries(d, told) /\ d[0] = b[0] \cup {r}
                 /\ d[Len(told)] = b[Len(told)] \cup {r}
    BY <1>0, <1>t, <2>2, <2>4, CarryMore
  <2>6. m \in Messages /\ Through(m, a[Len(inbox)]) = a[Len(inbox)] \cup {r}
    BY <2>1, MessageTypes DEF Through, Messages
  <2>7. a[Len(inbox)] \cup {r} \subseteq Root
    <3>1. Len(inbox) \in 0 .. Len(inbox)
      BY <1>t
    <3> QED BY <3>1, <1>0, <2>2 DEF Carries
  <2>8. PICK c : /\ Carries(c, Append(inbox, m)) /\ c[0] = a[0]
                 /\ c[Len(Append(inbox, m))] = a[Len(inbox)] \cup {r}
    <3>1. CarriedOn(a, inbox, m, a[Len(inbox)] \cup {r})
      BY <1>0, <1>t, <2>6, <2>7, CarryOn
    <3> QED BY <3>1 DEF CarriedOn
  <2>9. Carries(c, inbox') /\ c[Len(inbox')] \subseteq d[0]
    BY <1>0, <2>1, <2>5, <2>8
  <2>10. Carries(d, told') /\ d[Len(told')] \subseteq folders'
    BY <1>0, <2>2, <2>5
  <2> QED BY <1>0, <2>2, <2>8, <2>9, <2>10 DEF RootsAreCarried
<1> QED BY <1>1, <1>2, <1>3, <1>4, <1>5, <1>6, Steps

\* With a client that notifies in the order it acted, the roots at rest are
\* folders of the client: none is left where a renamed directory was
\* (rebase_roots, file_rename.rs).
THEOREM RootsFollowRenames == Spec /\ [][AddsInOrder]_vars => []RootsFollow
<1>1. Init => Typed /\ RootsAreCarried
  BY TypedInit, CarriedInit
<1>2. Typed /\ RootsAreCarried /\ [Next]_vars /\ [AddsInOrder]_vars => Typed' /\ RootsAreCarried'
  BY TypedStep, CarriedStep
<1>3. RootsAreCarried => RootsFollow
  BY DEF RootsAreCarried, RootsFollow, AtRest
<1> QED BY <1>1, <1>2, <1>3, PTL DEF Spec
-----------------------------------------------------------------------------
\* A member that no fresh seed of the client's folders would find: its removal
\* is under way, by a rename or by the event of its deletion.
StaleIsDue ==
  \A p \in members : p \notin Seed(folders) => RenameDue(p) \/ DeletionDue(p)

\* What a seed of the server's roots would find and one of the client's would
\* not is below a root whose renaming is under way.
SeedsAreDue == \A p \in Seed(roots) : p \in Seed(folders) \/ RenameDue(p)

LEMMA StaleRootIsDue ==
  ASSUME Typed, RootsAreCarried, NEW p \in Seed(roots)
  PROVE  p \in Seed(folders) \/ RenameDue(p)
<1>1. PICK r \in roots : p \in Walk(r) /\ Under(r, p) /\ p \in Path
  BY DEF Seed, Walk
<1>2. CASE r \in folders
  BY <1>1, <1>2 DEF Seed
<1>3. CASE r \notin folders
  <2>1. PICK a, b : /\ Carries(a, inbox) /\ Carries(b, told)
                    /\ roots \subseteq a[0] /\ a[Len(inbox)] \subseteq b[0]
                    /\ b[Len(told)] \subseteq folders
    BY DEF RootsAreCarried
  <2>2. inbox \in Seq(Messages) /\ told \in Seq(Messages)
    BY DEF Typed, Messages
  <2>3. \E m \in Range(inbox) \cup Range(told) : Moves(m, r)
    <3> SUFFICES ASSUME \A m \in Range(inbox) \cup Range(told) : ~ Moves(m, r) PROVE FALSE
      OBVIOUS
    <3>1. r \in a[Len(inbox)]
      <4>1. r \in a[0]
        BY <2>1
      <4> QED BY <4>1, <2>1, <2>2, CarriesUnmoved
    <3>2. r \in b[Len(told)]
      <4>1. r \in b[0]
        BY <3>1, <2>1
      <4> QED BY <4>1, <2>1, <2>2, CarriesUnmoved
    <3> QED BY <1>3, <2>1, <3>2
  <2>4. PICK m \in Range(inbox) \cup Range(told) : Moves(m, r)
    BY <2>3
  <2>5. PICK x \in m.dir : m \in Renames /\ x.old = r /\ x.old \in Dirs
    BY <2>4, MessageTypes DEF Moves
  <2>6. r = p.d
    BY <1>1, <2>5, RootTypes DEF Under
  <2>7. Olds(m, p)
    BY <2>5, <2>6 DEF Olds
  <2> QED BY <2>4, <2>5, <2>7 DEF RenameDue
<1> QED BY <1>2, <1>3

\* At the start the members are the seed.
LEMMA StaleInit ==
  ASSUME Init
  PROVE  StaleIsDue
BY DEF Init, StaleIsDue

\* Every step keeps it: what leaves the seed leaves by an event or a rename.
LEMMA StaleStep ==
  ASSUME Typed, RootsAreCarried, StaleIsDue, [Next]_vars, SeedsAreDue'
  PROVE  StaleIsDue'
<1>1. CASE Handle
  <2>1. /\ \A p \in members' : (p \in Seed(roots') /\ texts'[p] = disk[p]) \/ Stays(Head(inbox), p)
        /\ disk' = disk /\ folders' = folders
    BY <1>1, Handled DEF client
  <2>2. Seed(roots') = Seed(roots)' /\ Seed(folders) = Seed(folders)'
    BY <2>1 DEF Seed, Walk
  <2>3. \A p \in Seed(roots)' : p \in Seed(folders)' \/ RenameDue(p)'
    BY DEF SeedsAreDue
  <2>4. ASSUME NEW p \in members', p \notin Seed(folders)'
        PROVE  RenameDue(p)' \/ DeletionDue(p)'
    <3>1. CASE p \in Seed(roots')
      BY <2>2, <2>3, <2>4, <3>1
    <3>2. CASE Stays(Head(inbox), p)
      <4>1. p \in members
        BY <3>2 DEF Stays
      <4>2. RenameDue(p) \/ DeletionDue(p)
        BY <2>2, <2>4, <4>1 DEF StaleIsDue
      <4> QED BY <1>1, <3>2, <4>1, <4>2, DueAfterHandle
    <3> QED BY <2>1, <3>1, <3>2
  <2> QED BY <2>4 DEF StaleIsDue
<1>2. CASE Edits /\ ~ Handle
  <2>1. DiskEdited /\ EditTold /\ members' = members
    BY <1>2, Edited DEF DiskEdited
  <2>2. \A p : (RenameDue(p) => RenameDue(p)') /\ (DeletionDue(p) => DeletionDue(p)')
    BY <1>2, DueStays
  <2>3. ASSUME NEW p \in members, p \in Seed(folders), p \notin Seed(folders)'
        PROVE  RenameDue(p)' \/ DeletionDue(p)'
    <3>1. PICK r \in folders : Under(r, p) /\ p \in Path /\ disk[p] # 0 /\ p \notin Excluded[r]
      BY <2>3 DEF Seed, Walk
    <3>2. CASE disk'[p] = 0
      <4>1. [path |-> p, kind |-> IF disk'[p] = 0 THEN "deleted" ELSE "changed"] \in Range(events')
        BY <2>1, <3>1, <3>2 DEF DiskEdited
      <4> QED BY <3>2, <4>1 DEF DeletionDue
    <3>3. CASE disk'[p] # 0
      <4>1. r \notin folders'
        BY <2>3, <3>1, <3>3 DEF Seed, Walk, Under
      <4>2. PICK m \in Renames : ToldOf(m)
        BY <2>1, <3>1, <4>1 DEF EditTold
      <4>3. PICK x \in m.dir : x.old = r /\ r \in Dirs
        <5>1. folders' = Rebase(folders, m.dir)
          BY <4>2 DEF ToldOf
        <5>2. \E x \in m.dir : x.old = r
          BY <3>1, <4>1, <5>1 DEF Rebase
        <5> QED BY <5>2, MessageTypes
      <4>4. Olds(m, p)
        <5>1. r = p.d
          BY <3>1, <4>3, RootTypes DEF Under
        <5> QED BY <5>1, <4>3 DEF Olds
      <4>5. m \in Range(told')
        BY <4>2, Queued DEF ToldOf, Typed
      <4> QED BY <4>4, <4>5 DEF RenameDue, Olds
    <3> QED BY <3>2, <3>3
  <2> QED BY <2>1, <2>2, <2>3 DEF StaleIsDue
<1>3. CASE ~ Edits /\ ~ Handle
  <2>1. UNCHANGED <<disk, members>> /\ folders \subseteq folders'
    BY <1>3, Steps, Notified, Reported, FolderAdded DEF vars
  <2>2. \A p : (RenameDue(p) => RenameDue(p)') /\ (DeletionDue(p) => DeletionDue(p)')
    BY <1>3, DueStays
  <2>3. \A p \in Seed(folders) : p \in Seed(folders)'
    BY <2>1 DEF Seed, Walk
  <2> QED BY <2>1, <2>2, <2>3 DEF StaleIsDue
<1> QED BY <1>1, <1>2, <1>3

\* With such a client every member at rest is a file that a fresh seed of the
\* client's folders would find (workspace_scope.rs).
THEOREM NoMemberIsStale == Spec /\ [][AddsInOrder]_vars => []NoStaleMembers
<1> DEFINE Inv == Typed /\ RootsAreCarried /\ StaleIsDue
<1>1. Init => Inv
  BY TypedInit, CarriedInit, StaleInit
<1>2. Typed /\ RootsAreCarried => SeedsAreDue
  BY StaleRootIsDue DEF SeedsAreDue
<1>3. Inv /\ [Next]_vars /\ [AddsInOrder]_vars => Typed' /\ RootsAreCarried'
  BY TypedStep, CarriedStep
<1>4. Inv /\ SeedsAreDue' /\ [Next]_vars => StaleIsDue'
  BY StaleStep
<1>5. Inv => NoStaleMembers
  BY DEF StaleIsDue, NoStaleMembers, AtRest, RenameDue, DeletionDue, Range
<1> QED BY <1>1, <1>2, <1>3, <1>4, <1>5, PTL DEF Spec
=============================================================================
