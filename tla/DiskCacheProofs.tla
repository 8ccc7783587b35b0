------------------------- MODULE DiskCacheProofs -------------------------
(***************************************************************************)
(* What is proved of the server's settings (ConfigCache), the downloaded   *)
(* export lists (RemoteSidecar) and the formatter's cache (FormatCache),   *)
(* for any number of directories, files, processes, editions and faults.   *)
(* They share nothing, and each has its invariant below.                   *)
(*                                                                         *)
(* Settings: a stamp is never given twice, so the files a cached entry was *)
(* fingerprinted over can be named long after they changed (Past).  That   *)
(* the fingerprint of them is still the same then means that the search    *)
(* finds the same file and the chain from it is read the same, which is    *)
(* shown along the chain (SameChain).                                      *)
(*                                                                         *)
(* Export lists: the manifest on disk was current at the time beside it,   *)
(* and the validator is not newer (DiskIsOld); what a process knows while  *)
(* it fetches keeps this true between its two writes (Knows).              *)
(*                                                                         *)
(* Formatter: every point on disk and in a run's memory is a fixed point   *)
(* of the version and style it is filed by (PointsAreFixed), whatever the  *)
(* formatter says of the files.                                            *)
(***************************************************************************)
EXTENDS DiskCaches, FiniteSets, Integers, Sequences, WellFoundedInduction, TLAPS

\* What an arity.toml may extend: a file, or 0 for none.
Names == Config!Files \cup {0}

\* The chains of each length from each file of F, as they are now for fs.
ChainStep(F, fuel, shorter) ==
  [f \in Names |->
    IF f = 0 THEN << >>
    ELSE IF fuel = 0 \/ F[f].stamp = 0 THEN << Config!Error >>
    ELSE <<[file |-> f, stamp |-> F[f].stamp]>> \o shorter[F[f].extend]]

IsChain(g, n, F) == g = [fuel \in 0..n |-> ChainStep(F, fuel, g[fuel - 1])]

\* The chains of files F that need not be the present ones.
ChainOf(F) == CHOOSE g : IsChain(g, Depth + 3, F)

\* ConfigCache's chains are those of the files there are.
LEMMA ChainNow == Config!Chain = ChainOf(fs)
BY Zenon DEF Config!Chain, ChainOf, IsChain, ChainStep, Names

\* One step down a chain.
LEMMA ChainAt ==
  ASSUME NEW F, NEW n \in Nat, NEW g, IsChain(g, n, F), NEW fuel \in 0 .. n, NEW f \in Names
  PROVE  g[fuel][f] = IF f = 0 THEN << >>
                      ELSE IF fuel = 0 \/ F[f].stamp = 0 THEN << Config!Error >>
                      ELSE <<[file |-> f, stamp |-> F[f].stamp]>> \o g[fuel - 1][F[f].extend]
<1>1. g[fuel] = ChainStep(F, fuel, g[fuel - 1])
  BY DEF IsChain
<1> QED BY <1>1 DEF ChainStep

\* The order of the naturals is well founded.
LEMMA LeastNatural ==
  ASSUME NEW T, T \subseteq Nat, T # {}
  PROVE  \E x \in T : \A y \in T : x <= y
<1>1. PICK x \in T : \A y \in T : <<y, x>> \notin OpToRel(<, Nat)
  BY NatLessThanWellFounded, WFMin
<1>2. \A y \in T : ~ (y < x)
  BY <1>1 DEF OpToRel
<1> QED BY <1>2

\* Induction, for a set of naturals.
LEMMA CountUp ==
  ASSUME NEW G, 0 \in G, \A k \in Nat : k \in G => k + 1 \in G
  PROVE  \A n \in Nat : n \in G
<1> SUFFICES ASSUME NEW n \in Nat, n \notin G PROVE FALSE
  OBVIOUS
<1> DEFINE T == {k \in Nat : k \notin G}
<1>1. PICK m \in T : \A y \in T : m <= y
  <2>1. T \subseteq Nat /\ T # {}
    OBVIOUS
  <2> HIDE DEF T
  <2> QED BY <2>1, LeastNatural
<1>2. m # 0 /\ m - 1 \in Nat
  BY <1>1
<1>3. m - 1 \in G
  BY <1>1, <1>2
<1>4. m \in G
  BY <1>1, <1>2, <1>3
<1> QED BY <1>1, <1>4

\* Chains exist, one length after the other.
LEMMA ChainExists ==
  ASSUME NEW F, NEW n \in Nat
  PROVE  \E g : IsChain(g, n, F)
<1> DEFINE G == {k \in Nat : \E g : IsChain(g, k, F)}
<1>1. 0 \in G
  <2>1. PICK g : g = [fuel \in 0..0 |-> ChainStep(F, 0, << >>)]
    OBVIOUS
  <2>2. \A x : ChainStep(F, 0, x) = ChainStep(F, 0, << >>)
    BY DEF ChainStep
  <2>3. \A fuel \in 0 .. 0 : fuel = 0
    OBVIOUS
  <2>4. [fuel \in 0..0 |-> ChainStep(F, fuel, g[fuel - 1])]
          = [fuel \in 0..0 |-> ChainStep(F, 0, << >>)]
    BY <2>2, <2>3
  <2> QED BY <2>1, <2>4 DEF IsChain
<1>2. ASSUME NEW k \in Nat, k \in G PROVE k + 1 \in G
  <2>1. PICK old : IsChain(old, k, F)
    BY <1>2
  <2>2. PICK g : g = [fuel \in 0..k + 1 |->
                        IF fuel = k + 1 THEN ChainStep(F, k + 1, old[k]) ELSE old[fuel]]
    OBVIOUS
  <2>3. ASSUME NEW fuel \in 0 .. k + 1 PROVE g[fuel] = ChainStep(F, fuel, g[fuel - 1])
    <3>1. CASE fuel = k + 1
      <4>1. k \in 0 .. k + 1 /\ k # k + 1 /\ fuel - 1 = k
        BY <3>1
      <4>2. g[fuel - 1] = old[k]
        BY <2>2, <4>1
      <4>3. g[fuel] = ChainStep(F, fuel, old[k])
        BY <2>2, <3>1
      <4> QED BY <4>2, <4>3
    <3>2. CASE fuel = 0
      <4>1. g[fuel] = old[fuel] /\ fuel \in 0 .. k
        BY <2>2, <3>2
      <4>2. old[fuel] = ChainStep(F, fuel, old[fuel - 1])
        BY <2>1, <4>1 DEF IsChain
      <4>3. ChainStep(F, 0, old[fuel - 1]) = ChainStep(F, 0, g[fuel - 1])
        BY DEF ChainStep
      <4> QED BY <3>2, <4>1, <4>2, <4>3
    <3>3. CASE fuel # k + 1 /\ fuel # 0
      <4>1. fuel \in 0 .. k /\ fuel - 1 \in 0 .. k + 1 /\ fuel - 1 # k + 1
        BY <3>3
      <4>2. g[fuel] = old[fuel] /\ g[fuel - 1] = old[fuel - 1]
        BY <2>2, <3>3, <4>1
      <4>3. old[fuel] = ChainStep(F, fuel, old[fuel - 1])
        BY <2>1, <4>1 DEF IsChain
      <4> QED BY <4>2, <4>3
    <3> QED BY <3>1, <3>2, <3>3
  <2>4. PICK h : h = [fuel \in 0..k + 1 |-> ChainStep(F, fuel, g[fuel - 1])]
    OBVIOUS
  <2>5. \A fuel \in 0 .. k + 1 : h[fuel] = g[fuel]
    BY <2>3, <2>4
  <2>6. h = g
    BY <2>2, <2>4, <2>5
  <2> QED BY <2>4, <2>6 DEF IsChain
<1>3. n \in G
  <2> HIDE DEF G
  <2> QED BY <1>1, <1>2, CountUp
<1> QED BY <1>3

\* So the chains of any files are what the recursion says they are.
LEMMA ChainOfIs ==
  ASSUME NEW F, Depth \in Nat
  PROVE  IsChain(ChainOf(F), Depth + 3, F)
<1>1. Depth + 3 \in Nat
  OBVIOUS
<1>2. \E g : IsChain(g, Depth + 3, F)
  BY <1>1, ChainExists
<1> QED BY <1>2, Zenon DEF ChainOf

\* The definitions of ConfigCache, of files F and repositories R of the past.
There(F, f) == f # 0 /\ F[f].stamp # 0
StopsOf(F, R, d) == There(F, d) \/ d \in R
LookedOf(F, R) == {d \in Config!Dirs : \A e \in 1..(d - 1) : ~StopsOf(F, R, e)}
FoundOf(F, R) == {d \in LookedOf(F, R) : There(F, d)}
SourceOf(F, R) == IF FoundOf(F, R) # {} THEN CHOOSE d \in FoundOf(F, R) : TRUE ELSE Env
MergedOf(F, R) == ChainOf(F)[Depth + 3][SourceOf(F, R)]
SettingsOf(F, R, e) == [chain |-> MergedOf(F, R), editor |-> IF SourceOf(F, R) = 0 THEN e ELSE 0]
StampsOf(F, seq) == [i \in DOMAIN seq |-> [file |-> seq[i], stamp |-> F[seq[i]].stamp]]
CandidatesOf(F, R) ==
  [d \in LookedOf(F, R) |-> d] \o (IF FoundOf(F, R) = {} /\ Env # 0 THEN <<Env>> ELSE << >>)
PrintOf(F, R, dependencies) == StampsOf(F, CandidatesOf(F, R) \o dependencies)
FilesOf(chain) == [i \in DOMAIN chain |-> chain[i].file]

\* They are those of ConfigCache for the files and repositories there are.
LEMMA Now ==
  /\ Config!Merged = MergedOf(fs, repo) /\ Config!Settings = SettingsOf(fs, repo, editor)
  /\ Config!Dependencies = FilesOf(MergedOf(fs, repo))
  /\ \A d : Config!Fingerprint(d) = PrintOf(fs, repo, d)
<1>1. \A d : Config!Stops(d) <=> StopsOf(fs, repo, d)
  BY DEF Config!Stops, Config!Exists, StopsOf, There
<1>2. Config!Looked = LookedOf(fs, repo)
  BY <1>1 DEF Config!Looked, LookedOf
<1>3. Config!Found = FoundOf(fs, repo)
  BY <1>2 DEF Config!Found, FoundOf, Config!Exists, There
<1>4. Config!Source = SourceOf(fs, repo)
  BY <1>3 DEF Config!Source, SourceOf
<1>5. Config!Merged = MergedOf(fs, repo)
  BY <1>4, ChainNow DEF Config!Merged, MergedOf
<1>6. Config!Settings = SettingsOf(fs, repo, editor)
  BY <1>4, <1>5 DEF Config!Settings, SettingsOf
<1>7. Config!Dependencies = FilesOf(MergedOf(fs, repo))
  BY <1>5 DEF Config!Dependencies, FilesOf
<1>8. Config!Candidates = CandidatesOf(fs, repo)
  BY <1>2, <1>3 DEF Config!Candidates, CandidatesOf
<1>9. \A d : Config!Fingerprint(d) = PrintOf(fs, repo, d)
  BY <1>8 DEF Config!Fingerprint, PrintOf, Config!Stamps, StampsOf
<1> QED BY <1>5, <1>6, <1>7, <1>9

\* What a file may be like, and an entry of a chain.
State == [stamp : Nat, extend : Names]
Entries == [file : Names, stamp : Nat]

\* The error that ends a chain names no file.
LEMMA ErrorIs == Config!Error \in Entries /\ Config!Error.file = 0
BY DEF Config!Error, Entries, Names

\* A chain is a sequence of files with their stamps.
LEMMA ChainType ==
  ASSUME NEW F \in [Config!Files -> State], NEW m \in Nat, NEW g, IsChain(g, m, F)
  PROVE  \A n \in 0 .. m : \A f \in Names : g[n][f] \in Seq(Entries)
<1> DEFINE G == {n \in Nat : n <= m => \A f \in Names : g[n][f] \in Seq(Entries)}
<1>1. ASSUME NEW n \in Nat, n <= m, NEW f \in Names,
             n # 0 => \A x \in Names : g[n - 1][x] \in Seq(Entries)
      PROVE  g[n][f] \in Seq(Entries)
  <2>1. g[n][f] = IF f = 0 THEN << >>
                  ELSE IF n = 0 \/ F[f].stamp = 0 THEN << Config!Error >>
                  ELSE <<[file |-> f, stamp |-> F[f].stamp]>> \o g[n - 1][F[f].extend]
    BY <1>1, ChainAt
  <2>2. CASE f = 0
    BY <2>1, <2>2
  <2>3. CASE f # 0 /\ (n = 0 \/ F[f].stamp = 0)
    BY <2>1, <2>3, ErrorIs
  <2>4. CASE f # 0 /\ n # 0 /\ F[f].stamp # 0
    <3>1. F[f].extend \in Names /\ F[f].stamp \in Nat
      BY <2>4 DEF State, Names
    <3>2. g[n - 1][F[f].extend] \in Seq(Entries)
      BY <1>1, <2>4, <3>1
    <3>3. <<[file |-> f, stamp |-> F[f].stamp]>> \in Seq(Entries)
      BY <3>1 DEF Entries
    <3>4. <<[file |-> f, stamp |-> F[f].stamp]>> \o g[n - 1][F[f].extend] \in Seq(Entries)
      BY <3>2, <3>3
    <3> QED BY <2>1, <2>4, <3>4
  <2> QED BY <2>2, <2>3, <2>4
<1>2. 0 \in G
  BY <1>1
<1>3. ASSUME NEW k \in Nat, k \in G PROVE k + 1 \in G
  <2>1. ASSUME k + 1 <= m, NEW f \in Names PROVE g[k + 1][f] \in Seq(Entries)
    <3>1. \A x \in Names : g[(k + 1) - 1][x] \in Seq(Entries)
      BY <1>3, <2>1
    <3> QED BY <1>1, <2>1, <3>1
  <2> QED BY <2>1
<1>4. \A n \in Nat : n \in G
  <2> HIDE DEF G
  <2> QED BY <1>2, <1>3, CountUp
<1> QED BY <1>4

\* A chain without an error is read the same from files that are the same
\* wherever the chain goes.
LEMMA SameChain ==
  ASSUME NEW F \in [Config!Files -> State], NEW H \in [Config!Files -> State],
         NEW m \in Nat, NEW g, IsChain(g, m, F), NEW h, IsChain(h, m, H)
  PROVE  \A n \in 0 .. m : \A f \in Names :
           ~ Config!Failed(g[n][f])
             /\ (\A i \in 1 .. Len(g[n][f]) :
                   g[n][f][i].file \in Config!Files => F[g[n][f][i].file] = H[g[n][f][i].file])
           => h[n][f] = g[n][f]
<1> DEFINE Same(n, f) ==
      ~ Config!Failed(g[n][f])
        /\ (\A i \in 1 .. Len(g[n][f]) :
               g[n][f][i].file \in Config!Files => F[g[n][f][i].file] = H[g[n][f][i].file])
        => h[n][f] = g[n][f]
    G == {n \in Nat : n <= m => \A f \in Names : Same(n, f)}
<1>1. ASSUME NEW n \in Nat, n <= m, NEW f \in Names,
             n # 0 => \A x \in Names : Same(n - 1, x)
      PROVE  Same(n, f)
  <2> SUFFICES ASSUME ~ Config!Failed(g[n][f]),
                      \A i \in 1 .. Len(g[n][f]) :
                        g[n][f][i].file \in Config!Files => F[g[n][f][i].file] = H[g[n][f][i].file]
               PROVE  h[n][f] = g[n][f]
    OBVIOUS
  <2>1. /\ g[n][f] = IF f = 0 THEN << >>
                     ELSE IF n = 0 \/ F[f].stamp = 0 THEN << Config!Error >>
                     ELSE <<[file |-> f, stamp |-> F[f].stamp]>> \o g[n - 1][F[f].extend]
        /\ h[n][f] = IF f = 0 THEN << >>
                     ELSE IF n = 0 \/ H[f].stamp = 0 THEN << Config!Error >>
                     ELSE <<[file |-> f, stamp |-> H[f].stamp]>> \o h[n - 1][H[f].extend]
    BY <1>1, ChainAt
  <2>2. CASE f = 0
    BY <2>1, <2>2
  <2>3. CASE f # 0
    <3>1. n # 0 /\ F[f].stamp # 0
      <4> SUFFICES ASSUME n = 0 \/ F[f].stamp = 0 PROVE FALSE
        OBVIOUS
      <4>1. g[n][f] = << Config!Error >>
        BY <2>1, <2>3
      <4> QED BY <4>1 DEF Config!Failed, Config!Last
    <3>2. PICK e, rest : /\ e = [file |-> f, stamp |-> F[f].stamp] /\ rest = g[n - 1][F[f].extend]
                         /\ g[n][f] = <<e>> \o rest
      BY <2>1, <2>3, <3>1
    <3>3. f \in Config!Files /\ F[f].extend \in Names /\ F[f].stamp \in Nat /\ e \in Entries
      BY <2>3, <3>2 DEF State, Names, Entries
    <3>4. n - 1 \in 0 .. m
      BY <1>1, <3>1
    <3>5. rest \in Seq(Entries)
      BY <3>2, <3>3, <3>4, ChainType
    <3>6. /\ Len(g[n][f]) = Len(rest) + 1 /\ g[n][f][1] = e /\ Len(rest) \in Nat
          /\ \A i \in 1 .. Len(rest) : g[n][f][i + 1] = rest[i]
      BY <3>2, <3>3, <3>5
    <3>7. F[f] = H[f]
      <4>1. e.file = f
        BY <3>2
      <4>2. 1 \in 1 .. Len(g[n][f])
        BY <3>6
      <4> QED BY <3>3, <3>6, <4>1, <4>2
    <3>8. ~ Config!Failed(rest)
      <4> SUFFICES ASSUME rest # << >>, rest[Len(rest)] = Config!Error PROVE FALSE
        BY DEF Config!Failed, Config!Last
      <4>1. Len(rest) \in 1 .. Len(rest)
        BY <3>5
      <4>2. g[n][f][Len(g[n][f])] = Config!Error /\ g[n][f] # << >>
        BY <3>6, <4>1
      <4> QED BY <4>2 DEF Config!Failed, Config!Last
    <3>9. \A i \in 1 .. Len(rest) : rest[i].file \in Config!Files =>
            F[rest[i].file] = H[rest[i].file]
      <4> TAKE i \in 1 .. Len(rest)
      <4>1. i + 1 \in 1 .. Len(g[n][f]) /\ g[n][f][i + 1] = rest[i]
        BY <3>6
      <4>2. g[n][f][i + 1].file \in Config!Files => F[g[n][f][i + 1].file] = H[g[n][f][i + 1].file]
        BY <4>1
      <4> QED BY <4>1, <4>2
    <3>10. h[n - 1][F[f].extend] = rest
      BY <1>1, <3>1, <3>2, <3>3, <3>8, <3>9
    <3>11. h[n][f] = <<e>> \o rest
      BY <2>1, <2>3, <3>1, <3>2, <3>7, <3>10
    <3> QED BY <3>2, <3>11
  <2> QED BY <2>2, <2>3
<1>2. 0 \in G
  BY <1>1
<1>3. ASSUME NEW k \in Nat, k \in G PROVE k + 1 \in G
  <2>1. ASSUME k + 1 <= m, NEW f \in Names PROVE Same(k + 1, f)
    <3>1. \A x \in Names : Same((k + 1) - 1, x)
      BY <1>3, <2>1
    <3> HIDE DEF Same
    <3> QED BY <1>1, <2>1, <3>1
  <2> QED BY <2>1
<1>4. \A n \in Nat : n \in G
  <2> HIDE DEF G
  <2> QED BY <1>2, <1>3, CountUp
<1> QED BY <1>4

\* The directories looked at are the first few; only the last may have a file.
LEMMA LookedIsAPrefix ==
  ASSUME Depth \in Nat, NEW F, NEW R
  PROVE  \E k \in Nat : LookedOf(F, R) = 1 .. k /\ FoundOf(F, R) \subseteq {k} /\ k <= Depth
<1> DEFINE L == LookedOf(F, R)
           T == {d \in Nat : d >= 1 /\ d \notin L}
<1>1. L \subseteq Nat /\ \A d \in L : 1 <= d /\ d <= Depth
  BY DEF LookedOf, Config!Dirs
<1>2. T \subseteq Nat /\ Depth + 1 \in T
  BY <1>1
<1>3. PICK x \in T : \A y \in T : x <= y
  <2> HIDE DEF T
  <2> QED BY <1>2, LeastNatural
<1>4. x \in Nat /\ x >= 1 /\ x \notin L /\ x <= Depth + 1
  BY <1>2, <1>3
<1>5. ASSUME NEW d \in L PROVE d < x
  <2> SUFFICES ASSUME d >= x PROVE FALSE
    BY <1>1, <1>4
  <2>1. x \in Config!Dirs
    BY <1>1, <1>4, <1>5 DEF Config!Dirs
  <2>2. \A e \in 1 .. (d - 1) : ~ StopsOf(F, R, e)
    BY <1>5 DEF LookedOf
  <2>3. \A e \in 1 .. (x - 1) : e \in 1 .. (d - 1)
    BY <1>1, <1>4, <1>5
  <2> QED BY <1>4, <2>1, <2>2, <2>3 DEF LookedOf
<1>6. \A d \in 1 .. (x - 1) : d \in L
  BY <1>3, <1>4
<1>7. x - 1 \in Nat /\ L = 1 .. (x - 1)
  <2>1. x - 1 \in Nat
    BY <1>4
  <2>2. \A d \in L : d \in 1 .. (x - 1)
    BY <1>1, <1>4, <1>5
  <2> HIDE DEF L
  <2> QED BY <1>6, <2>1, <2>2
<1>8. ASSUME NEW d \in FoundOf(F, R) PROVE d = x - 1
  <2>1. d \in L /\ StopsOf(F, R, d)
    BY <1>8 DEF FoundOf, StopsOf
  <2>2. d \in Nat /\ 1 <= d /\ d <= x - 1
    BY <1>1, <1>4, <1>5, <2>1
  <2> SUFFICES ASSUME d # x - 1 PROVE FALSE
    OBVIOUS
  <2>3. x - 1 \in L /\ d \in 1 .. ((x - 1) - 1)
    BY <1>4, <1>6, <2>2
  <2> QED BY <2>1, <2>3 DEF LookedOf
<1>9. x - 1 <= Depth
  BY <1>4
<1> QED BY <1>7, <1>8, <1>9

\* The candidates are those directories, then the file of ARITY_CONFIG where
\* nothing was found.
LEMMA CandidatesAre ==
  ASSUME Depth \in Nat, NEW F, NEW R
  PROVE  \E k \in Nat : \E c \in Seq(Config!Files) :
           /\ c = CandidatesOf(F, R) /\ LookedOf(F, R) = 1 .. k /\ FoundOf(F, R) \subseteq {k}
           /\ \A i \in 1 .. k : c[i] = i
           /\ Len(c) = IF FoundOf(F, R) = {} /\ Env # 0 THEN k + 1 ELSE k
           /\ FoundOf(F, R) = {} /\ Env # 0 => c[k + 1] = Env
<1>1. PICK k \in Nat : LookedOf(F, R) = 1 .. k /\ FoundOf(F, R) \subseteq {k} /\ k <= Depth
  BY LookedIsAPrefix
<1>2. \A d \in 1 .. k : d \in Config!Files
  BY <1>1 DEF Config!Files, Config!Dirs
<1>3. PICK s : s = [d \in 1 .. k |-> d]
  OBVIOUS
<1>4. s \in Seq(Config!Files) /\ Len(s) = k /\ \A i \in 1 .. k : s[i] = i
  BY <1>1, <1>2, <1>3
<1>5. PICK t : t = IF FoundOf(F, R) = {} /\ Env # 0 THEN <<Env>> ELSE << >>
  OBVIOUS
<1>6. CandidatesOf(F, R) = s \o t
  BY <1>1, <1>3, <1>5 DEF CandidatesOf
<1>7. CASE FoundOf(F, R) = {} /\ Env # 0
  <2>1. t = <<Env>> /\ Env \in Config!Files
    BY <1>5, <1>7 DEF Config!Files
  <2>2. /\ s \o t \in Seq(Config!Files) /\ Len(s \o t) = k + 1 /\ (s \o t)[k + 1] = Env
        /\ \A i \in 1 .. k : (s \o t)[i] = i
    BY <1>1, <1>4, <2>1
  <2> QED BY <1>1, <1>6, <1>7, <2>2
<1>8. CASE ~ (FoundOf(F, R) = {} /\ Env # 0)
  <2>1. t = << >>
    BY <1>5, <1>8
  <2>2. s \o t = s
    BY <1>4, <2>1
  <2> QED BY <1>1, <1>4, <1>6, <1>8, <2>2
<1> QED BY <1>7, <1>8

\* A fingerprint tells which candidates there were and the stamps of all.
LEMMA PrintTells ==
  ASSUME Depth \in Nat, NEW F, NEW R, NEW H, NEW S, NEW d \in Seq(Names),
         PrintOf(F, R, d) = PrintOf(H, S, d)
  PROVE  /\ CandidatesOf(F, R) = CandidatesOf(H, S)
         /\ \A i \in 1 .. Len(CandidatesOf(F, R)) :
              F[CandidatesOf(F, R)[i]].stamp = H[CandidatesOf(F, R)[i]].stamp
         /\ \A i \in 1 .. Len(d) : F[d[i]].stamp = H[d[i]].stamp
<1>1. PICK a \in Seq(Names) : a = CandidatesOf(F, R)
  BY CandidatesAre DEF Names
<1>2. PICK b \in Seq(Names) : b = CandidatesOf(H, S)
  BY CandidatesAre DEF Names
<1>3. /\ a \o d \in Seq(Names) /\ b \o d \in Seq(Names)
      /\ Len(a \o d) = Len(a) + Len(d) /\ Len(b \o d) = Len(b) + Len(d)
      /\ Len(a) \in Nat /\ Len(b) \in Nat /\ Len(d) \in Nat
  OBVIOUS
<1>4. StampsOf(F, a \o d) = StampsOf(H, b \o d)
  BY <1>1, <1>2 DEF PrintOf
<1>5. /\ DOMAIN StampsOf(F, a \o d) = 1 .. Len(a) + Len(d)
      /\ DOMAIN StampsOf(H, b \o d) = 1 .. Len(b) + Len(d)
  BY <1>3 DEF StampsOf
<1>6. Len(a) = Len(b)
  BY <1>3, <1>4, <1>5
<1>7. ASSUME NEW i \in 1 .. Len(a) + Len(d)
      PROVE  (a \o d)[i] = (b \o d)[i] /\ F[(a \o d)[i]].stamp = H[(b \o d)[i]].stamp
  <2>1. i \in DOMAIN (a \o d) /\ i \in DOMAIN (b \o d)
    BY <1>3, <1>6, <1>7
  <2>2. PICK x : x = [file |-> (a \o d)[i], stamp |-> F[(a \o d)[i]].stamp]
    OBVIOUS
  <2>3. PICK y : y = [file |-> (b \o d)[i], stamp |-> H[(b \o d)[i]].stamp]
    OBVIOUS
  <2>4. StampsOf(F, a \o d)[i] = x /\ StampsOf(H, b \o d)[i] = y
    BY <2>1, <2>2, <2>3 DEF StampsOf
  <2>5. x = y
    BY <1>4, <2>4
  <2>6. x.file = (a \o d)[i] /\ x.stamp = F[(a \o d)[i]].stamp
    BY <2>2
  <2>7. y.file = (b \o d)[i] /\ y.stamp = H[(b \o d)[i]].stamp
    BY <2>3
  <2> QED BY <2>5, <2>6, <2>7
<1>8. ASSUME NEW i \in 1 .. Len(a) PROVE a[i] = b[i] /\ F[a[i]].stamp = H[a[i]].stamp
  <2>1. i \in 1 .. Len(a) + Len(d) /\ (a \o d)[i] = a[i] /\ (b \o d)[i] = b[i]
    BY <1>3, <1>6
  <2> QED BY <1>7, <2>1
<1>9. a = b
  BY <1>6, <1>8
<1>10. ASSUME NEW i \in 1 .. Len(d) PROVE F[d[i]].stamp = H[d[i]].stamp
  <2>1. /\ Len(a) + i \in 1 .. Len(a) + Len(d)
        /\ (a \o d)[Len(a) + i] = d[i] /\ (b \o d)[Len(a) + i] = d[i]
    BY <1>3, <1>6
  <2> QED BY <1>7, <2>1
<1> QED BY <1>1, <1>2, <1>8, <1>9, <1>10

\* Files that still have the stamps of a fingerprint settle the same source.
LEMMA SameSource ==
  ASSUME Depth \in Nat, NEW F, NEW R, NEW H, NEW S,
         CandidatesOf(F, R) = CandidatesOf(H, S),
         \A i \in 1 .. Len(CandidatesOf(F, R)) :
           F[CandidatesOf(F, R)[i]].stamp = H[CandidatesOf(F, R)[i]].stamp
  PROVE  SourceOf(F, R) = SourceOf(H, S) /\ SourceOf(F, R) \in Names
<1>1. PICK k \in Nat, c \in Seq(Config!Files) :
        /\ c = CandidatesOf(F, R) /\ LookedOf(F, R) = 1 .. k /\ FoundOf(F, R) \subseteq {k}
        /\ \A i \in 1 .. k : c[i] = i
        /\ Len(c) = IF FoundOf(F, R) = {} /\ Env # 0 THEN k + 1 ELSE k
        /\ FoundOf(F, R) = {} /\ Env # 0 => c[k + 1] = Env
  BY CandidatesAre
<1>2. PICK j \in Nat, d \in Seq(Config!Files) :
        /\ d = CandidatesOf(H, S) /\ LookedOf(H, S) = 1 .. j /\ FoundOf(H, S) \subseteq {j}
        /\ \A i \in 1 .. j : d[i] = i
        /\ Len(d) = IF FoundOf(H, S) = {} /\ Env # 0 THEN j + 1 ELSE j
        /\ FoundOf(H, S) = {} /\ Env # 0 => d[j + 1] = Env
  BY CandidatesAre
<1>3. c = d
  BY <1>1, <1>2
<1>4. FoundOf(F, R) # {} => SourceOf(F, R) = k /\ k \in LookedOf(F, R)
  BY <1>1 DEF SourceOf, FoundOf
<1>5. FoundOf(H, S) # {} => SourceOf(H, S) = j /\ j \in LookedOf(H, S)
  BY <1>2 DEF SourceOf, FoundOf
<1>6. LookedOf(F, R) \subseteq Config!Files /\ Env \in Config!Files
  BY DEF LookedOf, Config!Files
<1>7. SourceOf(F, R) \in Names
  <2>1. CASE FoundOf(F, R) # {}
    BY <1>4, <1>6, <2>1 DEF Names
  <2>2. CASE FoundOf(F, R) = {}
    BY <1>6, <2>2 DEF SourceOf, Names
  <2> QED BY <2>1, <2>2
<1>8. CASE Env # 0
  <2>1. SourceOf(F, R) = c[Len(c)]
    <3>1. CASE FoundOf(F, R) = {}
      BY <1>1, <1>8, <3>1 DEF SourceOf
    <3>2. CASE FoundOf(F, R) # {}
      BY <1>1, <1>4, <3>2
    <3> QED BY <3>1, <3>2
  <2>2. SourceOf(H, S) = d[Len(d)]
    <3>1. CASE FoundOf(H, S) = {}
      BY <1>2, <1>8, <3>1 DEF SourceOf
    <3>2. CASE FoundOf(H, S) # {}
      BY <1>2, <1>5, <3>2
    <3> QED BY <3>1, <3>2
  <2> QED BY <1>3, <1>7, <2>1, <2>2
<1>9. CASE Env = 0
  <2>1. k = j
    BY <1>1, <1>2, <1>3, <1>9
  <2>2. \A i \in 1 .. k : F[i].stamp = H[i].stamp
    BY <1>1, <1>9
  <2>3. LookedOf(F, R) = LookedOf(H, S)
    BY <1>1, <1>2, <2>1
  <2>4. \A i \in LookedOf(F, R) : There(F, i) <=> There(H, i)
    BY <1>1, <2>2 DEF There
  <2>5. FoundOf(F, R) = FoundOf(H, S)
    BY <2>3, <2>4 DEF FoundOf
  <2>6. SourceOf(F, R) = SourceOf(H, S)
    BY <2>5 DEF SourceOf
  <2> QED BY <1>7, <2>6
<1> QED BY <1>8, <1>9

\* A fingerprint that is the same, of files that are the same where their
\* stamps are, means the same settings.
LEMMA SameSettings ==
  ASSUME Depth \in Nat, NEW F \in [Config!Files -> State], NEW R,
         NEW H \in [Config!Files -> State], NEW S,
         NEW e,
         \A f \in Config!Files : F[f].stamp = H[f].stamp => F[f] = H[f],
         ~ Config!Failed(MergedOf(F, R)),
         PrintOf(F, R, FilesOf(MergedOf(F, R))) = PrintOf(H, S, FilesOf(MergedOf(F, R)))
  PROVE  SettingsOf(F, R, e) = SettingsOf(H, S, e)
<1>1. PICK n \in Nat : n = Depth + 3
  OBVIOUS
<1>2. PICK g : g = ChainOf(F) /\ IsChain(g, n, F)
  BY <1>1, ChainOfIs
<1>3. PICK h : h = ChainOf(H) /\ IsChain(h, n, H)
  BY <1>1, ChainOfIs
<1>4. PICK s : s = SourceOf(F, R)
  OBVIOUS
<1>5. s \in Names
  <2>1. CASE FoundOf(F, R) # {}
    BY <1>4, <2>1 DEF SourceOf, FoundOf, LookedOf, Names, Config!Files
  <2>2. CASE FoundOf(F, R) = {}
    BY <1>4, <2>2 DEF SourceOf, Names, Config!Files
  <2> QED BY <2>1, <2>2
<1>6. n \in 0 .. n
  BY <1>1
<1>7. PICK m \in Seq(Entries) : m = g[n][s] /\ m = MergedOf(F, R)
  BY <1>1, <1>2, <1>4, <1>5, <1>6, ChainType DEF MergedOf
<1>8. PICK d : d = FilesOf(m)
  OBVIOUS
<1>9. d \in Seq(Names) /\ Len(d) = Len(m) /\ \A i \in 1 .. Len(m) : d[i] = m[i].file
  <2>1. \A x \in Entries : x.file \in Names
    BY DEF Entries
  <2>2. \A i \in 1 .. Len(m) : m[i] \in Entries
    BY <1>7
  <2>3. \A i \in 1 .. Len(m) : m[i].file \in Names
    BY <2>1, <2>2
  <2>4. DOMAIN m = 1 .. Len(m) /\ Len(m) \in Nat
    BY <1>7
  <2>5. d = [i \in 1 .. Len(m) |-> m[i].file]
    BY <1>8, <2>4 DEF FilesOf
  <2> QED BY <2>3, <2>4, <2>5
<1>10. PrintOf(F, R, d) = PrintOf(H, S, d)
  BY <1>7, <1>8
<1>11. /\ CandidatesOf(F, R) = CandidatesOf(H, S)
       /\ \A i \in 1 .. Len(CandidatesOf(F, R)) :
            F[CandidatesOf(F, R)[i]].stamp = H[CandidatesOf(F, R)[i]].stamp
       /\ \A i \in 1 .. Len(d) : F[d[i]].stamp = H[d[i]].stamp
  BY <1>9, <1>10, PrintTells
<1>12. SourceOf(H, S) = s
  BY <1>4, <1>11, SameSource
<1>13. \A i \in 1 .. Len(m) : m[i].file \in Config!Files => F[m[i].file] = H[m[i].file]
  BY <1>9, <1>11
<1>14. h[n][s] = g[n][s]
  <2>1. ~ Config!Failed(g[n][s])
    BY <1>7
  <2>2. \A i \in 1 .. Len(g[n][s]) :
          g[n][s][i].file \in Config!Files => F[g[n][s][i].file] = H[g[n][s][i].file]
    BY <1>7, <1>13
  <2>3. IsChain(g, n, F) /\ IsChain(h, n, H)
    BY <1>2, <1>3
  <2> QED BY <1>5, <1>6, <2>1, <2>2, <2>3, SameChain
<1>15. MergedOf(H, S) = MergedOf(F, R)
  BY <1>1, <1>2, <1>3, <1>4, <1>12, <1>14 DEF MergedOf
<1> QED BY <1>4, <1>12, <1>15 DEF SettingsOf

\* Files as they were at some time: a stamp is never given twice.
Past(F) ==
  /\ F \in [Config!Files -> State]
  /\ \A f \in Config!Files :
       /\ F[f].stamp <= writes
       /\ F[f].stamp = 0 => F[f] = Config!Absent
       /\ F[f].stamp = fs[f].stamp => F[f] = fs[f]

\* The resolution that waits for its fingerprint is of the files there are.
Waits(p) ==
  /\ \E r : \E b \in BOOLEAN : p = [resolved |-> r, raced |-> b]
  /\ ~ p.raced => p.resolved = Config!Settings

\* The cached one was fingerprinted over files and repositories of the past,
\* and the settings are what these would give.
Snapshot(entry) ==
  \E F, R :
    /\ Past(F) /\ ~ Config!Failed(MergedOf(F, R))
    /\ entry.dependencies = FilesOf(MergedOf(F, R))
    /\ entry.fingerprint = PrintOf(F, R, entry.dependencies)
    /\ ~ entry.raced => entry.resolved = SettingsOf(F, R, editor)

\* The invariant of the settings.
Settled ==
  /\ writes \in Nat /\ Past(fs)
  /\ \A p \in pending : Waits(p)
  /\ \A entry \in cached : Snapshot(entry)

\* What is cached keeps its past, which no step rewrites.
LEMMA SnapshotStays ==
  ASSUME NEW entry, Snapshot(entry), UNCHANGED editor, \A F : Past(F) => Past(F)'
  PROVE  Snapshot(entry)'
<1>1. PICK F, R :
    /\ Past(F) /\ ~ Config!Failed(MergedOf(F, R))
    /\ entry.dependencies = FilesOf(MergedOf(F, R))
    /\ entry.fingerprint = PrintOf(F, R, entry.dependencies)
    /\ ~ entry.raced => entry.resolved = SettingsOf(F, R, editor)
  BY Zenon DEF Snapshot
<1>2. Past(F)'
  BY <1>1
<1>3. SettingsOf(F, R, editor)' = SettingsOf(F, R, editor)
  BY DEF SettingsOf, MergedOf, SourceOf, FoundOf, LookedOf, StopsOf, There, ChainOf, IsChain
<1> QED BY <1>1, <1>2, <1>3, Zenon DEF Snapshot

\* A write: one file gets a stamp that none had, or none.
LEMMA PastStays ==
  ASSUME writes \in Nat, Past(fs), NEW f \in Config!Files \ {0}, NEW s \in State,
         fs' = [fs EXCEPT ![f] = s], writes' = writes + 1,
         s.stamp = writes + 1 \/ s = Config!Absent
  PROVE  Past(fs)' /\ \A F : Past(F) => Past(F)'
<1>1. fs \in [Config!Files -> State]
  BY DEF Past
<1>2. \A x \in State : x.stamp \in Nat
  BY DEF State
<1>3. fs' \in [Config!Files -> State] /\ fs'[f] = s /\ \A x \in Config!Files : x # f =>
        fs'[x] = fs[x]
  BY <1>1
<1>4. Config!Absent.stamp = 0
  BY DEF Config!Absent
<1>5. Past(fs)'
  <2> SUFFICES ASSUME NEW x \in Config!Files
               PROVE  fs'[x].stamp <= writes' /\ (fs'[x].stamp = 0 => fs'[x] = Config!Absent)
    BY <1>3 DEF Past
  <2>1. CASE x = f
    BY <1>2, <1>3, <1>4, <2>1
  <2>2. CASE x # f
    <3>1. fs[x].stamp <= writes /\ (fs[x].stamp = 0 => fs[x] = Config!Absent)
            /\ fs[x].stamp \in Nat
      BY <1>1, <1>2 DEF Past
    <3> QED BY <1>3, <2>2, <3>1
  <2> QED BY <2>1, <2>2
<1>6. ASSUME NEW F, Past(F) PROVE Past(F)'
  <2> SUFFICES ASSUME NEW x \in Config!Files
               PROVE  /\ F[x].stamp <= writes' /\ (F[x].stamp = 0 => F[x] = Config!Absent)
                      /\ F[x].stamp = fs'[x].stamp => F[x] = fs'[x]
    BY <1>6 DEF Past
  <2>1. /\ F[x].stamp <= writes /\ (F[x].stamp = 0 => F[x] = Config!Absent) /\ F[x] \in State
        /\ F[x].stamp = fs[x].stamp => F[x] = fs[x]
    BY <1>6 DEF Past
  <2>2. F[x].stamp \in Nat
    BY <1>2, <2>1
  <2>3. CASE x = f
    <3>1. F[x].stamp <= writes' /\ F[x].stamp # writes + 1
      BY <2>1, <2>2
    <3> QED BY <1>3, <1>4, <2>1, <2>3, <3>1
  <2>4. CASE x # f
    BY <1>3, <2>1, <2>2, <2>4
  <2> QED BY <2>3, <2>4
<1> QED BY <1>5, <1>6

\* At the start there are no files.
LEMMA PastAtStart == Config!Init => Past(fs)
<1> SUFFICES ASSUME Config!Init PROVE Past(fs)
  OBVIOUS
<1>1. writes = 0 /\ fs = [f \in Config!Files |-> Config!Absent]
  BY DEF Config!Init
<1>2. Config!Absent \in State /\ Config!Absent.stamp = 0
  BY DEF Config!Absent, State, Names
<1>3. fs \in [Config!Files -> State] /\ \A f \in Config!Files : fs[f] = Config!Absent
  BY <1>1, <1>2
<1> QED BY <1>1, <1>2, <1>3 DEF Past

\* The settings wait for their fingerprint, and while nothing moves they are
\* the ones a resolution gives.
LEMMA ResolveKeeps == ASSUME Settled, Config!Resolve PROVE Settled'
<1>1. PICK p : p = [resolved |-> Config!Settings, raced |-> FALSE]
  OBVIOUS
<1>2. pending' = {p} /\ UNCHANGED <<fs, repo, editor, cached, writes>>
  BY <1>1 DEF Config!Resolve
<1>3. Config!Settings' = Config!Settings
  <2>1. UNCHANGED <<fs, repo, editor>>
    BY <1>2
  <2> QED BY <2>1 DEF Config!Settings, Config!Merged, Config!Chain, Config!Source, Config!Found,
                      Config!Looked, Config!Stops, Config!Exists
<1>4. Waits(p)'
  <2>1. p.resolved = Config!Settings
    BY <1>1
  <2>2. \E r : \E b \in BOOLEAN : p = [resolved |-> r, raced |-> b]
    BY <1>1
  <2> QED BY <1>3, <2>1, <2>2 DEF Waits
<1>5. \A F : Past(F) => Past(F)'
  BY <1>2 DEF Past
<1>6. \A entry \in cached : Snapshot(entry)'
  BY <1>2, <1>5, SnapshotStays DEF Settled
<1>7. writes' \in Nat /\ Past(fs)'
  BY <1>2 DEF Settled, Past
<1>8. \A q \in pending' : Waits(q)'
  BY <1>2, <1>4
<1> QED BY <1>2, <1>6, <1>7, <1>8 DEF Settled

\* The fingerprint is taken of the files there are when it is taken.
LEMMA RememberKeeps == ASSUME Settled, Config!Remember PROVE Settled'
<1>1. pending' = {} /\ UNCHANGED <<fs, repo, editor, writes>>
  BY DEF Config!Remember
<1>2. \A F : Past(F) => Past(F)'
  BY <1>1 DEF Past
<1>3. writes' \in Nat /\ Past(fs)'
  BY <1>1 DEF Settled, Past
<1>4. ASSUME NEW entry \in cached' PROVE Snapshot(entry)'
  <2>1. CASE Config!Failed(Config!Merged)
    <3>1. entry \in cached
      BY <1>4, <2>1 DEF Config!Remember
    <3> QED BY <1>1, <1>2, <3>1, SnapshotStays DEF Settled
  <2>2. CASE ~ Config!Failed(Config!Merged)
    <3>1. PICK p \in pending :
            entry = [resolved |-> p.resolved, raced |-> p.raced,
                     fingerprint |-> Config!Fingerprint(Config!Dependencies),
                       dependencies |-> Config!Dependencies]
      BY <1>4, <2>2 DEF Config!Remember
    <3>2. /\ entry.resolved = p.resolved /\ entry.raced = p.raced
          /\ entry.fingerprint = Config!Fingerprint(Config!Dependencies)
               /\ entry.dependencies = Config!Dependencies
      BY <3>1
    <3>3. ~ p.raced => p.resolved = Config!Settings
      BY DEF Settled, Waits
    <3>4. Past(fs) /\ ~ Config!Failed(MergedOf(fs, repo))
      BY <2>2, Now DEF Settled
    <3>5. entry.dependencies = FilesOf(MergedOf(fs, repo))
      BY <3>2, Now
    <3>6. entry.fingerprint = PrintOf(fs, repo, entry.dependencies)
      BY <3>2, Now
    <3>7. ~ entry.raced => entry.resolved = SettingsOf(fs, repo, editor)
      BY <3>2, <3>3, Now
    <3>8. Snapshot(entry)
      BY <3>4, <3>5, <3>6, <3>7, Zenon DEF Snapshot
    <3> QED BY <1>1, <1>2, <3>8, SnapshotStays
  <2> QED BY <2>1, <2>2
<1> QED BY <1>1, <1>3, <1>4 DEF Settled

\* Whoever writes a file, removes one or makes a repository races the
\* resolution that waits.
Races ==
  /\ writes' = writes + 1
  /\ pending' = {[p EXCEPT !.raced = TRUE] : p \in pending}
  /\ UNCHANGED <<editor, cached>>

\* A resolution that was raced promises nothing.
LEMMA RacedWaits ==
  ASSUME Settled, Races PROVE \A p \in pending' : Waits(p)'
<1> SUFFICES ASSUME NEW p \in pending' PROVE Waits(p)'
  OBVIOUS
<1>1. PICK q \in pending : p = [q EXCEPT !.raced = TRUE]
  BY DEF Races
<1>2. PICK r : \E b \in BOOLEAN : q = [resolved |-> r, raced |-> b]
  BY DEF Settled, Waits
<1>3. PICK c \in BOOLEAN : c = TRUE
  OBVIOUS
<1>4. p = [resolved |-> r, raced |-> c]
  <2>1. PICK b \in BOOLEAN : q = [resolved |-> r, raced |-> b]
    BY <1>2
  <2>2. p = [q EXCEPT !.raced = c]
    BY <1>1, <1>3
  <2> QED BY <2>1, <2>2
<1>5. p.raced
  BY <1>3, <1>4
<1> QED BY <1>4, <1>5 DEF Waits

\* Writing and removing a file.
LEMMA WriteKeeps ==
  ASSUME Settled, NEW f \in Config!Files \ {0}, (\E e \in Names : Config!Write(f, e))
           \/ Config!Unlink(f)
  PROVE  Settled'
<1>1. PICK s \in State : fs' = [fs EXCEPT ![f] = s] /\ (s.stamp = writes + 1 \/ s = Config!Absent)
  <2>1. ASSUME NEW e \in Names, Config!Write(f, e)
        PROVE  \E s \in State : fs' = [fs EXCEPT ![f] = s]
            /\ (s.stamp = writes + 1 \/ s = Config!Absent)
    <3>1. PICK s : s = [stamp |-> writes + 1, extend |-> e]
      OBVIOUS
    <3>2. s \in State /\ s.stamp = writes + 1
      BY <3>1 DEF State, Settled
    <3>3. fs' = [fs EXCEPT ![f] = s]
      BY <2>1, <3>1 DEF Config!Write
    <3> QED BY <3>2, <3>3
  <2>2. CASE Config!Unlink(f)
    <3>1. Config!Absent \in State
      BY DEF Config!Absent, State, Names
    <3>2. fs' = [fs EXCEPT ![f] = Config!Absent]
      BY <2>2 DEF Config!Unlink
    <3> QED BY <3>1, <3>2
  <2> QED BY <2>1, <2>2
<1>2. Races
  BY DEF Config!Write, Config!Unlink, Races
<1>3. Past(fs)' /\ \A F : Past(F) => Past(F)'
  BY <1>1, <1>2, PastStays DEF Settled, Races
<1>4. \A entry \in cached' : Snapshot(entry)'
  BY <1>2, <1>3, SnapshotStays DEF Settled, Races
<1>5. \A p \in pending' : Waits(p)'
  BY <1>2, RacedWaits
<1> QED BY <1>2, <1>3, <1>4, <1>5 DEF Settled, Races

\* Making and unmaking a repository.
LEMMA GitInitKeeps == ASSUME Settled, NEW d \in Config!Dirs, Config!GitInit(d) PROVE Settled'
<1>1. Races /\ UNCHANGED fs
  BY DEF Config!GitInit, Races
<1>2. \A F : Past(F) => Past(F)'
  <2> SUFFICES ASSUME NEW F, Past(F) PROVE Past(F)'
    OBVIOUS
  <2>1. \A x \in Config!Files : F[x].stamp \in Nat
    BY DEF Past, State
  <2> QED BY <1>1, <2>1 DEF Past, Races, Settled
<1>3. Past(fs)'
  BY <1>1, <1>2 DEF Settled
<1>4. \A entry \in cached' : Snapshot(entry)'
  BY <1>1, <1>2, SnapshotStays DEF Settled, Races
<1>5. \A p \in pending' : Waits(p)'
  BY <1>1, RacedWaits
<1> QED BY <1>1, <1>3, <1>4, <1>5 DEF Settled, Races

\* The cache is emptied where nothing waits.
LEMMA EmptiedKeeps ==
  ASSUME Settled, Config!DidChangeConfiguration
           \/ \E f \in Config!Files \ {0} : Config!WatchedConfig(f)
  PROVE  Settled'
<1>1. /\ cached' = {} /\ pending' = {} /\ UNCHANGED fs
      /\ writes' = writes \/ writes' = writes + 1
  BY DEF Config!DidChangeConfiguration, Config!WatchedConfig
<1>2. writes' \in Nat /\ writes' >= writes
  BY <1>1 DEF Settled
<1>3. Past(fs)'
  <2>1. Past(fs) /\ \A x \in Config!Files : fs[x].stamp \in Nat
    BY DEF Settled, Past, State
  <2> QED BY <1>1, <1>2, <2>1 DEF Past, Settled
<1> QED BY <1>1, <1>2, <1>3 DEF Settled

\* A step of something else.
LEMMA StutterKeeps == ASSUME Settled, UNCHANGED Config!vars PROVE Settled'
<1>1. UNCHANGED <<fs, repo, editor, cached, pending, writes>>
  BY DEF Config!vars
<1>2. \A F : Past(F) => Past(F)'
  BY <1>1 DEF Past
<1>3. Config!Settings' = Config!Settings
  BY <1>1 DEF Config!Settings, Config!Merged, Config!Chain, Config!Source, Config!Found,
              Config!Looked, Config!Stops, Config!Exists
<1>4. \A p \in pending' : Waits(p)'
  BY <1>1, <1>3 DEF Settled, Waits
<1>5. \A entry \in cached' : Snapshot(entry)'
  BY <1>1, <1>2, SnapshotStays DEF Settled
<1>6. writes' \in Nat /\ Past(fs)'
  BY <1>1, <1>2 DEF Settled
<1> QED BY <1>4, <1>5, <1>6 DEF Settled

\* Every action keeps it.
LEMMA SettingsInv == Config!Spec => []Settled
<1>1. Config!Init => Settled
  BY PastAtStart DEF Config!Init, Settled
<1>2. Settled /\ [Config!Next]_(Config!vars) => Settled'
  <2> SUFFICES ASSUME Settled, [Config!Next]_(Config!vars) PROVE Settled'
    OBVIOUS
  <2>1. CASE Config!Resolve
    BY <2>1, ResolveKeeps
  <2>2. CASE Config!Remember
    BY <2>2, RememberKeeps
  <2>3. CASE Config!DidChangeConfiguration
    BY <2>3, EmptiedKeeps
  <2>4. ASSUME NEW f \in Config!Files \ {0}, Config!WatchedConfig(f) PROVE Settled'
    BY <2>4, EmptiedKeeps
  <2>5. ASSUME NEW f \in Config!Files \ {0}, Config!Unlink(f) PROVE Settled'
    BY <2>5, WriteKeeps
  <2>6. ASSUME NEW f \in Config!Files \ {0}, NEW e \in Config!Files \union {0},
               Config!Write(f, e) PROVE Settled'
    BY <2>6, WriteKeeps DEF Names
  <2>7. ASSUME NEW d \in Config!Dirs, Config!GitInit(d) PROVE Settled'
    BY <2>7, GitInitKeeps
  <2>8. CASE UNCHANGED Config!vars
    BY <2>8, StutterKeeps
  <2> QED BY <2>1, <2>2, <2>3, <2>4, <2>5, <2>6, <2>7, <2>8 DEF Config!Next
<1> QED BY <1>1, <1>2, PTL DEF Config!Spec

\* Cached settings that is_fresh lets through are those a resolution made now
\* would give, for any depth of directories and any number of writes, unless a
\* file moved between the resolution and its fingerprint: the stamps a
\* fingerprint lists, of the files that are missing too, settle which file is
\* found, every file its chain goes through and so the whole merge.
THEOREM SettingsAreFresh == Depth \in Nat => (Config!Spec => []FreshMeansSame)
<1> SUFFICES ASSUME Depth \in Nat PROVE Config!Spec => []FreshMeansSame
  OBVIOUS
<1>1. Settled => FreshMeansSame
  <2> SUFFICES ASSUME Settled, NEW entry \in cached, Config!Fresh(entry), ~ entry.raced
               PROVE  entry.resolved = Config!Settings
    BY DEF FreshMeansSame, Config!FreshMeansSame
  <2>1. PICK F, R :
          /\ Past(F) /\ ~ Config!Failed(MergedOf(F, R))
          /\ entry.dependencies = FilesOf(MergedOf(F, R))
          /\ entry.fingerprint = PrintOf(F, R, entry.dependencies)
          /\ entry.resolved = SettingsOf(F, R, editor)
    BY Zenon DEF Settled, Snapshot
  <2>2. entry.fingerprint = PrintOf(fs, repo, entry.dependencies)
    BY Now DEF Config!Fresh
  <2>3. PrintOf(F, R, FilesOf(MergedOf(F, R))) = PrintOf(fs, repo, FilesOf(MergedOf(F, R)))
    BY <2>1, <2>2
  <2>4. /\ F \in [Config!Files -> State] /\ fs \in [Config!Files -> State]
        /\ \A f \in Config!Files : F[f].stamp = fs[f].stamp => F[f] = fs[f]
    BY <2>1 DEF Settled, Past
  <2>5. SettingsOf(F, R, editor) = SettingsOf(fs, repo, editor)
    BY <2>1, <2>3, <2>4, SameSettings
  <2> QED BY <2>1, <2>5, Now
<1> QED BY <1>1, SettingsInv, PTL

--------------------------------------------------------------------------------
\* The time to live is positive (remote.rs), there is an edition, and time
\* starts at 0.
Sane == TTL \in Nat \ {0} /\ MaxEdition \in Nat \ {0} /\ MaxClock \in Nat

\* The phases of a process, the editions there will be, and a process.
Phases == {"closed", "open", "asking", "write manifest", "write meta", "ready"}
Editions == 1 .. MaxEdition
Jobs == [phase : Phases, now : Nat, memo : Nat, got : Nat, ok : BOOLEAN]

\* What the variables range over; a process opened the sidecar in the past.
Typed ==
  /\ edition \in Editions /\ clock \in 0 .. MaxClock
  /\ replacedAt \in [Editions -> 0 .. MaxClock + 1]
  /\ manifest \in 0 .. edition /\ etag \in 0 .. edition /\ fetchedAt \in 0 .. clock
  /\ proc \in [Fetchers -> Jobs]
  /\ \A q \in Fetchers :
       proc[q].now <= clock /\ proc[q].memo <= edition /\ proc[q].got <= edition

\* The editions are replaced one after the other, the one served not yet.
InOrder ==
  \A e \in Editions :
    /\ e >= edition => replacedAt[e] = MaxClock + 1
    /\ e < edition => replacedAt[e] <= clock
    /\ \A f \in Editions : e <= f => replacedAt[e] <= replacedAt[f]

\* One process fetches at a time.
OneBusy == \A q, o \in Fetchers : Sidecar!Busy(q) /\ Sidecar!Busy(o) => q = o

\* The validator is not newer than the manifest, and the manifest was current
\* at the time beside it.
DiskIsOld ==
  manifest # 0 => etag <= manifest /\ fetchedAt <= replacedAt[manifest]

\* What a process knows in each phase of a fetch.
Knows(q) ==
  LET p == proc[q]
  IN  /\ p.phase = "asking" => /\ manifest \in {p.memo, 0}
                               /\ p.got # 0 => p.got <= p.memo
      /\ p.phase = "write manifest" => /\ p.got # 0 /\ p.memo = p.got /\ etag <= p.got
                                       /\ p.now <= replacedAt[p.got]
                                       /\ fetchedAt <= replacedAt[p.got]
      /\ p.phase = "write meta" => /\ p.got # 0 /\ p.memo = p.got /\ manifest \in {p.got, 0}
                                   /\ p.now <= replacedAt[p.got]
      /\ p.phase = "ready" /\ p.ok => p.memo # 0 /\ p.now < replacedAt[p.memo] + TTL

\* The invariant, while no two processes fetch at a time and no write fails.
Kept == OneBusy /\ DiskIsOld /\ \A q \in Fetchers : Knows(q)
Fetched == crossed \/ lost \/ Kept

\* What a step makes of the process q; the others are as they were.
Becomes(q, phase, now, memo, got) ==
  /\ proc' \in [Fetchers -> Jobs]
  /\ proc'[q].phase = phase /\ proc'[q].now = now /\ proc'[q].memo = memo /\ proc'[q].got = got
  /\ \A o \in Fetchers : o # q => proc'[o] = proc[o]

\* An update of one process.
LEMMA Updated ==
  ASSUME proc \in [Fetchers -> Jobs], NEW q \in Fetchers, NEW r \in Jobs,
         proc' = [proc EXCEPT ![q] = r]
  PROVE  Becomes(q, r.phase, r.now, r.memo, r.got) /\ proc'[q] = r
<1>1. proc' \in [Fetchers -> Jobs] /\ proc'[q] = r /\ \A o \in Fetchers : o # q =>
        proc'[o] = proc[o]
  OBVIOUS
<1> QED BY <1>1 DEF Becomes

\* What each action does, of all that the invariant speaks of.
LEMMA Moves ==
  ASSUME Typed, Sane, NEW q \in Fetchers
  PROVE  /\ Sidecar!Open(q) => Becomes(q, "open", clock, 0, 0)
         /\ Sidecar!UseDisk(q) => Becomes(q, "ready", proc[q].now, manifest, proc[q].got)
         /\ Sidecar!Request(q) => Becomes(q, "asking", proc[q].now, manifest, Sidecar!IfNoneMatch)
         /\ Sidecar!Fetch(q) /\ proc[q].got = edition =>
              Becomes(q, "write meta", proc[q].now, proc[q].memo, proc[q].got)
         /\ Sidecar!Fetch(q) /\ proc[q].got # edition =>
              Becomes(q, "write manifest", proc[q].now, edition, edition)
         /\ Sidecar!FetchFails(q) =>
              Becomes(q, "ready", proc[q].now, proc[q].memo, proc[q].got) /\ ~ proc'[q].ok
         /\ Sidecar!WriteManifest(q) =>
              Becomes(q, "write meta", proc[q].now, proc[q].memo, proc[q].got)
         /\ Sidecar!WriteMeta(q) => Becomes(q, "ready", proc[q].now, proc[q].memo, proc[q].got)
         /\ Sidecar!WriteFails(q) => \E phase \in {"write meta", "ready"} :
              Becomes(q, phase, proc[q].now, proc[q].memo, proc[q].got)
         /\ Sidecar!Close(q) \/ Sidecar!Crash(q) => Becomes(q, "closed", 0, 0, 0)
<1>1. /\ proc \in [Fetchers -> Jobs] /\ manifest \in Nat /\ etag \in Nat /\ edition \in Nat
      /\ clock \in Nat /\ Sidecar!IfNoneMatch \in Nat
  BY DEF Typed, Sane, Editions, Sidecar!IfNoneMatch
<1>2. PICK r \in Jobs : r = proc[q]
  BY <1>1
<1>3. r.phase \in Phases /\ r.now \in Nat /\ r.memo \in Nat /\ r.got \in Nat /\ r.ok \in BOOLEAN
  BY <1>2 DEF Jobs
<1>5. ASSUME Sidecar!Open(q) PROVE Becomes(q, "open", clock, 0, 0)
  <2>1. PICK s : s = [Sidecar!Closed EXCEPT !.phase = "open", !.now = clock]
    OBVIOUS
  <2>2. /\ s \in Jobs /\ s.phase = "open" /\ s.now = clock
        /\ s.memo = 0 /\ s.got = 0
    BY <1>1, <1>2, <1>3, <2>1 DEF Jobs, Phases, Sidecar!Closed
  <2>3. proc' = [proc EXCEPT ![q] = s]
    BY <1>1, <1>2, <1>5, <2>1 DEF Sidecar!Open
  <2>4. Becomes(q, s.phase, s.now, s.memo, s.got) /\ proc'[q] = s
    BY <1>1, <2>2, <2>3, Updated
  <2> QED BY <2>2, <2>4
<1>6. ASSUME Sidecar!UseDisk(q) PROVE Becomes(q, "ready", r.now, manifest, r.got)
  <2>1. PICK s : s = [r EXCEPT !.phase = "ready", !.memo = manifest]
    OBVIOUS
  <2>2. /\ s \in Jobs /\ s.phase = "ready" /\ s.now = r.now
        /\ s.memo = manifest /\ s.got = r.got
    BY <1>1, <1>2, <1>3, <2>1 DEF Jobs, Phases
  <2>3. proc' = [proc EXCEPT ![q] = s]
    BY <1>1, <1>2, <1>6, <2>1 DEF Sidecar!UseDisk
  <2>4. Becomes(q, s.phase, s.now, s.memo, s.got) /\ proc'[q] = s
    BY <1>1, <2>2, <2>3, Updated
  <2> QED BY <2>2, <2>4
<1>7. ASSUME Sidecar!Request(q) PROVE Becomes(q, "asking", r.now, manifest, Sidecar!IfNoneMatch)
  <2>1. PICK s : s = [r EXCEPT !.phase = "asking", !.memo = manifest, !.got = Sidecar!IfNoneMatch]
    OBVIOUS
  <2>2. /\ s \in Jobs /\ s.phase = "asking" /\ s.now = r.now
        /\ s.memo = manifest /\ s.got = Sidecar!IfNoneMatch
    BY <1>1, <1>2, <1>3, <2>1 DEF Jobs, Phases
  <2>3. proc' = [proc EXCEPT ![q] = s]
    BY <1>1, <1>2, <1>7, <2>1 DEF Sidecar!Request
  <2>4. Becomes(q, s.phase, s.now, s.memo, s.got) /\ proc'[q] = s
    BY <1>1, <2>2, <2>3, Updated
  <2> QED BY <2>2, <2>4
<1>8. ASSUME Sidecar!Fetch(q), r.got = edition
      PROVE Becomes(q, "write meta", r.now, r.memo, r.got)
  <2>1. PICK s : s = [r EXCEPT !.phase = "write meta"]
    OBVIOUS
  <2>2. /\ s \in Jobs /\ s.phase = "write meta" /\ s.now = r.now
        /\ s.memo = r.memo /\ s.got = r.got
    BY <1>1, <1>2, <1>3, <2>1 DEF Jobs, Phases
  <2>3. proc' = [proc EXCEPT ![q] = s]
    BY <1>1, <1>2, <1>8, <2>1 DEF Sidecar!Fetch
  <2>4. Becomes(q, s.phase, s.now, s.memo, s.got) /\ proc'[q] = s
    BY <1>1, <2>2, <2>3, Updated
  <2> QED BY <2>2, <2>4
<1>9. ASSUME Sidecar!Fetch(q), r.got # edition
      PROVE  Becomes(q, "write manifest", r.now, edition, edition)
  <2>1. PICK s : s = [r EXCEPT !.phase = "write manifest", !.memo = edition, !.got = edition]
    OBVIOUS
  <2>2. /\ s \in Jobs /\ s.phase = "write manifest" /\ s.now = r.now
        /\ s.memo = edition /\ s.got = edition
    BY <1>1, <1>2, <1>3, <2>1 DEF Jobs, Phases
  <2>3. proc' = [proc EXCEPT ![q] = s]
    BY <1>1, <1>2, <1>9, <2>1 DEF Sidecar!Fetch
  <2>4. Becomes(q, s.phase, s.now, s.memo, s.got) /\ proc'[q] = s
    BY <1>1, <2>2, <2>3, Updated
  <2> QED BY <2>2, <2>4
<1>10. ASSUME Sidecar!FetchFails(q)
       PROVE Becomes(q, "ready", r.now, r.memo, r.got) /\ ~ proc'[q].ok
  <2>1. PICK s : s = [r EXCEPT !.phase = "ready", !.ok = FALSE]
    OBVIOUS
  <2>2. /\ s \in Jobs /\ s.phase = "ready" /\ s.now = r.now
        /\ s.memo = r.memo /\ s.got = r.got /\ ~ s.ok
    BY <1>1, <1>2, <1>3, <2>1 DEF Jobs, Phases
  <2>3. proc' = [proc EXCEPT ![q] = s]
    BY <1>1, <1>2, <1>10, <2>1 DEF Sidecar!FetchFails
  <2>4. Becomes(q, s.phase, s.now, s.memo, s.got) /\ proc'[q] = s
    BY <1>1, <2>2, <2>3, Updated
  <2> QED BY <2>2, <2>4
<1>11. ASSUME Sidecar!WriteManifest(q) PROVE Becomes(q, "write meta", r.now, r.memo, r.got)
  <2>1. PICK s : s = [r EXCEPT !.phase = "write meta"]
    OBVIOUS
  <2>2. /\ s \in Jobs /\ s.phase = "write meta" /\ s.now = r.now
        /\ s.memo = r.memo /\ s.got = r.got
    BY <1>1, <1>2, <1>3, <2>1 DEF Jobs, Phases
  <2>3. proc' = [proc EXCEPT ![q] = s]
    BY <1>1, <1>2, <1>11, <2>1 DEF Sidecar!WriteManifest
  <2>4. Becomes(q, s.phase, s.now, s.memo, s.got) /\ proc'[q] = s
    BY <1>1, <2>2, <2>3, Updated
  <2> QED BY <2>2, <2>4
<1>12. ASSUME Sidecar!WriteMeta(q) PROVE Becomes(q, "ready", r.now, r.memo, r.got)
  <2>1. PICK s : s = [r EXCEPT !.phase = "ready"]
    OBVIOUS
  <2>2. /\ s \in Jobs /\ s.phase = "ready" /\ s.now = r.now
        /\ s.memo = r.memo /\ s.got = r.got
    BY <1>1, <1>2, <1>3, <2>1 DEF Jobs, Phases
  <2>3. proc' = [proc EXCEPT ![q] = s]
    BY <1>1, <1>2, <1>12, <2>1 DEF Sidecar!WriteMeta
  <2>4. Becomes(q, s.phase, s.now, s.memo, s.got) /\ proc'[q] = s
    BY <1>1, <2>2, <2>3, Updated
  <2> QED BY <2>2, <2>4
<1>13. ASSUME Sidecar!WriteFails(q)
       PROVE  \E phase \in {"write meta", "ready"} : Becomes(q, phase, r.now, r.memo, r.got)
  <2>1. PICK next \in {"write meta", "ready"} :
          next = IF r.phase = "write manifest" THEN "write meta" ELSE "ready"
    OBVIOUS
  <2>2. PICK s : s = [r EXCEPT !.phase = next]
    OBVIOUS
  <2>3. s \in Jobs /\ s.phase = next /\ s.now = r.now /\ s.memo = r.memo /\ s.got = r.got
    BY <1>3, <2>1, <2>2 DEF Jobs, Phases
  <2>4. proc' = [proc EXCEPT ![q] = s]
    BY <1>1, <1>2, <1>13, <2>1, <2>2 DEF Sidecar!WriteFails
  <2>5. Becomes(q, s.phase, s.now, s.memo, s.got)
    BY <1>1, <2>3, <2>4, Updated
  <2> QED BY <2>1, <2>3, <2>5
<1>14. ASSUME Sidecar!Close(q) \/ Sidecar!Crash(q) PROVE Becomes(q, "closed", 0, 0, 0)
  <2>1. PICK s : s = Sidecar!Closed
    OBVIOUS
  <2>2. /\ s \in Jobs /\ s.phase = "closed" /\ s.now = 0
        /\ s.memo = 0 /\ s.got = 0
    BY <1>1, <1>2, <1>3, <2>1 DEF Jobs, Phases, Sidecar!Closed
  <2>3. proc' = [proc EXCEPT ![q] = s]
    BY <1>1, <1>2, <1>14, <2>1 DEF Sidecar!Close, Sidecar!Crash
  <2>4. Becomes(q, s.phase, s.now, s.memo, s.got) /\ proc'[q] = s
    BY <1>1, <2>2, <2>3, Updated
  <2> QED BY <2>2, <2>4
<1> QED BY <1>2, <1>5, <1>6, <1>7, <1>8, <1>9, <1>10, <1>11, <1>12, <1>13, <1>14

\* The other processes know what they knew, of a disk and a world they see
\* the same.
LEMMA Unmoved ==
  ASSUME NEW o \in Fetchers, proc'[o] = proc[o], manifest' = manifest, etag' = etag,
         fetchedAt' = fetchedAt, replacedAt' = replacedAt, Knows(o)
  PROVE  Knows(o)'
BY DEF Knows

\* A process that is not fetching knows as much after the step of another.
LEMMA IdleKnows ==
  ASSUME NEW o \in Fetchers, proc'[o] = proc[o], replacedAt' = replacedAt, Knows(o),
         ~ Sidecar!Busy(o)
  PROVE  Knows(o)'
BY DEF Knows, Sidecar!Busy

\* A process that comes out of a step in bounds leaves the types as they were.
LEMMA Ranged ==
  ASSUME Typed, UNCHANGED Sidecar!world, NEW q \in Fetchers, NEW phase, NEW now, NEW memo, NEW got,
         Becomes(q, phase, now, memo, got), now <= clock, memo <= edition, got <= edition,
         manifest' \in 0 .. edition, etag' \in 0 .. edition, fetchedAt' \in 0 .. clock
  PROVE  Typed'
<1>1. /\ edition' = edition /\ clock' = clock /\ replacedAt' = replacedAt
      /\ proc' \in [Fetchers -> Jobs]
  BY DEF Sidecar!world, Becomes
<1>2. ASSUME NEW o \in Fetchers
      PROVE  proc'[o].now <= clock' /\ proc'[o].memo <= edition' /\ proc'[o].got <= edition'
  <2>1. CASE o = q
    BY <1>1, <2>1 DEF Becomes
  <2>2. CASE o # q
    BY <1>1, <2>2 DEF Becomes, Typed
  <2> QED BY <2>1, <2>2
<1> QED BY <1>1, <1>2 DEF Typed

\* The variables stay in their ranges.
LEMMA TypedStep ==
  ASSUME Sane, Typed, [Sidecar!Next]_(Sidecar!vars)
  PROVE  Typed'
<1>1. /\ edition \in Nat /\ clock \in Nat /\ edition >= 1 /\ edition <= MaxEdition
      /\ clock <= MaxClock /\ manifest \in 0 .. edition /\ etag \in 0 .. edition
      /\ fetchedAt \in 0 .. clock /\ manifest \in Nat /\ etag \in Nat
  BY DEF Typed, Sane, Editions
<1>2. /\ Sidecar!IfNoneMatch <= edition /\ manifest <= edition /\ edition <= edition
      /\ 0 <= edition /\ 0 <= clock /\ clock <= clock
  BY <1>1 DEF Sidecar!IfNoneMatch
<1>3. ASSUME NEW q \in Fetchers
      PROVE  /\ proc[q].now \in Nat /\ proc[q].memo \in Nat /\ proc[q].got \in Nat
             /\ proc[q].now <= clock /\ proc[q].memo <= edition /\ proc[q].got <= edition
  BY DEF Typed, Jobs
<1>4. ASSUME NEW q \in Fetchers,
             Sidecar!Open(q) \/ Sidecar!UseDisk(q) \/ Sidecar!Request(q) \/ Sidecar!Fetch(q)
                 \/ Sidecar!FetchFails(q)
               \/ Sidecar!WriteFails(q) \/ Sidecar!Close(q) \/ Sidecar!Crash(q)
      PROVE  Typed'
  <2>1. UNCHANGED Sidecar!world /\ manifest' = manifest /\ etag' = etag /\ fetchedAt' = fetchedAt
    BY <1>4 DEF Sidecar!disk, Sidecar!Open, Sidecar!UseDisk, Sidecar!Request, Sidecar!Fetch,
                Sidecar!FetchFails, Sidecar!WriteFails, Sidecar!Close, Sidecar!Crash
  <2>2. \E phase, now, memo, got :
          Becomes(q, phase, now, memo, got) /\ now <= clock /\ memo <= edition /\ got <= edition
    <3>1. CASE Sidecar!Open(q)
      <4>1. Becomes(q, "open", clock, 0, 0)
        BY <3>1, Moves
      <4> QED BY <1>2, <1>3, <4>1, Zenon
    <3>2. CASE Sidecar!UseDisk(q)
      <4>1. Becomes(q, "ready", proc[q].now, manifest, proc[q].got)
        BY <3>2, Moves
      <4> QED BY <1>2, <1>3, <4>1, Zenon
    <3>3. CASE Sidecar!Request(q)
      <4>1. Becomes(q, "asking", proc[q].now, manifest, Sidecar!IfNoneMatch)
        BY <3>3, Moves
      <4> QED BY <1>2, <1>3, <4>1, Zenon
    <3>4. CASE Sidecar!Fetch(q)
      <4>1. CASE proc[q].got = edition
        BY <1>3, <3>4, <4>1, Moves
      <4>2. CASE proc[q].got # edition
        <5>1. Becomes(q, "write manifest", proc[q].now, edition, edition)
          BY <3>4, <4>2, Moves
        <5> QED BY <1>2, <1>3, <5>1, Zenon
      <4> QED BY <4>1, <4>2
    <3>5. CASE Sidecar!FetchFails(q)
      BY <1>3, <3>5, Moves
    <3>6. CASE Sidecar!WriteFails(q)
      BY <1>3, <3>6, Moves
    <3>7. CASE Sidecar!Close(q) \/ Sidecar!Crash(q)
      <4>1. Becomes(q, "closed", 0, 0, 0)
        BY <3>7, Moves
      <4> QED BY <1>2, <1>3, <4>1, Zenon
    <3> QED BY <1>4, <3>1, <3>2, <3>3, <3>4, <3>5, <3>6, <3>7
  <2> QED BY <1>1, <2>1, <2>2, Ranged
<1>5. ASSUME NEW q \in Fetchers, Sidecar!WriteManifest(q) \/ Sidecar!WriteMeta(q) PROVE Typed'
  <2>1. /\ UNCHANGED Sidecar!world
        /\ manifest' \in {manifest, proc[q].got} /\ etag' \in {etag, proc[q].got}
        /\ fetchedAt' \in {fetchedAt, proc[q].now}
    BY <1>5 DEF Sidecar!WriteManifest, Sidecar!WriteMeta
  <2>2. PICK phase : Becomes(q, phase, proc[q].now, proc[q].memo, proc[q].got)
    BY <1>5, Moves
  <2>3. manifest' \in 0 .. edition /\ etag' \in 0 .. edition /\ fetchedAt' \in 0 .. clock
    BY <1>1, <1>3, <2>1
  <2> QED BY <1>3, <2>1, <2>2, <2>3, Ranged
<1>6. CASE Sidecar!Remove
  BY <1>1, <1>6 DEF Sidecar!Remove, Sidecar!world, Typed
<1>7. CASE Sidecar!Publish
  <2>1. /\ edition' = edition + 1 /\ edition < MaxEdition
        /\ replacedAt' = [replacedAt EXCEPT ![edition] = clock]
        /\ clock' = clock /\ manifest' = manifest /\ etag' = etag /\ fetchedAt' = fetchedAt
        /\ proc' = proc
    BY <1>7 DEF Sidecar!Publish, Sidecar!disk
  <2>2. edition' \in Editions /\ replacedAt' \in [Editions -> 0 .. MaxClock + 1]
    BY <1>1, <2>1 DEF Typed, Sane, Editions
  <2>3. manifest' \in 0 .. edition' /\ etag' \in 0 .. edition'
    BY <1>1, <2>1
  <2>4. \A q \in Fetchers :
          proc'[q].now <= clock' /\ proc'[q].memo <= edition' /\ proc'[q].got <= edition'
    BY <1>1, <1>3, <2>1
  <2> QED BY <2>1, <2>2, <2>3, <2>4 DEF Typed
<1>8. CASE Sidecar!Tick
  <2>1. /\ clock' = clock + 1 /\ clock < MaxClock /\ edition' = edition
        /\ replacedAt' = replacedAt
        /\ manifest' = manifest /\ etag' = etag /\ fetchedAt' = fetchedAt /\ proc' = proc
    BY <1>8 DEF Sidecar!Tick, Sidecar!disk
  <2>2. clock' \in 0 .. MaxClock /\ fetchedAt' \in 0 .. clock'
    BY <1>1, <2>1 DEF Sane
  <2>3. \A q \in Fetchers :
          proc'[q].now <= clock' /\ proc'[q].memo <= edition' /\ proc'[q].got <= edition'
    BY <1>1, <1>3, <2>1
  <2> QED BY <2>1, <2>2, <2>3 DEF Typed
<1>9. CASE UNCHANGED Sidecar!vars
  BY <1>9 DEF Sidecar!vars, Sidecar!world, Sidecar!disk, Typed
<1> QED BY <1>4, <1>5, <1>6, <1>7, <1>8, <1>9 DEF Sidecar!Next

\* The editions stay in order.
LEMMA InOrderStep ==
  ASSUME Sane, Typed, InOrder, [Sidecar!Next]_(Sidecar!vars)
  PROVE  InOrder'
<1>1. /\ edition \in Nat /\ clock \in Nat /\ edition \in Editions /\ clock <= MaxClock
      /\ replacedAt \in [Editions -> 0 .. MaxClock + 1] /\ Editions \subseteq Nat
           /\ MaxClock \in Nat
  BY DEF Typed, Sane, Editions
<1>2. CASE UNCHANGED Sidecar!world
  BY <1>2 DEF Sidecar!world, InOrder
<1>3. CASE Sidecar!Publish
  <2>1. /\ edition' = edition + 1
        /\ replacedAt' = [replacedAt EXCEPT ![edition] = clock] /\ clock' = clock
    BY <1>3 DEF Sidecar!Publish
  <2>2. /\ replacedAt'[edition] = clock
        /\ \A e \in Editions : e # edition => replacedAt'[e] = replacedAt[e]
    BY <1>1, <2>1
  <2>3. ASSUME NEW e \in Editions
        PROVE  /\ e >= edition' => replacedAt'[e] = MaxClock + 1
               /\ e < edition' => replacedAt'[e] <= clock'
    BY <1>1, <2>1, <2>2 DEF InOrder
  <2>4. ASSUME NEW e \in Editions, NEW f \in Editions, e <= f
        PROVE  replacedAt'[e] <= replacedAt'[f]
    <3>1. replacedAt[e] <= replacedAt[f] /\ replacedAt[e] \in Nat /\ replacedAt[f] \in Nat
      BY <1>1, <2>4 DEF InOrder
    <3>2. CASE f < edition
      BY <1>1, <2>2, <2>4, <3>1, <3>2
    <3>3. CASE f = edition
      BY <1>1, <2>2, <2>4, <3>1, <3>3 DEF InOrder
    <3>4. CASE f > edition
      <4>1. replacedAt'[f] = MaxClock + 1
        BY <1>1, <2>1, <2>3, <3>4
      <4>2. replacedAt'[e] \in Nat /\ replacedAt'[e] <= MaxClock + 1
        BY <1>1, <2>2
      <4> QED BY <4>1, <4>2
    <3> QED BY <1>1, <3>2, <3>3, <3>4
  <2> QED BY <2>3, <2>4 DEF InOrder
<1>4. CASE Sidecar!Tick
  <2>1. edition' = edition /\ replacedAt' = replacedAt /\ clock' = clock + 1
    BY <1>4 DEF Sidecar!Tick
  <2>2. \A e \in Editions : replacedAt[e] \in Nat
    BY <1>1
  <2> QED BY <1>1, <2>1, <2>2 DEF InOrder
<1>5. CASE ~ Sidecar!Publish /\ ~ Sidecar!Tick
  <2>1. UNCHANGED Sidecar!world
    BY <1>5 DEF Sidecar!Next, Sidecar!Open, Sidecar!UseDisk, Sidecar!Request, Sidecar!Fetch,
                Sidecar!FetchFails, Sidecar!WriteManifest, Sidecar!WriteMeta,
                Sidecar!WriteFails, Sidecar!Close, Sidecar!Crash, Sidecar!Remove, Sidecar!vars
  <2> QED BY <1>2, <2>1
<1> QED BY <1>3, <1>4, <1>5

\* A step of one process that leaves the disk alone and does not come to fetch.
LEMMA Elsewhere ==
  ASSUME Kept, NEW q \in Fetchers, UNCHANGED Sidecar!world, UNCHANGED Sidecar!disk,
         \A o \in Fetchers : o # q => proc'[o] = proc[o],
         Sidecar!Busy(q)' => Sidecar!Busy(q) \/ \A o \in Fetchers : o # q => ~ Sidecar!Busy(o),
         Knows(q)'
  PROVE  Kept'
<1>1. /\ manifest' = manifest /\ etag' = etag /\ fetchedAt' = fetchedAt
      /\ replacedAt' = replacedAt
  BY DEF Sidecar!world, Sidecar!disk
<1>2. \A o \in Fetchers : o # q => Sidecar!Busy(o)' = Sidecar!Busy(o)
  BY DEF Sidecar!Busy
<1>3. OneBusy'
  <2> SUFFICES ASSUME NEW a \in Fetchers, NEW b \in Fetchers, Sidecar!Busy(a)', Sidecar!Busy(b)'
               PROVE a = b
    BY DEF OneBusy
  <2> QED BY <1>2 DEF Kept, OneBusy
<1>4. DiskIsOld'
  BY <1>1 DEF Kept, DiskIsOld
<1>5. ASSUME NEW o \in Fetchers PROVE Knows(o)'
  <2>1. CASE o = q
    BY <2>1
  <2>2. CASE o # q
    <3>1. proc'[o] = proc[o] /\ Knows(o)
      BY <2>2 DEF Kept
    <3> QED BY <1>1, <3>1, Unmoved
  <2> QED BY <2>1, <2>2
<1> QED BY <1>3, <1>4, <1>5 DEF Kept

\* A step of the one process that writes.
LEMMA Written ==
  ASSUME Kept, NEW q \in Fetchers, UNCHANGED Sidecar!world, Sidecar!Busy(q),
         \A o \in Fetchers : o # q => proc'[o] = proc[o],
         DiskIsOld', Knows(q)'
  PROVE  Kept'
<1>1. \A o \in Fetchers : o # q => ~ Sidecar!Busy(o) /\ Sidecar!Busy(o)' = Sidecar!Busy(o)
  BY DEF Kept, OneBusy, Sidecar!Busy
<1>2. OneBusy'
  <2> SUFFICES ASSUME NEW a \in Fetchers, NEW b \in Fetchers, Sidecar!Busy(a)', Sidecar!Busy(b)'
               PROVE a = b
    BY DEF OneBusy
  <2> QED BY <1>1
<1>3. ASSUME NEW o \in Fetchers PROVE Knows(o)'
  <2>1. CASE o = q
    BY <2>1
  <2>2. CASE o # q
    <3>1. proc'[o] = proc[o] /\ Knows(o) /\ ~ Sidecar!Busy(o) /\ replacedAt' = replacedAt
      BY <1>1, <2>2 DEF Kept, Sidecar!world
    <3> QED BY <3>1, IdleKnows
  <2> QED BY <2>1, <2>2
<1> QED BY <1>2, <1>3 DEF Kept

\* The steps of a process, one after the other.
LEMMA KeptByProcess ==
  ASSUME Sane, Typed, InOrder, Kept, NEW q \in Fetchers, ~ crossed', ~ lost',
         \/ Sidecar!Open(q) \/ Sidecar!UseDisk(q) \/ Sidecar!Request(q) \/ Sidecar!Fetch(q)
              \/ Sidecar!FetchFails(q) \/ Sidecar!WriteManifest(q)
         \/ Sidecar!WriteMeta(q) \/ Sidecar!WriteFails(q) \/ Sidecar!Close(q) \/ Sidecar!Crash(q)
  PROVE  Kept'
<1>1. /\ edition \in Nat /\ clock \in Nat /\ edition >= 1 /\ edition \in Editions
      /\ clock <= MaxClock /\ MaxClock \in Nat /\ manifest \in Nat /\ manifest <= edition
      /\ etag \in Nat /\ etag <= edition /\ fetchedAt \in Nat /\ fetchedAt <= clock
      /\ TTL \in Nat /\ TTL >= 1 /\ Editions \subseteq Nat
      /\ \A e \in 1 .. edition : e \in Editions
      /\ replacedAt \in [Editions -> 0 .. MaxClock + 1]
  BY DEF Typed, Sane, Editions
<1>2. \A e \in Editions : replacedAt[e] \in Nat
  BY <1>1
<1>3. /\ proc[q] \in Jobs /\ proc[q].now \in Nat /\ proc[q].memo \in Nat /\ proc[q].got \in Nat
      /\ proc[q].now <= clock /\ proc[q].memo <= edition /\ proc[q].got <= edition
  BY DEF Typed, Jobs
<1>4. Knows(q) /\ DiskIsOld
  BY DEF Kept
<1>5. replacedAt[edition] = MaxClock + 1
  BY <1>1 DEF InOrder
<1>6. PICK now, memo, got : now = proc[q].now /\ memo = proc[q].memo /\ got = proc[q].got
  OBVIOUS
<1>7. /\ now \in Nat /\ memo \in Nat /\ got \in Nat
      /\ now <= clock /\ memo <= edition /\ got <= edition
  BY <1>3, <1>6
<1>10. CASE Sidecar!Open(q)
  <2>1. Becomes(q, "open", clock, 0, 0) /\ UNCHANGED Sidecar!world /\ UNCHANGED Sidecar!disk
    BY <1>10, Moves DEF Sidecar!Open
  <2>2. Knows(q)' /\ ~ Sidecar!Busy(q)'
    BY <2>1 DEF Becomes, Knows, Sidecar!Busy
  <2> QED BY <2>1, <2>2, Elsewhere DEF Becomes
<1>11. CASE Sidecar!UseDisk(q)
  <2>1. Becomes(q, "ready", now, manifest, got) /\ UNCHANGED Sidecar!world
          /\ UNCHANGED Sidecar!disk
    BY <1>6, <1>11, Moves DEF Sidecar!UseDisk
  <2>2. manifest # 0 /\ now < fetchedAt + TTL
    BY <1>6, <1>11 DEF Sidecar!UseDisk, Sidecar!Fresh
  <2>3. fetchedAt <= replacedAt[manifest] /\ replacedAt[manifest] \in Nat
    BY <1>1, <1>2, <1>4, <2>2 DEF DiskIsOld
  <2>4. now < replacedAt[manifest] + TTL
    BY <1>1, <1>7, <2>2, <2>3
  <2>5. Knows(q)' /\ ~ Sidecar!Busy(q)'
    BY <2>1, <2>2, <2>4 DEF Becomes, Knows, Sidecar!Busy, Sidecar!world
  <2> QED BY <2>1, <2>5, Elsewhere DEF Becomes
<1>12. CASE Sidecar!Request(q)
  <2>1. Becomes(q, "asking", now, manifest, Sidecar!IfNoneMatch) /\ UNCHANGED Sidecar!world
          /\ UNCHANGED Sidecar!disk
    BY <1>6, <1>12, Moves DEF Sidecar!Request
  <2>2. Sidecar!IfNoneMatch # 0 => Sidecar!IfNoneMatch <= manifest
    BY <1>4 DEF Sidecar!IfNoneMatch, DiskIsOld
  <2>3. Knows(q)'
    BY <2>1, <2>2 DEF Becomes, Knows, Sidecar!disk
  <2>4. \A o \in Fetchers : o # q => ~ Sidecar!Busy(o)
    BY <1>12 DEF Sidecar!Request
  <2> QED BY <2>1, <2>3, <2>4, Elsewhere DEF Becomes
<1>13. CASE Sidecar!Fetch(q)
  <2>1. UNCHANGED Sidecar!world /\ UNCHANGED Sidecar!disk /\ proc[q].phase = "asking"
          /\ Sidecar!Busy(q)
    BY <1>13 DEF Sidecar!Fetch, Sidecar!Busy
  <2>2. manifest \in {memo, 0} /\ (got # 0 => got <= memo)
    BY <1>4, <1>6, <2>1 DEF Knows
  <2>3. ASSUME got = edition PROVE Kept'
    <3>1. Becomes(q, "write meta", now, memo, got)
      BY <1>6, <1>13, <2>3, Moves
    <3>2. memo = got /\ got # 0 /\ now <= replacedAt[got]
      BY <1>1, <1>5, <1>7, <2>2, <2>3
    <3>3. Knows(q)'
      BY <2>1, <2>2, <3>1, <3>2 DEF Becomes, Knows, Sidecar!world, Sidecar!disk
    <3> QED BY <2>1, <3>1, <3>3, Elsewhere DEF Becomes
  <2>4. ASSUME got # edition PROVE Kept'
    <3>1. Becomes(q, "write manifest", now, edition, edition)
      BY <1>6, <1>13, <2>4, Moves
    <3>2. edition # 0 /\ etag <= edition /\ now <= replacedAt[edition]
            /\ fetchedAt <= replacedAt[edition]
      BY <1>1, <1>5, <1>7
    <3>3. Knows(q)'
      BY <2>1, <3>1, <3>2 DEF Becomes, Knows, Sidecar!world, Sidecar!disk
    <3> QED BY <2>1, <3>1, <3>3, Elsewhere DEF Becomes
  <2> QED BY <2>3, <2>4
<1>14. CASE Sidecar!FetchFails(q)
  <2>1. Becomes(q, "ready", now, memo, got) /\ ~ proc'[q].ok /\ UNCHANGED Sidecar!world
          /\ UNCHANGED Sidecar!disk
    BY <1>6, <1>14, Moves DEF Sidecar!FetchFails
  <2>2. Knows(q)' /\ ~ Sidecar!Busy(q)'
    BY <2>1 DEF Becomes, Knows, Sidecar!Busy
  <2> QED BY <2>1, <2>2, Elsewhere DEF Becomes
<1>15. CASE Sidecar!WriteManifest(q)
  <2>1. /\ Becomes(q, "write meta", now, memo, got) /\ UNCHANGED Sidecar!world /\ Sidecar!Busy(q)
        /\ proc[q].phase = "write manifest" /\ manifest' = got /\ etag' = etag
             /\ fetchedAt' = fetchedAt
    BY <1>6, <1>15, Moves DEF Sidecar!WriteManifest, Sidecar!Busy
  <2>2. /\ got # 0 /\ memo = got /\ etag <= got /\ now <= replacedAt[got]
        /\ fetchedAt <= replacedAt[got]
    BY <1>4, <1>6, <2>1 DEF Knows
  <2>3. DiskIsOld'
    BY <2>1, <2>2 DEF DiskIsOld, Sidecar!world
  <2>4. Knows(q)'
    BY <2>1, <2>2 DEF Becomes, Knows, Sidecar!world
  <2> QED BY <2>1, <2>3, <2>4, Written DEF Becomes
<1>16. CASE Sidecar!WriteMeta(q)
  <2>1. /\ Becomes(q, "ready", now, memo, got) /\ UNCHANGED Sidecar!world /\ Sidecar!Busy(q)
        /\ proc[q].phase = "write meta" /\ manifest' = manifest /\ etag' = got /\ fetchedAt' = now
    BY <1>6, <1>16, Moves DEF Sidecar!WriteMeta, Sidecar!Busy
  <2>2. got # 0 /\ memo = got /\ manifest \in {got, 0} /\ now <= replacedAt[got]
    BY <1>4, <1>6, <2>1 DEF Knows
  <2>3. DiskIsOld'
    <3>1. got <= got
      BY <1>7
    <3> QED BY <2>1, <2>2, <3>1 DEF DiskIsOld, Sidecar!world
  <2>4. replacedAt[got] \in Nat /\ now < replacedAt[got] + TTL
    <3>1. got \in Editions
      BY <1>1, <1>7, <2>2
    <3> QED BY <1>1, <1>2, <1>7, <2>2, <3>1
  <2>5. Knows(q)'
    BY <2>1, <2>2, <2>4 DEF Becomes, Knows, Sidecar!world
  <2> QED BY <2>1, <2>3, <2>5, Written DEF Becomes
<1>17. CASE Sidecar!WriteFails(q)
  BY <1>17 DEF Sidecar!WriteFails
<1>18. CASE Sidecar!Close(q) \/ Sidecar!Crash(q)
  <2>1. Becomes(q, "closed", 0, 0, 0) /\ UNCHANGED Sidecar!world /\ UNCHANGED Sidecar!disk
    BY <1>18, Moves DEF Sidecar!Close, Sidecar!Crash
  <2>2. Knows(q)' /\ ~ Sidecar!Busy(q)'
    BY <2>1 DEF Becomes, Knows, Sidecar!Busy
  <2> QED BY <2>1, <2>2, Elsewhere DEF Becomes
<1> QED BY <1>10, <1>11, <1>12, <1>13, <1>14, <1>15, <1>16, <1>17, <1>18

\* Removal of the cache, a new edition, and time.
LEMMA KeptByWorld ==
  ASSUME Sane, Typed, InOrder, Kept, Sidecar!Remove \/ Sidecar!Publish \/ Sidecar!Tick
           \/ UNCHANGED Sidecar!vars
  PROVE  Kept'
<1>1. /\ proc' = proc /\ etag' = etag /\ fetchedAt' = fetchedAt /\ manifest' \in {manifest, 0}
  BY DEF Sidecar!Remove, Sidecar!Publish, Sidecar!Tick, Sidecar!vars, Sidecar!disk
<1>2. OneBusy'
  BY <1>1 DEF Kept, OneBusy, Sidecar!Busy
<1>3. ASSUME NEW e \in Editions, e <= edition, NEW x \in Nat, x <= clock
      PROVE  /\ x <= replacedAt[e] => x <= replacedAt'[e]
             /\ x < replacedAt[e] + TTL => x < replacedAt'[e] + TTL
  <2>1. /\ edition \in Nat /\ clock \in Nat /\ TTL \in Nat /\ TTL >= 1
        /\ replacedAt \in [Editions -> 0 .. MaxClock + 1]
    BY DEF Typed, Sane, Editions
  <2>2. CASE Sidecar!Publish
    <3>1. replacedAt'[e] = IF e = edition THEN clock ELSE replacedAt[e]
      BY <2>1, <2>2 DEF Sidecar!Publish
    <3> QED BY <1>3, <2>1, <3>1
  <2>3. CASE ~ Sidecar!Publish
    <3>1. replacedAt' = replacedAt
      BY <2>3 DEF Sidecar!Remove, Sidecar!Tick, Sidecar!vars, Sidecar!world
    <3> QED BY <3>1
  <2> QED BY <2>2, <2>3
<1>4. /\ \A e \in 1 .. edition : e \in Editions /\ e <= edition
      /\ manifest \in Nat /\ manifest <= edition /\ fetchedAt \in Nat /\ fetchedAt <= clock
      /\ edition \in Nat
  BY DEF Typed, Sane, Editions
<1>5. DiskIsOld'
  <2> SUFFICES ASSUME manifest' # 0
               PROVE  etag' <= manifest' /\ fetchedAt' <= replacedAt'[manifest']
    BY DEF DiskIsOld
  <2>1. manifest' = manifest /\ manifest # 0
    BY <1>1
  <2>2. etag <= manifest /\ fetchedAt <= replacedAt[manifest] /\ manifest \in 1 .. edition
    BY <1>4, <2>1 DEF Kept, DiskIsOld
  <2>3. fetchedAt <= replacedAt'[manifest]
    BY <1>3, <1>4, <2>2
  <2> QED BY <1>1, <2>1, <2>2, <2>3
<1>6. ASSUME NEW q \in Fetchers PROVE Knows(q)'
  <2>1. /\ proc[q].now \in Nat /\ proc[q].memo \in Nat /\ proc[q].got \in Nat
        /\ proc[q].now <= clock /\ proc[q].memo <= edition /\ proc[q].got <= edition
    BY DEF Typed, Jobs
  <2>2. /\ proc[q].memo # 0 => proc[q].memo \in Editions
        /\ proc[q].got # 0 => proc[q].got \in Editions
    BY <1>4, <2>1
  <2>3. /\ proc[q].got # 0 /\ proc[q].now <= replacedAt[proc[q].got] =>
             proc[q].now <= replacedAt'[proc[q].got]
        /\ proc[q].got # 0 /\ fetchedAt <= replacedAt[proc[q].got] =>
             fetchedAt <= replacedAt'[proc[q].got]
        /\ proc[q].memo # 0 /\ proc[q].now < replacedAt[proc[q].memo] + TTL =>
             proc[q].now < replacedAt'[proc[q].memo] + TTL
    BY <1>3, <1>4, <2>1, <2>2
  <2>4. Knows(q)
    BY DEF Kept
  <2> QED BY <1>1, <2>3, <2>4 DEF Knows
<1> QED BY <1>2, <1>5, <1>6 DEF Kept

\* At the start nothing is on disk.
LEMMA SidecarInit == Sane /\ Sidecar!Init => Typed /\ InOrder /\ Fetched
<1> SUFFICES ASSUME Sane, Sidecar!Init PROVE Typed /\ InOrder /\ Kept
  BY DEF Fetched
<1>1. /\ edition = 1 /\ clock = 0 /\ manifest = 0 /\ etag = 0 /\ fetchedAt = 0
      /\ proc = [q \in Fetchers |-> Sidecar!Closed]
           /\ replacedAt = [e \in Editions |-> MaxClock + 1]
      /\ MaxEdition \in Nat /\ MaxEdition >= 1 /\ MaxClock \in Nat
  BY DEF Sidecar!Init, Sane, Editions
<1>2. Sidecar!Closed \in Jobs /\ Sidecar!Closed.now = 0 /\ Sidecar!Closed.memo = 0
        /\ Sidecar!Closed.got = 0 /\ Sidecar!Closed.phase = "closed"
  BY DEF Sidecar!Closed, Jobs, Phases
<1>3. /\ proc \in [Fetchers -> Jobs]
      /\ \A q \in Fetchers : proc[q].now = 0 /\ proc[q].memo = 0 /\ proc[q].got = 0
                          /\ proc[q].phase = "closed"
  BY <1>1, <1>2
<1>4. edition \in Editions /\ replacedAt \in [Editions -> 0 .. MaxClock + 1]
  BY <1>1 DEF Editions
<1>5. Typed
  BY <1>1, <1>3, <1>4 DEF Typed
<1>6. \A e \in Editions : e \in Nat /\ e >= 1 /\ replacedAt[e] = MaxClock + 1
  BY <1>1 DEF Editions
<1>7. InOrder
  BY <1>1, <1>6 DEF InOrder
<1>8. Kept
  BY <1>1, <1>3 DEF Kept, OneBusy, Sidecar!Busy, DiskIsOld, Knows
<1> QED BY <1>5, <1>7, <1>8

\* Every step, with what it says of the causes that are left out.
LEMMA SidecarStep ==
  Sane /\ Typed /\ InOrder /\ Fetched
      /\ [Sidecar!Next]_(Sidecar!vars) => (Typed /\ InOrder /\ Fetched)'
<1> SUFFICES ASSUME Sane, Typed, InOrder, Fetched, [Sidecar!Next]_(Sidecar!vars), ~ crossed',
                    ~ lost' PROVE Kept'
  BY TypedStep, InOrderStep DEF Fetched
<1>1. ~ crossed /\ ~ lost
  <2>1. ASSUME NEW q \in Fetchers, Sidecar!Request(q) PROVE ~ crossed /\ ~ lost
    <3>1. lost' = lost /\ crossed' = (crossed \/ \E o \in Fetchers \ {q} : Sidecar!Busy(o))
      BY <2>1, Zenon DEF Sidecar!Request
    <3> QED BY <3>1, Zenon
  <2>2. ASSUME NEW q \in Fetchers,
               \/ Sidecar!Open(q) \/ Sidecar!UseDisk(q) \/ Sidecar!Fetch(q)
                    \/ Sidecar!FetchFails(q) \/ Sidecar!WriteManifest(q)
               \/ Sidecar!WriteMeta(q) \/ Sidecar!Close(q) \/ Sidecar!Crash(q)
        PROVE  ~ crossed /\ ~ lost
    <3>1. crossed' = crossed /\ lost' = lost
      <4>1. CASE Sidecar!Open(q)
        BY <4>1, Zenon DEF Sidecar!Open
      <4>2. CASE Sidecar!UseDisk(q)
        BY <4>2, Zenon DEF Sidecar!UseDisk
      <4>3. CASE Sidecar!Fetch(q)
        BY <4>3, Zenon DEF Sidecar!Fetch
      <4>4. CASE Sidecar!FetchFails(q)
        BY <4>4, Zenon DEF Sidecar!FetchFails
      <4>5. CASE Sidecar!WriteManifest(q)
        BY <4>5, Zenon DEF Sidecar!WriteManifest
      <4>6. CASE Sidecar!WriteMeta(q)
        BY <4>6, Zenon DEF Sidecar!WriteMeta
      <4>7. CASE Sidecar!Close(q)
        BY <4>7, Zenon DEF Sidecar!Close
      <4>8. CASE Sidecar!Crash(q)
        BY <4>8, Zenon DEF Sidecar!Crash
      <4> QED BY <2>2, <4>1, <4>2, <4>3, <4>4, <4>5, <4>6, <4>7, <4>8
    <3> QED BY <3>1, Zenon
  <2>3. ASSUME NEW q \in Fetchers, Sidecar!WriteFails(q) PROVE ~ crossed /\ ~ lost
    <3>1. lost' = TRUE
      BY <2>3, Zenon DEF Sidecar!WriteFails
    <3> QED BY <3>1
  <2>4. ASSUME Sidecar!Remove \/ Sidecar!Publish \/ Sidecar!Tick \/ UNCHANGED Sidecar!vars
        PROVE ~ crossed /\ ~ lost
    BY <2>4 DEF Sidecar!Remove, Sidecar!Publish, Sidecar!Tick, Sidecar!vars
  <2> QED BY <2>1, <2>2, <2>3, <2>4 DEF Sidecar!Next
<1>2. Kept
  BY <1>1 DEF Fetched
<1> QED BY <1>2, KeptByProcess, KeptByWorld DEF Sidecar!Next

\* The invariant of the sidecar.
LEMMA SidecarInv == Sane => (Sidecar!Spec => [](Typed /\ InOrder /\ Fetched))
<1> SUFFICES ASSUME Sane PROVE Sidecar!Spec => [](Typed /\ InOrder /\ Fetched)
  OBVIOUS
<1>1. Typed /\ InOrder /\ Fetched
        /\ [Sidecar!Next]_(Sidecar!vars) => (Typed /\ InOrder /\ Fetched)'
  BY SidecarStep
<1>2. Sidecar!Init => Typed /\ InOrder /\ Fetched
  BY SidecarInit
<1> QED BY <1>1, <1>2, PTL DEF Sidecar!Spec

\* A process works with an edition that was current within the time to live
\* before it opened the sidecar, unless its request failed, for any processes,
\* editions, crashes and faults: a 304 confirms the very manifest on disk,
\* whichever of the two files a crash left behind. Two processes that fetch at
\* a time and a write that fails are the only exceptions.
THEOREM ManifestsAreRecent == Sane => (Sidecar!Spec => []StalenessIsBounded)
<1> SUFFICES ASSUME Sane PROVE Sidecar!Spec => []StalenessIsBounded
  OBVIOUS
<1>1. Typed /\ Fetched => StalenessIsBounded
  <2> SUFFICES ASSUME Typed, Kept, NEW q \in Fetchers, proc[q].phase = "ready", proc[q].ok
               PROVE  proc[q].memo # 0 /\ replacedAt[proc[q].memo] + TTL > proc[q].now
    BY DEF Fetched, StalenessIsBounded, Sidecar!StalenessIsBounded
  <2>1. Knows(q)
    BY DEF Kept
  <2>2. proc[q].memo # 0 /\ proc[q].now < replacedAt[proc[q].memo] + TTL
    BY <2>1 DEF Knows
  <2> QED BY <2>2
<1>2. Sidecar!Spec => [](Typed /\ InOrder /\ Fetched)
  BY SidecarInv
<1> QED BY <1>1, <1>2, PTL

\* Those two are also the only ways in which the validator on disk comes to be
\* newer than the manifest beside it.
THEOREM ValidatorsAreNotNewer ==
  Sane => (Sidecar!Spec => [](crossed \/ lost \/ Sidecar!ValidatorIsOfTheManifest))
<1> SUFFICES ASSUME Sane
             PROVE  Sidecar!Spec => [](crossed \/ lost \/ Sidecar!ValidatorIsOfTheManifest)
  OBVIOUS
<1>1. Fetched => crossed \/ lost \/ Sidecar!ValidatorIsOfTheManifest
  BY DEF Fetched, Kept, DiskIsOld, Sidecar!ValidatorIsOfTheManifest
<1>2. Sidecar!Spec => [](Typed /\ InOrder /\ Fetched)
  BY SidecarInv
<1> QED BY <1>1, <1>2, PTL

--------------------------------------------------------------------------------
\* The formatter of a DESCRIPTION has no markdown default.
NoMarkdownInDcf ==
  \A c \in Contents, v \in Versions, s \in Styles, md \in BOOLEAN :
    Verdict[c][[version |-> v, style |-> s, grammar |-> "DCF", markdown |-> md]]
      = Verdict[c][[version |-> v, style |-> s, grammar |-> "DCF", markdown |-> FALSE]]

\* Keys of the cache, what a run counted as unchanged, and a run at work.
Keys == [grammar : Format!Grammars, content : Contents, markdown : BOOLEAN]
Judgements == [content : Contents, context : Format!Contexts]
ActiveRuns ==
  [phase : {"checking", "collect", "done"}, version : Versions, style : Styles,
   todo : SUBSET Paths, points : SUBSET Keys, dirty : BOOLEAN, memo : SUBSET BOOLEAN,
   clean : SUBSET Judgements]

\* What the variables range over.
FormatTyped ==
  /\ stored \in [Versions -> [Styles -> SUBSET Keys]]
  /\ texts \in [Paths -> Contents] /\ markdown \in BOOLEAN
  /\ run \in [Checkers -> {Format!Idle} \union ActiveRuns]

\* The verdict a key stands for.
Says(v, s, key) ==
  Verdict[key.content][[version |-> v, style |-> s, grammar |-> key.grammar,
                        markdown |-> key.markdown]]

\* Every point in the cache and in memory is a fixed point of its version and style.
PointsAreFixed ==
  /\ \A v \in Versions, s \in Styles : \A key \in stored[v][s] : Says(v, s, key) = "fixed"
  /\ \A k \in Checkers : run[k] # Format!Idle =>
       \A key \in run[k].points : Says(run[k].version, run[k].style, key) = "fixed"

\* What a run counts as unchanged is.
CleanIsFormatted ==
  \A k \in Checkers : run[k] # Format!Idle =>
    \A j \in run[k].clean : Verdict[j.content][j.context] \in {"fixed", "declined"}

\* The invariant of the formatter's cache.
Checked == FormatTyped /\ PointsAreFixed /\ CleanIsFormatted

\* A run at work has fields that an idle one lacks.
LEMMA ActiveIsNotIdle == ASSUME NEW r \in ActiveRuns PROVE r # Format!Idle
BY DEF ActiveRuns, Format!Idle

\* A key stands for the verdict of its file.
LEMMA KeySaysItsVerdict ==
  ASSUME NoMarkdownInDcf, NEW path \in Paths, NEW c \in Contents, NEW md \in BOOLEAN,
         NEW v \in Versions, NEW s \in Styles
  PROVE  /\ Format!CacheKey(path, c, md) \in Keys
         /\ Says(v, s, Format!CacheKey(path, c, md)) =
              Verdict[c][[version |-> v, style |-> s, grammar |-> Format!Grammar(path),
                          markdown |-> md]]
<1>1. CASE path \in Descriptions
  BY <1>1 DEF Format!Grammar, Format!CacheKey, Says, Keys, Format!Grammars, NoMarkdownInDcf
<1>2. CASE path \notin Descriptions
  BY <1>2 DEF Format!Grammar, Format!CacheKey, Says, Keys, Format!Grammars
<1> QED BY <1>1, <1>2

\* The file a run looks at.
LEMMA FileIsTyped ==
  ASSUME FormatTyped, NEW k \in Checkers, NEW path \in Paths, run[k].phase = "checking"
  PROVE  /\ run[k] \in ActiveRuns /\ texts[path] \in Contents
         /\ Format!Memo(k, path) \in SUBSET BOOLEAN /\ (TRUE \in Format!Memo(k, path)) \in BOOLEAN
         /\ Format!Context(k, path) \in Format!Contexts
<1>1. run[k] \in ActiveRuns
  BY DEF FormatTyped, Format!Idle
<1>2. texts[path] \in Contents
  BY DEF FormatTyped
<1>3. Format!Memo(k, path) \in SUBSET BOOLEAN
  BY <1>1 DEF Format!Memo, ActiveRuns, FormatTyped
<1>4. (TRUE \in Format!Memo(k, path)) \in BOOLEAN
  OBVIOUS
<1>5. Format!Context(k, path) \in Format!Contexts
  <2>1. run[k].version \in Versions /\ run[k].style \in Styles
    BY <1>1 DEF ActiveRuns
  <2>2. Format!Grammar(path) \in Format!Grammars
    BY DEF Format!Grammar, Format!Grammars
  <2> QED BY <1>4, <2>1, <2>2 DEF Format!Context, Format!Contexts
<1> QED BY <1>1, <1>2, <1>3, <1>4, <1>5

\* One run goes on, and the cache stays.
LEMMA PutRun ==
  ASSUME Checked, NEW k \in Checkers, NEW r \in {Format!Idle} \union ActiveRuns,
         run' = [run EXCEPT ![k] = r], UNCHANGED <<stored, texts, markdown>>,
         r # Format!Idle =>
           /\ \A key \in r.points : Says(r.version, r.style, key) = "fixed"
           /\ \A j \in r.clean : Verdict[j.content][j.context] \in {"fixed", "declined"}
  PROVE  Checked'
<1>1. FormatTyped'
  BY DEF Checked, FormatTyped
<1>2. PointsAreFixed' /\ CleanIsFormatted'
  BY DEF Checked, FormatTyped, PointsAreFixed, CleanIsFormatted, Says
<1> QED BY <1>1, <1>2 DEF Checked

\* At the start no run has a point.
LEMMA FormatInit == Format!Init => Checked
BY DEF Format!Init, Checked, FormatTyped, PointsAreFixed, CleanIsFormatted

\* Every action of a run, and an edit beside it.
LEMMA FormatStep == NoMarkdownInDcf /\ Checked /\ [Format!Next]_(Format!vars) => Checked'
<1> SUFFICES ASSUME NoMarkdownInDcf, Checked, [Format!Next]_(Format!vars) PROVE Checked'
  OBVIOUS
<1>a. ASSUME NEW k \in Checkers, run[k] \in ActiveRuns
      PROVE  /\ \A key \in run[k].points : Says(run[k].version, run[k].style, key) = "fixed"
             /\ \A j \in run[k].clean : Verdict[j.content][j.context] \in {"fixed", "declined"}
  BY <1>a, ActiveIsNotIdle DEF Checked, PointsAreFixed, CleanIsFormatted
<1>1. ASSUME NEW k \in Checkers, NEW v \in Versions, NEW s \in Styles,
             Format!Start(k, v, s) PROVE Checked'
  <2> DEFINE r == [phase |-> "checking", version |-> v, style |-> s, todo |-> Paths,
                   points |-> stored[v][s], dirty |-> FALSE, memo |-> {}, clean |-> {}]
  <2>1. stored[v][s] \in SUBSET Keys
    BY DEF Checked, FormatTyped
  <2>2. r \in ActiveRuns
    BY <2>1 DEF ActiveRuns
  <2>3. \A key \in r.points : Says(r.version, r.style, key) = "fixed"
    BY DEF Checked, PointsAreFixed
  <2>4. run' = [run EXCEPT ![k] = r] /\ UNCHANGED <<stored, texts, markdown>> /\ r.clean = {}
    BY <1>1 DEF Format!Start
  <2> HIDE DEF r
  <2> QED BY <2>2, <2>3, <2>4, PutRun
<1>2. ASSUME NEW k \in Checkers, NEW path \in Paths, Format!Hit(k, path) PROVE Checked'
  <2> DEFINE md == TRUE \in Format!Memo(k, path)
             j == [content |-> texts[path], context |-> Format!Context(k, path)]
             r == [run[k] EXCEPT !.todo = @ \ {path}, !.memo = Format!Memo(k, path),
                                 !.clean = @ \union {j}]
  <2>1. /\ run[k].phase = "checking" /\ Format!Key(k, path) \in run[k].points
        /\ run' = [run EXCEPT ![k] = r] /\ UNCHANGED <<stored, texts, markdown>>
    BY <1>2 DEF Format!Hit
  <2>2. /\ run[k] \in ActiveRuns /\ texts[path] \in Contents /\ md \in BOOLEAN
        /\ Format!Memo(k, path) \in SUBSET BOOLEAN /\ Format!Context(k, path) \in Format!Contexts
    BY <2>1, FileIsTyped DEF Checked
  <2>3. Says(run[k].version, run[k].style, Format!Key(k, path)) = "fixed"
    BY <1>a, <2>1, <2>2
  <2>4. Verdict[j.content][j.context] = "fixed"
    <3>1. run[k].version \in Versions /\ run[k].style \in Styles
      BY <2>2 DEF ActiveRuns
    <3>2. Says(run[k].version, run[k].style, Format!Key(k, path))
            = Verdict[texts[path]][Format!Context(k, path)]
      BY <2>2, <3>1, KeySaysItsVerdict DEF Format!Key, Format!Context
    <3> QED BY <2>3, <3>2
  <2>5. j \in Judgements
    BY <2>2 DEF Judgements
  <2> HIDE DEF j, md
  <2>6. /\ r \in ActiveRuns /\ r.points = run[k].points /\ r.clean = run[k].clean \union {j}
        /\ r.version = run[k].version /\ r.style = run[k].style
    BY <2>2, <2>5 DEF ActiveRuns
  <2> HIDE DEF r
  <2> QED BY <1>a, <2>1, <2>2, <2>4, <2>6, PutRun
<1>3. ASSUME NEW k \in Checkers, NEW path \in Paths, Format!Miss(k, path) PROVE Checked'
  <2> DEFINE j == [content |-> texts[path], context |-> Format!Context(k, path)]
             verdict == Verdict[texts[path]][Format!Context(k, path)]
             clean == IF verdict \in {"fixed", "declined"} THEN run[k].clean \union {j}
                      ELSE run[k].clean
             points == IF Format!Recordable(verdict)
                        THEN run[k].points \union {Format!Key(k, path)}
                       ELSE run[k].points
             dirty == run[k].dirty \/ Format!Recordable(verdict)
             r == [run[k] EXCEPT !.todo = @ \ {path}, !.memo = Format!Memo(k, path),
                                 !.clean = clean, !.points = points, !.dirty = dirty]
  <2>1. /\ run[k].phase = "checking"
        /\ run' = [run EXCEPT ![k] = r] /\ UNCHANGED <<stored, texts, markdown>>
    BY <1>3 DEF Format!Miss
  <2>2. /\ run[k] \in ActiveRuns /\ texts[path] \in Contents
             /\ (TRUE \in Format!Memo(k, path)) \in BOOLEAN
        /\ Format!Memo(k, path) \in SUBSET BOOLEAN /\ Format!Context(k, path) \in Format!Contexts
    BY <2>1, FileIsTyped DEF Checked
  <2>3. /\ Format!Key(k, path) \in Keys
        /\ Says(run[k].version, run[k].style, Format!Key(k, path)) = verdict
    <3>1. run[k].version \in Versions /\ run[k].style \in Styles
      BY <2>2 DEF ActiveRuns
    <3> QED BY <2>2, <3>1, KeySaysItsVerdict DEF Format!Key, Format!Context
  <2>4. j \in Judgements /\ Verdict[j.content][j.context] = verdict
    BY <2>2 DEF Judgements
  <2> HIDE DEF j, verdict
  <2>5. /\ clean \in SUBSET Judgements
        /\ \A x \in clean : Verdict[x.content][x.context] \in {"fixed", "declined"}
    BY <1>a, <2>2, <2>4 DEF ActiveRuns
  <2>6. /\ points \in SUBSET Keys
        /\ \A key \in points : Says(run[k].version, run[k].style, key) = "fixed"
    BY <1>a, <2>2, <2>3 DEF ActiveRuns, Format!Recordable
  <2>7. dirty \in BOOLEAN
    BY <2>2 DEF ActiveRuns, Format!Recordable
  <2> HIDE DEF clean, points, dirty
  <2>8. /\ r \in ActiveRuns /\ r.points = points /\ r.clean = clean
        /\ r.version = run[k].version /\ r.style = run[k].style
    BY <2>2, <2>5, <2>6, <2>7 DEF ActiveRuns
  <2> HIDE DEF r
  <2> QED BY <2>1, <2>5, <2>6, <2>8, PutRun
<1>4. ASSUME NEW k \in Checkers, NEW path \in Paths, Format!Skip(k, path) PROVE Checked'
  <2> DEFINE r == [run[k] EXCEPT !.todo = @ \ {path}]
  <2>1. /\ run[k] \in ActiveRuns
        /\ run' = [run EXCEPT ![k] = r] /\ UNCHANGED <<stored, texts, markdown>>
    BY <1>4, FileIsTyped DEF Format!Skip, Checked
  <2>2. /\ r \in ActiveRuns /\ r.points = run[k].points /\ r.clean = run[k].clean
        /\ r.version = run[k].version /\ r.style = run[k].style
    BY <2>1 DEF ActiveRuns
  <2> HIDE DEF r
  <2> QED BY <1>a, <2>1, <2>2, PutRun
<1>5. ASSUME NEW k \in Checkers, Format!Store(k) PROVE Checked'
  <2> DEFINE r(phase) == [run[k] EXCEPT !.phase = phase]
  <2>1. run[k] \in ActiveRuns
    BY <1>5 DEF Format!Store, Checked, FormatTyped, Format!Idle
  <2>2. ASSUME NEW phase \in {"collect", "done"}
        PROVE  /\ r(phase) \in ActiveRuns /\ r(phase).points = run[k].points
               /\ r(phase).clean = run[k].clean
               /\ r(phase).version = run[k].version /\ r(phase).style = run[k].style
    BY <2>1 DEF ActiveRuns
  <2>3. CASE run' = [run EXCEPT ![k] = r("done")] /\ stored' = stored
    <3>1. UNCHANGED <<stored, texts, markdown>>
      BY <1>5, <2>3 DEF Format!Store
    <3> HIDE DEF r
    <3> QED BY <1>a, <2>1, <2>2, <2>3, <3>1, PutRun
  <2>4. CASE /\ stored' = [stored EXCEPT ![run[k].version][run[k].style] = run[k].points]
             /\ run' = [run EXCEPT ![k] = r("collect")]
    <3>1. /\ run[k].version \in Versions /\ run[k].style \in Styles
          /\ run[k].points \in SUBSET Keys /\ UNCHANGED <<texts, markdown>>
      BY <1>5, <2>1 DEF ActiveRuns, Format!Store
    <3> HIDE DEF r
    <3>2. FormatTyped'
      BY <2>2, <2>4, <3>1 DEF Checked, FormatTyped
    <3>3. \A v \in Versions, s \in Styles :
            stored'[v][s] = IF v = run[k].version /\ s = run[k].style THEN run[k].points
                            ELSE stored[v][s]
      BY <2>4, <3>1 DEF Checked, FormatTyped
    <3>4. \A v \in Versions, s \in Styles : \A key \in stored'[v][s] : Says(v, s, key) = "fixed"
      BY <1>a, <2>1, <3>3 DEF Checked, PointsAreFixed
    <3>5. \A o \in Checkers : run'[o] # Format!Idle =>
            /\ run[o] # Format!Idle /\ run'[o].points = run[o].points
                 /\ run'[o].clean = run[o].clean
            /\ run'[o].version = run[o].version /\ run'[o].style = run[o].style
      BY <2>1, <2>2, <2>4, ActiveIsNotIdle DEF Checked, FormatTyped
    <3>6. \A o \in Checkers : run'[o] # Format!Idle =>
            \A key \in run'[o].points : Says(run'[o].version, run'[o].style, key) = "fixed"
      BY <3>5 DEF Checked, PointsAreFixed
    <3>7. PointsAreFixed'
      BY <3>4, <3>6 DEF PointsAreFixed, Says
    <3>8. CleanIsFormatted'
      BY <3>5 DEF Checked, CleanIsFormatted
    <3> QED BY <3>2, <3>7, <3>8 DEF Checked
  <2> QED BY <1>5, <2>3, <2>4 DEF Format!Store
<1>6. ASSUME NEW k \in Checkers, Format!GcOldVersionDirs(k) PROVE Checked'
  <2> DEFINE r == [run[k] EXCEPT !.phase = "done"]
  <2>1. /\ run[k] \in ActiveRuns /\ run' = [run EXCEPT ![k] = r] /\ UNCHANGED <<texts, markdown>>
        /\ stored' = [v \in Versions |->
             IF v = run[k].version THEN stored[v] ELSE [s \in Styles |-> {}]]
    BY <1>6 DEF Format!GcOldVersionDirs, Checked, FormatTyped, Format!Idle
  <2>2. /\ r \in ActiveRuns /\ r.points = run[k].points /\ r.clean = run[k].clean
        /\ r.version = run[k].version /\ r.style = run[k].style
    BY <2>1 DEF ActiveRuns
  <2> HIDE DEF r
  <2>3. FormatTyped'
    BY <2>1, <2>2 DEF Checked, FormatTyped
  <2>4. \A v \in Versions, s \in Styles : stored'[v][s] \subseteq stored[v][s]
    BY <2>1 DEF Checked, FormatTyped
  <2>5. \A o \in Checkers : run'[o] # Format!Idle =>
          /\ run[o] # Format!Idle /\ run'[o].points = run[o].points /\ run'[o].clean = run[o].clean
          /\ run'[o].version = run[o].version /\ run'[o].style = run[o].style
    BY <2>1, <2>2, ActiveIsNotIdle DEF Checked, FormatTyped
  <2>6. PointsAreFixed' /\ CleanIsFormatted'
    BY <2>4, <2>5 DEF Checked, PointsAreFixed, CleanIsFormatted, Says
  <2> QED BY <2>3, <2>6 DEF Checked
<1>7. ASSUME NEW k \in Checkers, Format!End(k) PROVE Checked'
  BY <1>7, PutRun DEF Format!End
<1>8. CASE Format!Edit
  <2>1. texts' \in [Paths -> Contents] /\ markdown' \in BOOLEAN /\ UNCHANGED <<stored, run>>
    BY <1>8 DEF Format!Edit, Checked, FormatTyped
  <2> QED BY <2>1 DEF Checked, FormatTyped, PointsAreFixed, CleanIsFormatted, Says
<1>9. CASE UNCHANGED Format!vars
  BY <1>9 DEF Format!vars, Checked, FormatTyped, PointsAreFixed, CleanIsFormatted, Says
<1> QED
  BY <1>1, <1>2, <1>3, <1>4, <1>5, <1>6, <1>7, <1>8, <1>9 DEF Format!Next

\* A hit in the cache is as good as formatting the file: whatever runs of other
\* versions and styles store, collect or leave half done (format --check).
THEOREM HitsAreFormatted == NoMarkdownInDcf => (Format!Spec => []CleanMeansFormatted)
<1> SUFFICES ASSUME NoMarkdownInDcf PROVE Format!Spec => []CleanMeansFormatted
  OBVIOUS
<1>1. Checked => CleanMeansFormatted
  <2>1. \A k \in Checkers : run[k].phase # "idle" => run[k] # Format!Idle
    BY DEF Format!Idle
  <2> QED BY <2>1 DEF Checked, CleanIsFormatted, CleanMeansFormatted, Format!CleanMeansFormatted
<1>2. Checked /\ [Format!Next]_(Format!vars) => Checked'
  BY FormatStep
<1> QED
  BY <1>1, <1>2, FormatInit, PTL DEF Format!Spec
================================================================================
