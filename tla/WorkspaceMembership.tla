---------------------- MODULE WorkspaceMembership ----------------------
(***************************************************************************)
(* Which R files the language server takes for members of the workspace:   *)
(* the seed of a workspace folder (lint_thread.rs, check.rs), the file     *)
(* watcher's batches (watched_files.rs), rename batches (file_rename.rs,   *)
(* incremental.rs) and the scope that judges them (workspace_scope.rs).    *)
(*                                                                         *)
(* The client changes the disk, and tells the server later: a rename batch *)
(* after it landed, the watcher's events in order but in batches of any    *)
(* length.  The lint thread handles one message at a time, against the     *)
(* disk as it is by then.                                                  *)
(*                                                                         *)
(* A path is a directory and a name.  The root "w" holds every directory;  *)
(* any directory may be a root of its own nested in it.  Open buffers are  *)
(* the business of LintPipeline.                                           *)
(***************************************************************************)
EXTENDS Naturals, Sequences, FiniteSets, SequencesExt

CONSTANTS
  PathOrder,   \* every path once, in the order the server's maps iterate
  RootsAtStart,
  NewFolders,  \* folders the client may add to the workspace
  Excluded,    \* for each root, the paths its configuration excludes
  FileBatches, \* rename batches of files: sets of [old, new]
  DirRenames,  \* rename batches of one directory: [old, new]
  FilesAtStart,
  MaxChanges   \* changes the client makes to the disk or its folders

Path == Range(PathOrder)
Dirs == {p.d : p \in Path}
Root == {"w"} \union Dirs

ASSUME MembershipAssumption ==
  /\ PathOrder \in Seq(Path) /\ "w" \notin Dirs
  /\ RootsAtStart \subseteq Root /\ NewFolders \subseteq Root
  /\ Excluded \in [Root -> SUBSET Path]
  /\ FileBatches \subseteq SUBSET [old : Path, new : Path]
  /\ DirRenames \subseteq [old : Dirs, new : Dirs]
  /\ FilesAtStart \subseteq Path
  /\ MaxChanges \in Nat

VARIABLES
  disk,     \* the content of each path, 0 where there is no file
  events,   \* what the watcher saw and has not reported
  folders,  \* the roots as the client knows them
  told,     \* renames that landed and are not yet notified
  inbox,    \* the lint thread's channel
  members,  \* Workspace::members
  roots,    \* Workspace::roots
  texts,    \* SourceFile::text of each path, 0 where untracked
  gone,     \* paths a rename took away, not written since (only for properties)
  changes

vars == <<disk, events, folders, told, inbox, members, roots, texts, gone, changes>>

client == <<disk, events, folders, told, gone, changes>>
server == <<members, roots, texts>>

------------------------------------------------------------------------
(* Scope.                                                                  *)

Under(r, p) == r = "w" \/ r = p.d

\* scope_members_at: what the walk of one root finds.
Walk(r) == {p \in Path : Under(r, p) /\ disk[p] # 0 /\ p \notin Excluded[r]}

\* The deepest tracked root that holds p.
OwningRoot(rs, p) == IF p.d \in rs THEN p.d ELSE "w"

InScope(rs, p) == /\ \E r \in rs : Under(r, p)
                  /\ p \in Walk(OwningRoot(rs, p))

\* What seeding the roots afresh would find.
Seed(rs) == UNION {Walk(r) : r \in rs}

ReadFrom(ps, ts) == [p \in Path |-> IF p \in ps THEN disk[p] ELSE ts[p]]

------------------------------------------------------------------------
(* Renames.                                                                *)

\* What a batch does to one path on the disk, and what the disk is after.
Target(batch, p) == IF \E x \in batch : x.old = p
                    THEN (CHOOSE x \in batch : x.old = p).new ELSE p

Moved(batch) ==
  [p \in Path |->
     LET from == {q \in Path : disk[q] # 0 /\ Target(batch, q) = p}
         movers == {q \in from : q # p}
     IN  IF movers # {} THEN disk[CHOOSE q \in movers : TRUE]
         ELSE IF from # {} THEN disk[p] ELSE 0]

\* The pairs of a directory rename, one for each path below it.
Below(dir, ps) == {[old |-> p, new |-> [p EXCEPT !.d = dir.new]] :
                     p \in {q \in ps : q.d = dir.old}}

\* expand_dir_renames over the known paths, in map order.
Expand(msg, known) == IF msg.dir = {} THEN msg.files
                      ELSE UNION {Below(x, known) : x \in msg.dir}

\* (wrong) Roots stay where they were.
RebasePinned(rs, dirs) == rs

\* rebase_roots: a renamed root moves with its directory.
Rebase(rs, dirs) ==
  {IF \E x \in dirs : x.old = r THEN (CHOOSE x \in dirs : x.old = r).new ELSE r : r \in rs}

\* (wrong) The old path stays a member when the new one cannot be tracked.
SwapMemberIfFound(rs, st, pair) ==
  IF InScope(rs, pair.new)
  THEN [members |-> (st.members \ {pair.old}) \union {pair.new},
        texts   |-> ReadFrom({pair.new}, st.texts)]
  ELSE st

\* One pair of an expanded batch: the old path is dropped whatever became of
\* the new one, which is tracked when a seed would have found it.
SwapMember(rs, st, pair) ==
  LET found == InScope(rs, pair.new)
  IN  [members |-> (st.members \ {pair.old}) \union IF found THEN {pair.new} ELSE {},
       texts   |-> IF found THEN ReadFrom({pair.new}, st.texts) ELSE st.texts]

\* One turn of the loop, which takes the pairs in map order of their old paths.
SwapOld(rs, pairs, st, p) ==
  IF \E x \in pairs : x.old = p
  THEN SwapMember(rs, st, CHOOSE x \in pairs : x.old = p) ELSE st

ApplyFileRenames(msg) ==
  LET rs    == Rebase(roots, msg.dir)
      pairs == Expand(msg, members)
      after == FoldLeft(LAMBDA st, p : SwapOld(rs, pairs, st, p),
                        [members |-> members, texts |-> texts], PathOrder)
  IN  /\ members' = after.members
      /\ texts' = after.texts
      /\ roots' = rs

------------------------------------------------------------------------
(* The watcher's batches and the seeds.                                    *)

\* (wrong) A path that was tracked before is not read again.
ApplyRMembershipOnce(msg) ==
  LET added == {p \in msg.created : InScope(roots, p)}
      read  == {p \in msg.changed : disk[p] # 0} \union {p \in added : texts[p] = 0}
  IN  /\ members' = (members \ msg.deleted) \union added
      /\ texts' = ReadFrom(read, texts)
      /\ UNCHANGED roots

\* (wrong) A created path is added without looking at the disk again.
ApplyRMembershipUnread(msg) ==
  /\ members' = (members \ msg.deleted) \union msg.created
  /\ texts' = ReadFrom(msg.created, texts)
  /\ UNCHANGED roots

\* on_watched_files: changed files are read again, then deletions leave the
\* member set, then creations join it as far as a seed would find them.
ApplyRMembership(msg) ==
  LET added == {p \in msg.created : InScope(roots, p)}
      read  == {p \in msg.changed : disk[p] # 0} \union added
  IN  /\ members' = (members \ msg.deleted) \union added
      /\ texts' = ReadFrom(read, texts)
      /\ UNCHANGED roots

\* seed_workspace: the walks of the new roots join the members; the roots are
\* replaced by the new ones.
SeedWorkspace(msg) ==
  /\ members' = members \union Seed(msg.roots)
  /\ texts' = ReadFrom(Seed(msg.roots), texts)
  /\ roots' = msg.roots

Handle ==
  /\ inbox # <<>>
  /\ inbox' = Tail(inbox)
  /\ CASE Head(inbox).type = "rename" -> ApplyFileRenames(Head(inbox))
       [] Head(inbox).type = "watch"  -> ApplyRMembership(Head(inbox))
       [] Head(inbox).type = "seed"   -> SeedWorkspace(Head(inbox))
  /\ UNCHANGED client

------------------------------------------------------------------------
(* The client.                                                             *)

Change == changes < MaxChanges /\ changes' = changes + 1

Noticed(new, seen, p) ==
  IF disk[p] = new[p] THEN seen
  ELSE Append(seen, [path |-> p, kind |-> CASE disk[p] = 0 -> "created"
                                            [] new[p] = 0  -> "deleted"
                                            [] OTHER       -> "changed"])

\* A new disk, and the watcher's events of it: one for each path that differs.
SetDisk(new) ==
  /\ disk' = new
  /\ events' = FoldLeft(LAMBDA seen, p : Noticed(new, seen, p), events, PathOrder)

\* No two writes leave the same content.
Write(p) ==
  /\ Change
  /\ SetDisk([disk EXCEPT ![p] = changes + 2])
  /\ gone' = gone \ {p}
  /\ UNCHANGED <<folders, told, inbox, members, roots, texts>>

Delete(p) ==
  /\ Change
  /\ disk[p] # 0
  /\ SetDisk([disk EXCEPT ![p] = 0])
  /\ gone' = gone
  /\ UNCHANGED <<folders, told, inbox, members, roots, texts>>

Rename(batch) ==
  /\ SetDisk(Moved(batch))
  /\ gone' = {p \in gone \union {x.old : x \in batch} : Moved(batch)[p] = 0}

RenameFiles(batch) ==
  /\ Change
  /\ \A x \in batch : disk[x.old] # 0
  /\ Rename(batch)
  /\ told' = Append(told, [type |-> "rename", files |-> batch, dir |-> {}])
  /\ UNCHANGED <<folders, inbox, members, roots, texts>>

RenameDir(x) ==
  /\ Change
  /\ \E p \in Path : p.d = x.old /\ disk[p] # 0
  /\ \A p \in Path : p.d = x.new => disk[p] = 0
  /\ Rename(Below(x, Path))
  /\ folders' = {IF r = x.old THEN x.new ELSE r : r \in folders}
  /\ told' = Append(told, [type |-> "rename", files |-> {}, dir |-> {x}])
  /\ UNCHANGED <<inbox, members, roots, texts>>

NotifyRename ==
  /\ told # <<>>
  /\ inbox' = Append(inbox, Head(told))
  /\ told' = Tail(told)
  /\ UNCHANGED <<disk, events, folders, gone, changes, members, roots, texts>>

\* The watcher reports its first n events in one batch.
Report(n) ==
  /\ LET of(kind) == {events[i].path : i \in {j \in 1..n : events[j].kind = kind}}
     IN  inbox' = Append(inbox, [type |-> "watch", created |-> of("created"),
                                 deleted |-> of("deleted"), changed |-> of("changed")])
  /\ events' = SubSeq(events, n + 1, Len(events))
  /\ UNCHANGED <<disk, folders, told, gone, changes, members, roots, texts>>

AddFolder(r) ==
  /\ Change
  /\ r \notin folders
  /\ folders' = folders \union {r}
  /\ inbox' = Append(inbox, [type |-> "seed", roots |-> {r}])
  /\ UNCHANGED <<disk, events, told, gone, members, roots, texts>>

------------------------------------------------------------------------

Init ==
  /\ disk = [p \in Path |-> IF p \in FilesAtStart THEN 1 ELSE 0]
  /\ events = <<>>
  /\ folders = RootsAtStart
  /\ told = <<>> /\ inbox = <<>>
  /\ roots = RootsAtStart
  /\ members = Seed(RootsAtStart)
  /\ texts = ReadFrom(Seed(RootsAtStart), [p \in Path |-> 0])
  /\ gone = {} /\ changes = 0

Next ==
  \/ Handle
  \/ \E p \in Path : Write(p) \/ Delete(p)
  \/ \E b \in FileBatches : RenameFiles(b)
  \/ \E x \in DirRenames : RenameDir(x)
  \/ NotifyRename
  \/ \E n \in 1..Len(events) : Report(n)
  \/ \E r \in NewFolders : AddFolder(r)

Spec == Init /\ [][Next]_vars

------------------------------------------------------------------------
(* Properties.                                                             *)

Content == 0..MaxChanges + 1

TypeOK ==
  /\ disk \in [Path -> Content]
  /\ texts \in [Path -> Content]
  /\ folders \subseteq Root /\ roots \subseteq Root
  /\ members \subseteq Path /\ gone \subseteq Path
  /\ \A p \in members : texts[p] # 0

\* Nothing is under way between the disk and the server.
AtRest == told = <<>> /\ inbox = <<>> /\ events = <<>>

\* No member is left behind by a rename, a deletion or an exclusion: at rest
\* every member is a file a fresh seed would find.
NoStaleMembers == AtRest => members \subseteq Seed(folders)

\* A rename alone takes the old path out, with a client that watches nothing
\* as well: what it took away is no member once the rename is handled, whatever
\* the watcher has yet to report.
RenamedAwayIsDropped == told = <<>> /\ inbox = <<>> => members \intersect gone = {}

\* The text the server analyses of a member is the one on the disk.
MembersAreRead == AtRest => \A p \in members : texts[p] = disk[p]

\* No root of the server is left behind by a renamed directory.
RootsFollow == AtRest => roots \subseteq folders

\* "Incremental membership can't drift from a fresh seed" (file_rename.rs:42).
MembersAreTheSeed == AtRest => members = Seed(folders)
========================================================================
