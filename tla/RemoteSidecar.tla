----------------------------- MODULE RemoteSidecar -----------------------------
(***************************************************************************)
(* The downloadable export lists of CRAN packages (rindex/remote.rs): a    *)
(* manifest kept on disk with the validator the publisher gave for it      *)
(* (ETag) and the time it was last known to be current.  A process reads   *)
(* the manifest once: from disk within its time to live, else by a         *)
(* conditional request.  Processes share the disk without a lock and may   *)
(* die between two writes; a write may fail, which is ignored.             *)
(*                                                                         *)
(* A manifest is the number of its edition; its ETag is the same number.   *)
(***************************************************************************)
EXTENDS Naturals

CONSTANTS
  Procs,        \* processes, each opening the sidecar once at a time
  TTL,          \* MANIFEST_TTL_SECS
  MaxEdition, MaxClock, MaxFaults

VARIABLES
  edition,    \* the edition the publisher serves
  replacedAt, \* when each earlier edition was replaced
  clock,
  manifest,   \* manifest.json: an edition, 0 when missing
  etag,       \* manifest.meta.json: the validator, 0 when missing or absent
  fetchedAt,  \* and the time
  proc,       \* what each process is doing
  crossed,    \* two processes were fetching at a time (for properties)
  lost,       \* a write failed (for properties)
  faults

disk == <<manifest, etag, fetchedAt>>
world == <<edition, replacedAt, clock>>
vars == <<world, disk, proc, crossed, lost, faults>>

Closed == [phase |-> "closed", now |-> 0, memo |-> 0, got |-> 0, ok |-> TRUE]

Init ==
  /\ edition = 1 /\ replacedAt = [e \in 1..MaxEdition |-> MaxClock + 1] /\ clock = 0
  /\ manifest = 0 /\ etag = 0 /\ fetchedAt = 0
  /\ proc = [q \in Procs |-> Closed]
  /\ crossed = FALSE /\ lost = FALSE /\ faults = 0

\* Sidecar::new takes the time once.
Open(q) ==
  /\ proc[q].phase = "closed"
  /\ proc' = [proc EXCEPT ![q] = [Closed EXCEPT !.phase = "open", !.now = clock]]
  /\ UNCHANGED <<world, disk, crossed, lost, faults>>

\* Within its time to live; the clock of a process never runs behind the one
\* that wrote the time.  No metadata file reads as edition 0.
Fresh(q) == manifest # 0 /\ etag # 0 /\ proc[q].now < fetchedAt + TTL

Busy(q) == proc[q].phase \in {"asking", "write manifest", "write meta"}
Writing(q) == Busy(q) /\ proc[q].phase # "asking"

UseDisk(q) ==
  /\ proc[q].phase = "open" /\ Fresh(q)
  /\ proc' = [proc EXCEPT ![q].phase = "ready", ![q].memo = manifest]
  /\ UNCHANGED <<world, disk, crossed, lost, faults>>

\* (wrong) The validator is sent although the manifest is gone.
IfNoneMatchAlways == etag

\* If-None-Match: the validator, as long as there is a manifest it is of.
IfNoneMatch == IF manifest # 0 THEN etag ELSE 0

\* Both files are read, and the request goes out.
Request(q) ==
  /\ proc[q].phase = "open" /\ ~Fresh(q)
  /\ crossed' = (crossed \/ \E o \in Procs \ {q} : Busy(o))
  /\ proc' = [proc EXCEPT ![q].phase = "asking", ![q].memo = manifest,
                          ![q].got = IfNoneMatch]
  /\ UNCHANGED <<world, disk, lost, faults>>

\* 304: the disk copy is kept; 200: a new edition is to be written.
Fetch(q) ==
  /\ proc[q].phase = "asking"
  /\ proc' = [proc EXCEPT ![q] =
       IF @.got = edition THEN [@ EXCEPT !.phase = "write meta"]
       ELSE [@ EXCEPT !.phase = "write manifest", !.memo = edition, !.got = edition]]
  /\ UNCHANGED <<world, disk, crossed, lost, faults>>

\* The network is down, or the body does not parse: the disk copy, however old.
FetchFails(q) ==
  /\ proc[q].phase = "asking" /\ faults < MaxFaults
  /\ faults' = faults + 1
  /\ proc' = [proc EXCEPT ![q].phase = "ready", ![q].ok = FALSE]
  /\ UNCHANGED <<world, disk, crossed, lost>>

WriteManifest(q) ==
  /\ proc[q].phase = "write manifest"
  /\ manifest' = proc[q].got
  /\ proc' = [proc EXCEPT ![q].phase = "write meta"]
  /\ UNCHANGED <<world, etag, fetchedAt, crossed, lost, faults>>

WriteMeta(q) ==
  /\ proc[q].phase = "write meta"
  /\ etag' = proc[q].got /\ fetchedAt' = proc[q].now
  /\ proc' = [proc EXCEPT ![q].phase = "ready"]
  /\ UNCHANGED <<world, manifest, crossed, lost, faults>>

\* A write that fails is ignored, and the next one made all the same.
WriteFails(q) ==
  /\ Writing(q) /\ faults < MaxFaults
  /\ faults' = faults + 1
  /\ lost' = TRUE
  /\ proc' = [proc EXCEPT ![q].phase =
       IF @ = "write manifest" THEN "write meta" ELSE "ready"]
  /\ UNCHANGED <<world, disk, crossed>>

Close(q) ==
  /\ proc[q].phase = "ready"
  /\ proc' = [proc EXCEPT ![q] = Closed]
  /\ UNCHANGED <<world, disk, crossed, lost, faults>>

Crash(q) ==
  /\ Writing(q) /\ faults < MaxFaults
  /\ faults' = faults + 1
  /\ proc' = [proc EXCEPT ![q] = Closed]
  /\ UNCHANGED <<world, disk, crossed, lost>>

\* Somebody removes manifest.json.
Remove ==
  /\ manifest # 0 /\ faults < MaxFaults
  /\ faults' = faults + 1
  /\ manifest' = 0
  /\ UNCHANGED <<world, etag, fetchedAt, proc, crossed, lost>>

Publish ==
  /\ edition < MaxEdition
  /\ edition' = edition + 1
  /\ replacedAt' = [replacedAt EXCEPT ![edition] = clock]
  /\ UNCHANGED <<clock, disk, proc, crossed, lost, faults>>

Tick ==
  /\ clock < MaxClock
  /\ clock' = clock + 1
  /\ UNCHANGED <<edition, replacedAt, disk, proc, crossed, lost, faults>>

Next ==
  \/ \E q \in Procs : \/ Open(q) \/ UseDisk(q) \/ Request(q) \/ Fetch(q) \/ FetchFails(q)
                      \/ WriteManifest(q) \/ WriteMeta(q) \/ WriteFails(q)
                      \/ Close(q) \/ Crash(q)
  \/ Remove \/ Publish \/ Tick

Spec == Init /\ [][Next]_vars

--------------------------------------------------------------------------------
\* A process works with an edition that was current within the time to live
\* before it opened the sidecar, unless its request failed: a 304 confirms the
\* very manifest on disk, a crash between its two files included.
StalenessIsBounded ==
  crossed \/ lost \/ \A q \in Procs :
    proc[q].phase = "ready" /\ proc[q].ok =>
      proc[q].memo # 0 /\ replacedAt[proc[q].memo] + TTL > proc[q].now

\* "Only send `If-None-Match` when we still hold the disk copy that a `304`
\* would validate" (remote.rs): the validator on disk is the manifest's own, or
\* that of an earlier one.
ValidatorIsOfTheManifest == manifest # 0 => etag <= manifest
================================================================================
