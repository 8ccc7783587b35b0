------------------------------- MODULE DiskCaches ------------------------------
(***************************************************************************)
(* The caches that outlive a request, beside the package index: the        *)
(* downloaded export lists, the formatter's fixed points and the server's  *)
(* settings.  They share no state; what each promises is stated here under *)
(* one name, for the runs and for the proofs.                              *)
(***************************************************************************)
CONSTANTS
  Fetchers, TTL, MaxEdition, MaxClock, MaxFetchFaults,
  Checkers, Versions, Styles, Contents, Paths, Descriptions, Verdict, MaxEdits, MaxRuns,
  Depth, Base, Env, MaxWrites

VARIABLES
  edition, replacedAt, clock, manifest, etag, fetchedAt, proc, crossed, lost, faults,
  stored, texts, markdown, run, edits, started,
  fs, repo, editor, cached, pending, writes

Sidecar == INSTANCE RemoteSidecar WITH Procs <- Fetchers, MaxFaults <- MaxFetchFaults

Format == INSTANCE FormatCache WITH files <- texts

Config == INSTANCE ConfigCache

\* RemoteSidecar: a 304 confirms the very manifest on disk, so that what a
\* process works with was current within the time to live.
StalenessIsBounded == Sidecar!StalenessIsBounded

\* FormatCache: a file is counted as formatted only where formatting it from
\* scratch, in this version, style, grammar and markdown default, agrees.
CleanMeansFormatted == Format!CleanMeansFormatted

\* ConfigCache: cached settings served as fresh are those a resolution made now
\* would give.
FreshMeansSame == Config!FreshMeansSame
================================================================================
