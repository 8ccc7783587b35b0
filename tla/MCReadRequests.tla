--------------------------- MODULE MCReadRequests ---------------------------
(* TLC instance of ReadRequests. *)
EXTENDS ReadRequests, TLC
CONSTANTS doc1, desc1, i1, i2, t1, t2
MCRDocs == {doc1}
MCOther == {desc1}
MCIds == {i1, i2}
MCTexts == {t1, t2}
NoDocs == {}
MCKinds == AllKinds
SnapshotKinds == {"outline", "rename", "symbols", "prepare", "presentation"}
=============================================================================
