----------------------------- MODULE MCLibrary -----------------------------
(* Instances of Library for TLC. *)
EXTENDS Library, TLC

CONSTANTS d1, d2, d3, text, mixed, scan, s1, s2, s3, r1, r2

\* Files: plain text, a PDF with text and image pages, a PDF of images only.
MCNative == {text, mixed} \cap Contents
MCImaged == {mixed, scan} \cap Contents

NoOldDocs == <<>>
OldText   == d1 :> text
OldScan   == d1 :> mixed
OldPair   == d1 :> mixed @@ d2 :> text
FourFiles == {<<text, mixed, scan, text>>}

AnyPhase    == Phases
OnceUp      == {"up"}

Singles       == {<<h>> : h \in Contents}
SlotSymmetry  == Permutations(Slots)
NewFiles      == {<<text>>, <<scan>>, <<text, "folder">>}

-----------------------------------------------------------------------------
(***************************************************************************)
(* ingestMany stages every file before it processes any: one it cannot     *)
(* read makes it reject, and the rows staged before that file are handed   *)
(* to nobody until the next start, or until their file is dropped again.   *)
(* leftBehind observes them; no action of Library looks at it.             *)
(***************************************************************************)
VARIABLE leftBehind

Staged(r)  == {request[r].jobs[i].doc : i \in DOMAIN request[r].jobs}
Rejects(r) == request[r].pc \in {"stage", "found"} /\ request'[r] = NoRequest /\ ~ProcessMany(r)
Dropped    == UNION {Staged(r) : r \in {q \in Requests : Rejects(q)}}

Observe == leftBehind' = IF reloads' # reloads THEN {}
                         ELSE (leftBehind \cup Dropped) \ UNION {Staged(r)' : r \in Requests}

ObservedInit == Init /\ leftBehind = {}
ObservedNext == Next /\ Observe
ObservedSpec == ObservedInit /\ [][ObservedNext]_<<vars, leftBehind>> /\ Fairness

(* Whatever is in progress, before or after a crash, ends ready, failed or *)
(* removed, whatever is dropped, rebuilt, deleted, refused or reloaded     *)
(* meanwhile; the rows a rejected selection left behind wait for the next  *)
(* start, and end then.                                                    *)
IngestSettles ==
    \A d \in Docs : (rows[d].status \in InFlight /\ d \notin leftBehind)
                       ~> (rows[d].status \notin InFlight \/ d \in leftBehind)
=============================================================================
