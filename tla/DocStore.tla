------------------------------ MODULE DocStore ------------------------------
(***************************************************************************)
(* The document half of the local database (the SQLite file behind         *)
(* local-db/worker.ts) and the OPFS folder that keeps each original file   *)
(* under its content hash.  One operator per worker function; the worker   *)
(* runs them one at a time, each inside one transaction, so each is one    *)
(* indivisible effect on rows and chunks.                                  *)
(*                                                                         *)
(* A file is its content: contents are told apart by their hash only.  A   *)
(* document's chunks are kept as the sequence of batches that insertChunks *)
(* wrote, each naming the content it was cut from and whether it covers    *)
(* every page (full) or only the pages with native text.                   *)
(***************************************************************************)
EXTENDS Naturals, Sequences

CONSTANTS
    Docs,       \* document ids (crypto.randomUUID values)
    Contents    \* file contents, identified with their SHA-256

VARIABLES
    rows,       \* table documents
    chunks,     \* table chunks with its FTS, fuzzy and vector views
    originals   \* OPFS directory "documents", by content hash

store == <<rows, chunks, originals>>

NoRow    == {"unborn", "removed"}       \* id never used / row deleted
InFlight == {"received", "parsing", "chunking", "embedding", "scanned", "ocr"}
Statuses == NoRow \cup InFlight \cup {"ready", "error"}
Errors   == {"none", "original_missing", "unusable"}
Bytes    == {"absent", "empty", "whole"} \* an OPFS entry; see StoreOriginal in Library

Row   == [hash : Contents, status : Statuses, error : Errors, current : BOOLEAN]
\* What a call of insertChunks writes: the file it was cut from, and whether it
\* covers every page.
Batch == [of : Contents, full : BOOLEAN]

StoreTypeOK ==
    /\ rows \in [Docs -> Row]
    /\ chunks \in [Docs -> Seq(Batch)]
    /\ originals \in [Contents -> Bytes]

Exists(d) == rows[d].status \notin NoRow
HasHash(d, h) == Exists(d) /\ rows[d].hash = h

(***************************************************************************)
(* Worker functions that write.                                            *)
(***************************************************************************)

\* UPDATE ... WHERE id = ?: no row, no effect; error is cleared unless given.
SetStatus(d, status, error) ==
    /\ rows' = IF Exists(d) THEN [rows EXCEPT ![d].status = status, ![d].error = error]
                            ELSE rows
    /\ UNCHANGED chunks

\* hash is UNIQUE; a new row has the column default for its retrieval version.
InsertDocument(d, h) ==
    /\ ~ \E e \in Docs : HasHash(e, h)
    /\ rows[d].status = "unborn"
    /\ rows' = [rows EXCEPT ![d] = [hash |-> h, status |-> "received",
                                    error |-> "none", current |-> FALSE]]
    /\ UNCHANGED chunks

DeleteChunks(d) ==
    /\ chunks' = [chunks EXCEPT ![d] = <<>>]
    /\ UNCHANGED rows

\* Mutant of InsertChunks: no foreign key on document_id.
InsertChunksUnchecked(d, batch) ==
    /\ chunks' = [chunks EXCEPT ![d] = Append(@, batch)]
    /\ rows' = [rows EXCEPT ![d].current = Exists(d)]

\* Appends: whatever the document already had stays.  The foreign key on
\* document_id makes the call throw when the row is gone.
InsertChunks(d, batch) ==
    /\ Exists(d)
    /\ chunks' = [chunks EXCEPT ![d] = Append(@, batch)]
    /\ rows' = [rows EXCEPT ![d].current = TRUE]

\* Old views out and new views in, in one transaction (same foreign key).
ReindexDocument(d, batch) ==
    /\ Exists(d)
    /\ chunks' = [chunks EXCEPT ![d] = <<batch>>]
    /\ rows' = [rows EXCEPT ![d].status = "ready", ![d].error = "none", ![d].current = TRUE]

ReplaceDocument(d, h, batch) ==
    /\ Exists(d)
    /\ ~ \E e \in Docs \ {d} : HasHash(e, h)
    /\ chunks' = [chunks EXCEPT ![d] = <<batch>>]
    /\ rows' = [rows EXCEPT ![d] = [hash |-> h, status |-> "ready",
                                    error |-> "none", current |-> TRUE]]

\* The hash is kept in the tombstone only so that properties can name it.
DeleteDocument(d) ==
    /\ rows' = [rows EXCEPT ![d].status = "removed"]
    /\ chunks' = [chunks EXCEPT ![d] = <<>>]
=============================================================================
