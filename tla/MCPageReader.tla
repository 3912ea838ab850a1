--------------------------- MODULE MCPageReader ---------------------------
(* A scan of two pages and a mixed file of three, read in one session. *)
EXTENDS PageReader, TLC

CONSTANTS scan, mixed

MCFiles     == {scan, mixed}
MCPages     == (scan :> 2) @@ (mixed :> 3)
MCUncertain == (scan :> {}) @@ (mixed :> {1, 2})
MCScanned   == (scan :> {1, 2}) @@ (mixed :> {3})
=============================================================================
