----------------------------- MODULE Ownership -----------------------------
(***************************************************************************)
(* What the locks of the local database promise: one page at a time owns   *)
(* the stored workspace, only its owner changes it, and it is erased only  *)
(* when nobody owns it.                                                    *)
(***************************************************************************)
CONSTANTS
    Page,   \* page loads
    None

VARIABLES
    owner,   \* the page that has the database open, if any
    stored   \* the value of the force_offline setting in it

vars == <<owner, stored>>

Init == owner = None /\ stored \in BOOLEAN

Take(p) == owner = None /\ owner' = p /\ UNCHANGED stored
Leave   == owner # None /\ owner' = None /\ UNCHANGED stored
Write(v) == owner # None /\ stored' = v /\ UNCHANGED owner
Erase   == owner = None /\ stored' = FALSE /\ UNCHANGED owner

Next ==
    \/ \E p \in Page : Take(p)
    \/ Leave
    \/ \E v \in BOOLEAN : Write(v)
    \/ Erase

Spec == Init /\ [][Next]_vars
=============================================================================
