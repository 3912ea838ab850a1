--------------------------- MODULE MCConversation ---------------------------
(* Instances of Conversation for TLC: a chat in mode private and one in    *)
(* mode assisted, each with one exchange; the private answer may already   *)
(* have two versions.                                                      *)
EXTENDS Conversation

CONSTANTS local, cloud

Said(c, mode, g, state) ==
    [chat |-> c, mode |-> mode, group |-> g, state |-> state, by |-> 0]

Exchanges == <<Said(local, "question", 0, "active"), Said(local, "private", 0, "active"),
               Said(cloud, "question", 0, "active"), Said(cloud, "assisted", 0, "active")>>

TwoVersions == <<Said(local, "question", 0, "active"), Said(local, "private", 2, "inactive"),
                 Said(local, "private", 2, "active"),
                 Said(cloud, "question", 0, "active"), Said(cloud, "assisted", 0, "active")>>
=============================================================================
