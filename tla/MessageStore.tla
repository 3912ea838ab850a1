---------------------------- MODULE MessageStore ----------------------------
(***************************************************************************)
(* The chat half of the local database: chats, messages with their answer  *)
(* versions, the full-text index of message contents and the journal of    *)
(* what left the device (local-db/worker.ts).  One operator per worker     *)
(* function; each runs alone, in one transaction.                          *)
(*                                                                         *)
(* Messages are numbered in insertion order, which is the order the worker *)
(* lists them in.  The index is an external-content FTS5 table: it does    *)
(* not know which rows it holds, so a 'delete' command for a row that is   *)
(* not in it is not refused but subtracted.  indexed[m] counts the net     *)
(* number of times m was added.                                            *)
(***************************************************************************)
EXTENDS Integers, Sequences

CONSTANT Chats

VARIABLES
    chats,      \* table chats: the ids that exist
    messages,   \* table messages, in insertion order; deleted rows stay as "gone"
    indexed,    \* messages_fts: net additions of each message
    journal     \* table privacy_events: messages whose bytes are on record

messageStore == <<chats, messages, indexed, journal>>

\* Column mode; NULL, the user's own messages, is "question".
Modes  == {"question", "private", "assisted", "notice", "retrieval"}
States == {"active", "inactive", "gone"}
Row    == [chat : Chats, mode : Modes, group : Nat, state : States, by : Nat]

MessageStoreTypeOK ==
    /\ chats \subseteq Chats
    /\ messages \in Seq(Row)
    /\ DOMAIN indexed = DOMAIN messages
    /\ \A m \in DOMAIN indexed : indexed[m] \in Int
    /\ journal \subseteq DOMAIN messages

Ids       == DOMAIN messages
NextId    == Len(messages) + 1
Live(m)   == messages[m].state # "gone"
Active(m) == messages[m].state = "active"

\* SELECT * FROM messages WHERE chat_id = ? AND active = 1
ListMessages(c) == {m \in Ids : messages[m].chat = c /\ Active(m)}

\* The version group a message belongs to or would found: versionGroup ?? id.
GroupOf(m) == IF messages[m].group = 0 THEN m ELSE messages[m].group
Versions(g) == {m \in Ids : Live(m) /\ messages[m].group = g}

-----------------------------------------------------------------------------
SetState(ms, state) == [m \in Ids |-> IF m \in ms THEN [messages[m] EXCEPT !.state = state]
                                                   ELSE messages[m]]
\* An FTS 'delete' for each row of ms, then an insert for each row of added.
Reindexed(ms, added) ==
    [m \in Ids |-> indexed[m] - (IF m \in ms THEN 1 ELSE 0) + (IF m \in added THEN 1 ELSE 0)]

\* messages.chat_id references chats(id) and foreign keys are on.
CanInsert(c) == c \in chats

InsertMessage(c, mode, g, by) ==
    /\ CanInsert(c)
    /\ messages' = Append(messages,
           [chat |-> c, mode |-> mode, group |-> g, state |-> "active", by |-> by])
    /\ indexed' = Append(indexed, 1)
    /\ UNCHANGED <<chats, journal>>

DeleteMessage(m) ==
    /\ messages' = SetState({m}, "gone")
    /\ indexed' = Reindexed({m} \cap {n \in Ids : Live(n)}, {})
    /\ UNCHANGED <<chats, journal>>

RetireMessage(m, g) ==
    /\ messages' = IF Live(m) THEN [messages EXCEPT ![m].state = "inactive", ![m].group = g]
                              ELSE messages
    /\ indexed' = Reindexed({m} \cap {n \in Ids : Live(n)}, {})
    /\ UNCHANGED <<chats, journal>>

ActivateMessageVersion(g, m) ==
    /\ messages' = [n \in Ids |->
           IF n = m /\ Live(n) THEN [messages[n] EXCEPT !.state = "active"]
           ELSE IF n \in Versions(g) THEN [messages[n] EXCEPT !.state = "inactive"]
           ELSE messages[n]]
    /\ indexed' = Reindexed({n \in Versions(g) : Active(n)}, {m} \cap {n \in Ids : Live(n)})
    /\ UNCHANGED <<chats, journal>>

\* Messages go with their chat (ON DELETE CASCADE); journal rows stay.
DeleteChat(c) ==
    LET all == {m \in Ids : messages[m].chat = c /\ Live(m)}
    IN  /\ messages' = SetState(all, "gone")
        /\ indexed' = Reindexed(all, {})
        /\ chats' = chats \ {c}
        /\ UNCHANGED journal

InsertPrivacyEvent(m) ==
    /\ journal' = journal \cup {m}
    /\ UNCHANGED <<chats, messages, indexed>>
=============================================================================
