-------------------------- MODULE Conversation_proofs --------------------------
(***************************************************************************)
(* What holds of Conversation for any number of chats, methods and clicks: *)
(* its types, that the composer never sticks, that a request is written    *)
(* and posted once, and that what left for the cloud is journalled.        *)
(***************************************************************************)
EXTENDS Conversation, SequenceTheorems, TLAPS

-----------------------------------------------------------------------------
(***************************************************************************)
(* The database: each worker call keeps its tables well formed, and no     *)
(* message id is ever lost.                                                *)
(***************************************************************************)
StoreInv ==
    /\ chats \subseteq Chats
    /\ messages \in Seq(Row)
    /\ indexed \in Seq(Int) /\ Len(indexed) = Len(messages)
    /\ journal \subseteq Ids

Kept == StoreInv' /\ Ids \subseteq Ids'

\* A table rewritten row by row is a table of the same length.
LEMMA Rewritten ==
    ASSUME StoreInv,
           messages' \in [Ids -> Row], indexed' \in [Ids -> Int],
           chats' \subseteq chats, journal' \subseteq Ids
    PROVE  Kept
<1>1. Ids = 1..Len(messages) /\ Len(messages) \in Nat
    BY DEF StoreInv, Ids
<1>2. messages' \in Seq(Row) /\ indexed' \in Seq(Int)
    BY <1>1, SeqDef
<1>3. Len(messages') = Len(messages) /\ Len(indexed') = Len(messages)
    BY <1>1, <1>2
<1> QED
    BY <1>1, <1>2, <1>3 DEF Kept, StoreInv, Ids

LEMMA RowTypes ==
    ASSUME StoreInv, NEW m \in Ids
    PROVE  messages[m] \in Row /\ indexed[m] \in Int /\ m \in Nat /\ GroupOf(m) \in Nat
<1>1. messages[m] \in Row /\ indexed[m] \in Int /\ m \in Nat
    BY DEF StoreInv, Ids
<1> QED
    BY <1>1 DEF GroupOf, Row

LEMMA StateTypes ==
    ASSUME StoreInv, NEW ms, NEW st \in States
    PROVE  SetState(ms, st) \in [Ids -> Row]
<1> SUFFICES ASSUME NEW m \in Ids PROVE [messages[m] EXCEPT !.state = st] \in Row /\ messages[m] \in Row
    BY DEF SetState
<1> QED
    BY RowTypes DEF Row

LEMMA IndexTypes ==
    ASSUME StoreInv, NEW ms, NEW added
    PROVE  Reindexed(ms, added) \in [Ids -> Int]
BY RowTypes DEF Reindexed

LEMMA InsertMessageTypes ==
    ASSUME StoreInv, NEW c \in Chats, NEW mode \in Modes, NEW g \in Nat, NEW by \in Nat,
           InsertMessage(c, mode, g, by)
    PROVE  Kept /\ NextId \in Ids'
<1> DEFINE row == [chat |-> c, mode |-> mode, group |-> g, state |-> "active", by |-> by]
<1>1. row \in Row
    BY DEF Row, States
<1>2. messages' = Append(messages, row) /\ indexed' = Append(indexed, 1)
    BY DEF InsertMessage
<1> HIDE DEF row
<1>3. messages' \in Seq(Row) /\ Len(messages') = Len(messages) + 1
    BY <1>1, <1>2, AppendProperties DEF StoreInv
<1>4. indexed' \in Seq(Int) /\ Len(indexed') = Len(indexed) + 1
    BY <1>2, AppendProperties DEF StoreInv
<1>5. Ids \subseteq Ids' /\ NextId \in Ids'
    BY <1>3 DEF Ids, NextId, StoreInv
<1> QED
    BY <1>3, <1>4, <1>5 DEF Kept, StoreInv, InsertMessage

LEMMA DeleteMessageTypes ==
    ASSUME StoreInv, NEW m, DeleteMessage(m)
    PROVE  Kept
<1>1. messages' \in [Ids -> Row] /\ indexed' \in [Ids -> Int]
    BY StateTypes, IndexTypes DEF DeleteMessage, States
<1> QED
    BY <1>1, Rewritten DEF DeleteMessage, StoreInv

LEMMA RetireMessageTypes ==
    ASSUME StoreInv, NEW m \in Ids, NEW g \in Nat, RetireMessage(m, g)
    PROVE  Kept
<1>1. messages \in [Ids -> Row]
    BY RowTypes DEF StoreInv, Ids
<1>2. messages' \in [Ids -> Row]
    BY <1>1 DEF RetireMessage, Row, States
<1>3. indexed' \in [Ids -> Int]
    BY IndexTypes DEF RetireMessage
<1> QED
    BY <1>2, <1>3, Rewritten DEF RetireMessage, StoreInv

LEMMA ActivateTypes ==
    ASSUME StoreInv, NEW m, NEW g, ActivateMessageVersion(g, m)
    PROVE  Kept
<1>1. ASSUME NEW n \in Ids, NEW st \in States PROVE [messages[n] EXCEPT !.state = st] \in Row
    BY RowTypes DEF Row
<1>2. messages' \in [Ids -> Row]
    BY <1>1, RowTypes DEF ActivateMessageVersion, States
<1>3. indexed' \in [Ids -> Int]
    BY IndexTypes DEF ActivateMessageVersion
<1> QED
    BY <1>2, <1>3, Rewritten DEF ActivateMessageVersion, StoreInv

LEMMA DeleteChatTypes ==
    ASSUME StoreInv, NEW c, DeleteChat(c)
    PROVE  Kept
<1>1. messages' \in [Ids -> Row] /\ indexed' \in [Ids -> Int]
    BY StateTypes, IndexTypes DEF DeleteChat, States
<1> QED
    BY <1>1, Rewritten DEF DeleteChat, StoreInv

LEMMA InsertPrivacyEventTypes ==
    ASSUME StoreInv, NEW m \in Ids, InsertPrivacyEvent(m)
    PROVE  Kept
BY DEF StoreInv, Kept, InsertPrivacyEvent, Ids

LEMMA UnchangedStore ==
    ASSUME StoreInv, UNCHANGED messageStore
    PROVE  Kept
BY DEF StoreInv, Kept, messageStore, Ids
-----------------------------------------------------------------------------
(***************************************************************************)
(* The page.  A running method names rows that exist; an answer it has     *)
(* just written is one of them.                                            *)
(***************************************************************************)
MethodOf(ids) ==
    [pc : PCs, op : Ops, chat : Chats, group : Nat, by : Nat, answer : Nat,
     seen : SUBSET ids, todo : SUBSET ids, selected : BOOLEAN, reviewed : BOOLEAN]
MethodOK(r, ids) == r \in MethodOf(ids) /\ (r.pc = "written" => r.answer \in ids)
SlotOK(r, ids)   == r = Idle \/ MethodOK(r, ids)

SlotsOK  == /\ slot = [s \in Slots |-> slot[s]]
            /\ \A s \in Slots : SlotOK(slot[s], Ids)
ScreenOK == activeChat \in Chats \cup {None} /\ docsOf \in Chats \cup {None} /\ shown \subseteq Ids
FlagsOK  == /\ sending \in BOOLEAN /\ generatingRelated \in BOOLEAN
            /\ relatedTimer \in Chats \cup {None}
            /\ pendingAssisted \in [chat : Chats, by : Nat] \cup {None}
QueueOK  == queue \in Seq(Slots)
EgressOK == egress \in Seq(Post)
CallsOK  == calls \in 0..MaxCalls

PageInv == ScreenOK /\ FlagsOK /\ QueueOK /\ EgressOK /\ CallsOK
TypeInv == StoreInv /\ SlotsOK /\ PageInv

LEMMA SlotsTyped == SlotsOK => slot \in [Slots -> Method \cup {Idle}]
<1> SUFFICES ASSUME SlotsOK PROVE slot \in [Slots -> Method \cup {Idle}]
    OBVIOUS
<1>1. \A s \in Slots : slot[s] \in Method \cup {Idle}
    BY DEF SlotsOK, SlotOK, MethodOK, MethodOf, Method
<1> QED
    BY <1>1 DEF SlotsOK

LEMMA TypeInvImpliesTypeOK == TypeInv => TypeOK
BY SlotsTyped DEF TypeInv, PageInv, TypeOK, StoreInv, MessageStoreTypeOK, Ids, ScreenOK, FlagsOK,
       QueueOK, EgressOK, CallsOK

\* A method at an await is a method.
LEMMA Running ==
    ASSUME SlotsOK, NEW s \in Slots, slot[s].pc \in PCs
    PROVE  MethodOK(slot[s], Ids)
BY DEF SlotsOK, SlotOK, Idle, PCs, TurnPCs

\* Ids only grow, so what names rows keeps naming rows.
LEMMA MethodsKeep ==
    ASSUME NEW ids, NEW more, ids \subseteq more, NEW r, MethodOK(r, ids)
    PROVE  MethodOK(r, more)
<1>1. r \in MethodOf(more)
    BY DEF MethodOK, MethodOf
<1> QED
    BY <1>1 DEF MethodOK

LEMMA PutTypes ==
    ASSUME SlotsOK, Ids \subseteq Ids', NEW s \in Slots, NEW r, Put(s, r), SlotOK(r, Ids')
    PROVE  SlotsOK'
<1>1. \A t \in Slots : SlotOK(slot[t], Ids')
    BY MethodsKeep DEF SlotsOK, SlotOK
<1> QED
    BY <1>1 DEF Put, SlotsOK

LEMMA GotoTypes ==
    ASSUME SlotsOK, Ids \subseteq Ids', NEW s \in Slots, slot[s].pc \in PCs,
           NEW pc \in PCs, pc # "written", Goto(s, pc)
    PROVE  SlotsOK'
<1> DEFINE r == [slot[s] EXCEPT !.pc = pc]
<1>1. MethodOK(slot[s], Ids')
    BY Running, MethodsKeep
<1>2. MethodOK(r, Ids')
    BY <1>1 DEF MethodOK, MethodOf
<1>3. Put(s, r)
    BY DEF Goto, Put
<1> QED
    BY <1>2, <1>3, PutTypes DEF SlotOK

LEMMA ReturnTypes ==
    ASSUME SlotsOK, Ids \subseteq Ids', NEW s \in Slots, Return(s)
    PROVE  SlotsOK'
BY PutTypes DEF Return, Put, SlotOK

LEMMA StayTypes ==
    ASSUME SlotsOK, Ids \subseteq Ids', UNCHANGED slot
    PROVE  SlotsOK'
BY MethodsKeep DEF SlotsOK, SlotOK

LEMMA QueueTypes ==
    ASSUME QueueOK, NEW s \in Slots, Ask(s) \/ Resume(s) \/ UNCHANGED queue
    PROVE  QueueOK'
<1>1. Rest(s) \in Seq(Slots)
    BY HeadTailProperties DEF QueueOK, Rest
<1>2. CASE Ask(s)
    BY <1>1, <1>2, AppendProperties DEF QueueOK, Ask
<1>3. CASE Resume(s) \/ UNCHANGED queue
    BY <1>1, <1>3 DEF QueueOK, Resume
<1> QED
    BY <1>2, <1>3

LEMMA PutMethod ==
    ASSUME SlotsOK, Ids \subseteq Ids', NEW s \in Slots, NEW r \in MethodOf(Ids),
           r.pc # "written", Put(s, r)
    PROVE  SlotsOK'
BY PutTypes, MethodsKeep DEF SlotOK, MethodOK

\* A method ready to make a call: one a click begins, or one at an await.
Ready(r) ==
    r \in [pc : PCs \cup {"idle"}, op : Ops, chat : Chats, group : Nat, by : Nat, answer : Nat,
           seen : SUBSET Ids, todo : SUBSET Ids, selected : BOOLEAN, reviewed : BOOLEAN]

LEMMA BeginReady ==
    ASSUME CallsOK, NEW op \in Ops, NEW c \in Chats
    PROVE  Ready(Begin(op, c))
<1>1. calls + 1 \in Nat
    BY ConversationAssumption DEF CallsOK
<1> QED
    BY <1>1 DEF Begin, Idle, Ready

LEMMA RunningReady ==
    ASSUME SlotsOK, NEW s \in Slots, slot[s].pc \in PCs
    PROVE  Ready(slot[s])
BY Running DEF MethodOK, MethodOf, Ready

LEMMA ListTypes ==
    ASSUME SlotsOK, QueueOK, Ids \subseteq Ids', NEW s \in Slots, NEW pc \in PCs, pc # "written",
           NEW r, Ready(r), List(s, r, pc)
    PROVE  SlotsOK' /\ QueueOK'
<1> DEFINE q == [r EXCEPT !.pc = pc, !.seen = ListMessages(r.chat)]
<1>1. q \in MethodOf(Ids) /\ q.pc = pc
    BY DEF ListMessages, MethodOf, Ready
<1>2. Put(s, q) /\ Ask(s)
    BY DEF List
<1> HIDE DEF q
<1> QED
    BY <1>1, <1>2, PutMethod, QueueTypes

\* A list put on the screen holds rows that exist.
LEMMA ShowTypes ==
    ASSUME ScreenOK, SlotsOK, Ids \subseteq Ids', NEW s \in Slots, slot[s].pc \in PCs, Show(s)
    PROVE  ScreenOK'
BY Running DEF Show, ScreenOK, MethodOK, MethodOf

LEMMA ScreenStays ==
    ASSUME ScreenOK, Ids \subseteq Ids', UNCHANGED screen
    PROVE  ScreenOK'
BY DEF ScreenOK, screen

LEMMA FlagsStay ==
    ASSUME FlagsOK, UNCHANGED related, UNCHANGED review, sending' \in BOOLEAN
    PROVE  FlagsOK'
BY DEF FlagsOK, related, review

LEMMA EgressStays == ASSUME EgressOK, UNCHANGED egress PROVE EgressOK'
BY DEF EgressOK

LEMMA CallsStay == ASSUME CallsOK, UNCHANGED calls PROVE CallsOK'
BY DEF CallsOK

LEMMA ClickTypes ==
    ASSUME CallsOK, NEW s, NEW op, Click(s, op)
    PROVE  CallsOK'
BY ConversationAssumption DEF CallsOK, Click

\* TypeInv is the conjunction of its parts, and the parts no action of a
\* method disturbs stay as they are.
LEMMA Assemble ==
    ASSUME Kept, SlotsOK', ScreenOK', FlagsOK', QueueOK', EgressOK', CallsOK'
    PROVE  TypeInv'
BY DEF Kept, TypeInv, PageInv
-----------------------------------------------------------------------------
(***************************************************************************)
(* Sending and regenerating.                                               *)
(***************************************************************************)
LEMMA PutQuestionTypes ==
    ASSUME TypeInv, NEW s \in Slots, NEW r, Ready(r), PutQuestion(s, r)
    PROVE  Kept /\ SlotsOK' /\ QueueOK' /\ sending' = TRUE
<1>1. Kept
    <2>1. CASE CanInsert(r.chat)
        <3>1. r.chat \in Chats /\ r.by \in Nat
            BY DEF Ready
        <3> QED
            BY <2>1, <3>1, InsertMessageTypes DEF PutQuestion, TypeInv, Modes
    <2>2. CASE ~CanInsert(r.chat)
        BY <2>2, UnchangedStore DEF PutQuestion, TypeInv
    <2> QED
        BY <2>1, <2>2
<1>2. SlotsOK'
    <2>1. PICK pc \in {"asked", "failed"} : Put(s, [r EXCEPT !.pc = pc])
        BY DEF PutQuestion
    <2>2. [r EXCEPT !.pc = pc] \in MethodOf(Ids) /\ [r EXCEPT !.pc = pc].pc # "written"
        BY <2>1 DEF Ready, MethodOf, PCs, TurnPCs
    <2> QED
        BY <1>1, <2>1, <2>2, PutMethod DEF Kept, TypeInv
<1> QED
    BY <1>1, <1>2, QueueTypes DEF PutQuestion, TypeInv, PageInv

LEMMA RetireLastTypes ==
    ASSUME TypeInv, NEW s \in Slots, NEW r, Ready(r), RetireLast(s, r)
    PROVE  Kept /\ SlotsOK' /\ QueueOK' /\ sending' \in BOOLEAN
<1>1. CASE LastIs(shown, Answers)
    <2>1. PICK m \in shown : /\ RetireMessage(m, GroupOf(m))
                             /\ Put(s, [r EXCEPT !.pc = "retired", !.group = GroupOf(m)])
        BY <1>1 DEF RetireLast
    <2>2. m \in Ids
        BY DEF TypeInv, PageInv, ScreenOK
    <2>3. GroupOf(m) \in Nat
        BY <2>2, RowTypes DEF TypeInv
    <2>4. Kept
        BY <2>1, <2>2, <2>3, RetireMessageTypes DEF TypeInv
    <2> DEFINE q == [r EXCEPT !.pc = "retired", !.group = GroupOf(m)]
    <2>5. q \in MethodOf(Ids) /\ q.pc # "written"
        BY <2>3 DEF Ready, MethodOf, PCs, TurnPCs
    <2>6. Put(s, q)
        BY <2>1
    <2> HIDE DEF q
    <2>7. SlotsOK'
        BY <2>4, <2>5, <2>6, PutMethod DEF Kept, TypeInv
    <2> QED
        BY <1>1, <2>4, <2>7, QueueTypes DEF RetireLast, TypeInv, PageInv
<1>2. CASE ~LastIs(shown, Answers)
    <2>1. Kept /\ Return(s) /\ Resume(s) /\ sending' = sending
        BY <1>2, UnchangedStore DEF RetireLast, TypeInv
    <2> QED
        BY <2>1, ReturnTypes, QueueTypes DEF Kept, TypeInv, PageInv, FlagsOK
<1> QED
    BY <1>1, <1>2

LEMMA EnterTypes ==
    ASSUME TypeInv, NEW s \in Slots, NEW r, Ready(r), Enter(s, r), UNCHANGED review
    PROVE  Kept /\ SlotsOK' /\ QueueOK' /\ FlagsOK'
<1>1. CASE generatingRelated
    <2>1. Put(s, [r EXCEPT !.pc = "stopping"]) /\ Resume(s) /\ UNCHANGED <<messageStore, sending>>
        BY <1>1 DEF Enter
    <2>2. [r EXCEPT !.pc = "stopping"] \in MethodOf(Ids) /\ [r EXCEPT !.pc = "stopping"].pc # "written"
        BY DEF Ready, MethodOf, PCs, TurnPCs
    <2>3. Kept
        BY <2>1, UnchangedStore DEF TypeInv
    <2>4. SlotsOK'
        BY <2>1, <2>2, <2>3, PutMethod DEF Kept, TypeInv
    <2> QED
        BY <2>1, <2>3, <2>4, QueueTypes DEF Enter, TypeInv, PageInv, FlagsOK, review
<1>2. CASE ~generatingRelated
    <2>1. PutQuestion(s, r) \/ RetireLast(s, r)
        BY <1>2 DEF Enter, Turn
    <2>2. Kept /\ SlotsOK' /\ QueueOK' /\ sending' \in BOOLEAN
        BY <2>1, PutQuestionTypes, RetireLastTypes
    <2> QED
        BY <2>2 DEF Enter, TypeInv, PageInv, FlagsOK, review
<1> QED
    BY <1>1, <1>2
LEMMA WriteTypes ==
    ASSUME TypeInv, NEW s \in Slots, slot[s].pc \in PCs, NEW mode \in Modes, Write(s, mode)
    PROVE  Kept /\ SlotsOK' /\ QueueOK'
<1>1. MethodOK(slot[s], Ids)
    BY Running DEF TypeInv
<1>2. CASE CanInsert(slot[s].chat)
    <2> DEFINE q == [slot[s] EXCEPT !.pc = "written", !.answer = NextId]
    <2>1. slot[s].chat \in Chats /\ slot[s].group \in Nat /\ slot[s].by \in Nat
        BY <1>1 DEF MethodOK, MethodOf
    <2>2. Kept /\ NextId \in Ids'
        BY <1>2, <2>1, InsertMessageTypes DEF Write, TypeInv
    <2>3. NextId \in Nat
        BY DEF TypeInv, StoreInv, NextId
    <2>4. MethodOK(q, Ids')
        <3>1. MethodOK(slot[s], Ids')
            BY <1>1, <2>2, MethodsKeep DEF Kept
        <3> QED
            BY <2>2, <2>3, <3>1 DEF MethodOK, MethodOf, PCs, TurnPCs
    <2>5. Put(s, q)
        BY <1>2 DEF Write
    <2> HIDE DEF q
    <2>6. SlotsOK'
        BY <2>2, <2>4, <2>5, PutTypes DEF Kept, TypeInv, SlotOK
    <2> QED
        BY <2>2, <2>6, QueueTypes DEF Write, TypeInv, PageInv
<1>3. CASE ~CanInsert(slot[s].chat)
    <2>1. Kept /\ Goto(s, "failed")
        BY <1>3, UnchangedStore DEF Write, TypeInv
    <2> QED
        BY <2>1, GotoTypes, QueueTypes DEF Write, Kept, TypeInv, PageInv, PCs, TurnPCs
<1> QED
    BY <1>2, <1>3

\* What a step of a turn leaves alone.
TurnFrame == UNCHANGED review /\ UNCHANGED related /\ UNCHANGED egress /\ UNCHANGED calls

LEMMA AssembleTurn ==
    ASSUME TypeInv, TurnFrame, Kept, SlotsOK', ScreenOK', QueueOK', sending' \in BOOLEAN
    PROVE  TypeInv'
BY FlagsStay, EgressStays, CallsStay, Assemble DEF TurnFrame, TypeInv, PageInv

LEMMA ClickedTypes ==
    ASSUME TypeInv, NEW s \in Slots, SendCall(s) \/ RegenerateCall(s)
    PROVE  TypeInv'
<1>1. PICK op \in {"send", "regenerate"} :
         Click(s, op) /\ Enter(s, Begin(op, activeChat)) /\ activeChat # None
    BY DEF SendCall, RegenerateCall
<1>2. Ready(Begin(op, activeChat))
    BY <1>1, BeginReady DEF TypeInv, PageInv, ScreenOK, Ops, TurnOps
<1>3. UNCHANGED screen /\ UNCHANGED review /\ UNCHANGED egress
    BY DEF SendCall, RegenerateCall
<1>4. Kept /\ SlotsOK' /\ QueueOK' /\ FlagsOK'
    BY <1>1, <1>2, <1>3, EnterTypes
<1> QED
    BY <1>1, <1>3, <1>4, ClickTypes, ScreenStays, EgressStays, Assemble DEF Kept, TypeInv, PageInv

LEMMA StoppedTypes == ASSUME TypeInv, NEW s \in Slots, Stopped(s) PROVE TypeInv'
<1>1. Ready(slot[s])
    BY RunningReady DEF Stopped, Awaits, TypeInv, PCs
<1>2. PutQuestion(s, slot[s]) \/ RetireLast(s, slot[s])
    BY DEF Stopped, Turn
<1>3. Kept /\ SlotsOK' /\ QueueOK' /\ sending' \in BOOLEAN
    BY <1>1, <1>2, PutQuestionTypes, RetireLastTypes
<1> QED
    BY <1>3, ScreenStays, AssembleTurn DEF Stopped, TurnFrame, Kept, TypeInv, PageInv

\* Steps that only ask for a list.
LEMMA RelistTypes ==
    ASSUME TypeInv, NEW s \in Slots, Relist(s) \/ Recorded(s) \/ Activated(s)
    PROVE  TypeInv'
<1>1. PICK pc \in {"relisted", "listed", "shown"} : List(s, slot[s], pc)
    BY DEF Relist, Recorded, Activated
<1>2. slot[s].pc \in PCs
    BY DEF Relist, Recorded, Activated, Reply, PCs, TurnPCs
<1>3. Ready(slot[s])
    BY <1>2, RunningReady DEF TypeInv
<1>4. Kept
    BY UnchangedStore DEF Relist, Recorded, Activated, TypeInv
<1>5. SlotsOK' /\ QueueOK'
    BY <1>1, <1>3, <1>4, ListTypes DEF Kept, TypeInv, PageInv, PCs, TurnPCs
<1> QED
    BY <1>4, <1>5, ScreenStays, AssembleTurn
    DEF Relist, Recorded, Activated, TurnFrame, Kept, TypeInv, PageInv, FlagsOK

LEMMA RelistedTypes == ASSUME TypeInv, NEW s \in Slots, Relisted(s) PROVE TypeInv'
<1>1. slot[s].pc \in PCs
    BY DEF Relisted, Reply, PCs, TurnPCs
<1>2. Kept
    BY UnchangedStore DEF Relisted, TypeInv
<1>3. SlotsOK' /\ ScreenOK' /\ QueueOK'
    BY <1>1, <1>2, GotoTypes, ShowTypes, QueueTypes
    DEF Relisted, Kept, TypeInv, PageInv, PCs, TurnPCs
<1> QED
    BY <1>2, <1>3, AssembleTurn DEF Relisted, TurnFrame, TypeInv, PageInv, FlagsOK

LEMMA AnswerTypes ==
    ASSUME TypeInv, NEW s \in Slots, Answer(s) \/ Posted(s)
    PROVE  TypeInv'
<1>1. PICK mode \in Modes : Write(s, mode)
    BY DEF Answer, Posted, Modes
<1>2. slot[s].pc \in PCs
    BY DEF Answer, Posted, Awaits, PCs, TurnPCs
<1>3. Kept /\ SlotsOK' /\ QueueOK'
    BY <1>1, <1>2, WriteTypes
<1> QED
    BY <1>3, ScreenStays, AssembleTurn
    DEF Answer, Posted, TurnFrame, Kept, TypeInv, PageInv, FlagsOK

LEMMA RefuseTypes == ASSUME TypeInv, NEW s \in Slots, Refuse(s) PROVE TypeInv'
<1>1. slot[s].pc \in PCs /\ Write(s, "private") /\ Show(s)
    BY DEF Refuse, Reply, PCs, TurnPCs
<1>2. Kept /\ SlotsOK' /\ QueueOK'
    BY <1>1, WriteTypes DEF Modes
<1>3. ScreenOK'
    BY <1>1, <1>2, ShowTypes DEF Kept, TypeInv, PageInv
<1> QED
    BY <1>2, <1>3, AssembleTurn DEF Refuse, TurnFrame, TypeInv, PageInv, FlagsOK

LEMMA ThinkFailsTypes == ASSUME TypeInv, NEW s \in Slots, ThinkFails(s) PROVE TypeInv'
<1>1. slot[s].pc \in PCs
    BY DEF ThinkFails, Awaits, PCs, TurnPCs
<1>2. Kept
    BY UnchangedStore DEF ThinkFails, TypeInv
<1>3. SlotsOK' /\ QueueOK' /\ ScreenOK'
    BY <1>1, <1>2, GotoTypes, QueueTypes, ScreenStays
    DEF ThinkFails, Kept, TypeInv, PageInv, PCs, TurnPCs
<1> QED
    BY <1>2, <1>3, AssembleTurn DEF ThinkFails, TurnFrame, TypeInv, PageInv, FlagsOK

LEMMA WrittenTypes == ASSUME TypeInv, NEW s \in Slots, Written(s) PROVE TypeInv'
<1>1. MethodOK(slot[s], Ids) /\ slot[s].pc = "written" /\ slot[s].answer \in Ids
    BY Running DEF Written, Reply, TypeInv, MethodOK, PCs, TurnPCs
<1>2. Ready(slot[s])
    BY <1>1, RunningReady DEF TypeInv, PCs, TurnPCs
<1>3. Kept /\ SlotsOK' /\ QueueOK'
    <2>1. CASE InsertPrivacyEvent(slot[s].answer) /\ Goto(s, "recorded") /\ Ask(s)
        <3>1. Kept
            BY <1>1, <2>1, InsertPrivacyEventTypes DEF TypeInv
        <3> QED
            BY <1>1, <2>1, <3>1, GotoTypes, QueueTypes DEF Kept, TypeInv, PageInv, PCs, TurnPCs
    <2>2. CASE UNCHANGED messageStore /\ List(s, slot[s], "listed")
        <3>1. Kept
            BY <2>2, UnchangedStore DEF TypeInv
        <3> QED
            BY <1>2, <2>2, <3>1, ListTypes DEF Kept, TypeInv, PageInv, PCs, TurnPCs
    <2>3. CASE UNCHANGED messageStore /\ Goto(s, "failed") /\ Ask(s)
        <3>1. Kept
            BY <2>3, UnchangedStore DEF TypeInv
        <3> QED
            BY <1>1, <2>3, <3>1, GotoTypes, QueueTypes DEF Kept, TypeInv, PageInv, PCs, TurnPCs
    <2> QED
        BY <2>1, <2>2, <2>3 DEF Written
<1> QED
    BY <1>3, ScreenStays, AssembleTurn DEF Written, TurnFrame, Kept, TypeInv, PageInv, FlagsOK

LEMMA ListedTypes == ASSUME TypeInv, NEW s \in Slots, Listed(s) PROVE TypeInv'
<1>1. MethodOK(slot[s], Ids) /\ slot[s].pc \in PCs
    BY Running DEF Listed, Reply, TypeInv, PCs, TurnPCs
<1>2. Kept
    BY UnchangedStore DEF Listed, TypeInv
<1>3. SlotsOK' /\ QueueOK' /\ ScreenOK'
    BY <1>1, <1>2, ReturnTypes, QueueTypes, ShowTypes DEF Listed, Kept, TypeInv, PageInv
<1>4. FlagsOK'
    BY <1>1 DEF Listed, TypeInv, PageInv, FlagsOK, review, MethodOK, MethodOf
<1> QED
    BY <1>2, <1>3, <1>4, EgressStays, CallsStay, Assemble DEF Listed, TypeInv, PageInv

LEMMA FailedTypes == ASSUME TypeInv, NEW s \in Slots, Failed(s) PROVE TypeInv'
<1>1. Kept
    BY UnchangedStore DEF Failed, TypeInv
<1>2. SlotsOK' /\ QueueOK' /\ ScreenOK'
    BY <1>1, ReturnTypes, QueueTypes, ScreenStays DEF Failed, Kept, TypeInv, PageInv
<1>3. sending' \in BOOLEAN
    BY DEF Failed
<1> QED
    BY <1>1, <1>2, <1>3, AssembleTurn DEF Failed, TurnFrame
-----------------------------------------------------------------------------
(***************************************************************************)
(* Editing.                                                                *)
(***************************************************************************)
LEMMA DeleteNextTypes ==
    ASSUME TypeInv, NEW s \in Slots, NEW r, Ready(r), DeleteNext(s, r)
    PROVE  Kept /\ SlotsOK' /\ QueueOK'
<1>1. PICK m \in r.todo : DeleteMessage(m) /\ Put(s, [r EXCEPT !.pc = "deleted", !.todo = @ \ {m}])
    BY DEF DeleteNext
<1> DEFINE q == [r EXCEPT !.pc = "deleted", !.todo = @ \ {m}]
<1>2. q \in MethodOf(Ids) /\ q.pc # "written"
    BY DEF Ready, MethodOf, PCs
<1>3. Put(s, q)
    BY <1>1
<1> HIDE DEF q
<1>4. Kept
    BY <1>1, DeleteMessageTypes DEF TypeInv
<1> QED
    BY <1>2, <1>3, <1>4, PutMethod, QueueTypes DEF DeleteNext, Kept, TypeInv, PageInv

LEMMA EditCallTypes == ASSUME TypeInv, NEW s \in Slots, EditCall(s) PROVE TypeInv'
<1> DEFINE r == [Begin("edit", activeChat) EXCEPT !.todo = FromLastQuestion(shown)]
<1>1. Ready(Begin("edit", activeChat))
    BY BeginReady DEF EditCall, TypeInv, PageInv, ScreenOK, Ops
<1>2. Ready(r)
    BY <1>1 DEF Ready, FromLastQuestion, TypeInv, PageInv, ScreenOK
<1>3. DeleteNext(s, r)
    BY DEF EditCall
<1> HIDE DEF r
<1>4. Kept /\ SlotsOK' /\ QueueOK'
    BY <1>2, <1>3, DeleteNextTypes
<1>5. ScreenOK' /\ FlagsOK' /\ EgressOK' /\ CallsOK'
    BY <1>4, ScreenStays, FlagsStay, EgressStays, ClickTypes
    DEF EditCall, Kept, TypeInv, PageInv, FlagsOK
<1> QED
    BY <1>4, <1>5, Assemble

LEMMA DeletedTypes == ASSUME TypeInv, NEW s \in Slots, Deleted(s) PROVE TypeInv'
<1>1. Ready(slot[s])
    BY RunningReady DEF Deleted, Reply, TypeInv, PCs
<1>2. CASE DeleteNext(s, slot[s])
    BY <1>1, <1>2, DeleteNextTypes, ScreenStays, AssembleTurn
    DEF Deleted, TurnFrame, Kept, TypeInv, PageInv, FlagsOK
<1>3. CASE List(s, slot[s], "cleared") /\ UNCHANGED messageStore
    <2>1. Kept
        BY <1>3, UnchangedStore DEF TypeInv
    <2>2. SlotsOK' /\ QueueOK'
        BY <1>1, <1>3, <2>1, ListTypes DEF Kept, TypeInv, PageInv, PCs
    <2> QED
        BY <2>1, <2>2, ScreenStays, AssembleTurn
        DEF Deleted, TurnFrame, Kept, TypeInv, PageInv, FlagsOK
<1> QED
    BY <1>2, <1>3 DEF Deleted

LEMMA ClearedTypes == ASSUME TypeInv, NEW s \in Slots, Cleared(s) PROVE TypeInv'
<1>1. Ready(slot[s]) /\ slot[s].pc \in PCs
    BY RunningReady DEF Cleared, Reply, TypeInv, PCs
<1>2. CASE Return(s) /\ Resume(s) /\ UNCHANGED <<messageStore, sending, related>>
    <2>1. Kept
        BY <1>2, UnchangedStore DEF TypeInv
    <2>2. SlotsOK' /\ QueueOK' /\ FlagsOK'
        BY <1>2, <2>1, ReturnTypes, QueueTypes, FlagsStay
        DEF Cleared, Kept, TypeInv, PageInv, FlagsOK, related
    <2> QED
        BY <1>1, <2>1, <2>2, ShowTypes, EgressStays, CallsStay, Assemble
        DEF Cleared, Kept, TypeInv, PageInv
<1>3. CASE Enter(s, [slot[s] EXCEPT !.op = "send"])
    <2>1. Ready([slot[s] EXCEPT !.op = "send"])
        BY <1>1 DEF Ready, Ops, TurnOps
    <2>2. Kept /\ SlotsOK' /\ QueueOK' /\ FlagsOK'
        BY <1>3, <2>1, EnterTypes DEF Cleared
    <2> QED
        BY <1>1, <2>2, ShowTypes, EgressStays, CallsStay, Assemble
        DEF Cleared, Kept, TypeInv, PageInv
<1> QED
    BY <1>2, <1>3 DEF Cleared
-----------------------------------------------------------------------------
(***************************************************************************)
(* Cloud turns.                                                            *)
(***************************************************************************)
LEMMA StageCallTypes == ASSUME TypeInv, NEW s \in Slots, StageCall(s) PROVE TypeInv'
<1>1. Ready(Begin("stage", activeChat)) /\ PutQuestion(s, Begin("stage", activeChat))
    BY BeginReady DEF StageCall, TypeInv, PageInv, ScreenOK, Ops, TurnOps
<1>2. Kept /\ SlotsOK' /\ QueueOK' /\ sending' = TRUE
    BY <1>1, PutQuestionTypes
<1>3. ScreenOK' /\ FlagsOK' /\ EgressOK' /\ CallsOK'
    BY <1>2, ScreenStays, FlagsStay, EgressStays, ClickTypes DEF StageCall, Kept, TypeInv, PageInv
<1> QED
    BY <1>2, <1>3, Assemble

LEMMA SendAssistedTypes ==
    ASSUME TypeInv, Kept, NEW s \in Slots, NEW r, Ready(r), SendAssisted(s, r)
    PROVE  SlotsOK' /\ QueueOK' /\ sending' = TRUE
<1>1. Ready([r EXCEPT !.op = "assisted"])
    BY DEF Ready, Ops, TurnOps
<1> QED
    BY <1>1, ListTypes DEF SendAssisted, Kept, TypeInv, PageInv, PCs, TurnPCs

LEMMA HandBackTypes == ASSUME TypeInv, NEW s \in Slots, HandBack(s) PROVE TypeInv'
<1>1. Ready(slot[s]) /\ slot[s].pc = "thinking"
    BY RunningReady DEF HandBack, Awaits, TypeInv, PCs, TurnPCs
<1>2. [slot[s] EXCEPT !.op = "send"] \in MethodOf(Ids) /\ [slot[s] EXCEPT !.op = "send"].pc # "written"
    BY <1>1 DEF Ready, MethodOf, Ops, TurnOps, PCs, TurnPCs
<1>3. Kept
    BY UnchangedStore DEF HandBack, TypeInv
<1>4. SlotsOK' /\ QueueOK' /\ ScreenOK' /\ FlagsOK'
    BY <1>2, <1>3, PutMethod, QueueTypes, ScreenStays
    DEF HandBack, Kept, TypeInv, PageInv, FlagsOK, review
<1> QED
    BY <1>3, <1>4, EgressStays, CallsStay, Assemble DEF HandBack, TypeInv, PageInv

LEMMA NoExcerptsTypes == ASSUME TypeInv, NEW s \in Slots, NoExcerpts(s) PROVE TypeInv'
<1>1. Ready(slot[s])
    BY RunningReady DEF NoExcerpts, Awaits, TypeInv, PCs, TurnPCs
<1>2. Kept
    BY UnchangedStore DEF NoExcerpts, TypeInv
<1>3. SlotsOK' /\ QueueOK' /\ sending' = TRUE
    BY <1>1, <1>2, SendAssistedTypes DEF NoExcerpts
<1> QED
    BY <1>2, <1>3, ScreenStays, AssembleTurn DEF NoExcerpts, TurnFrame, Kept, TypeInv, PageInv

LEMMA StageTypes == ASSUME TypeInv, NEW s \in Slots, Stage(s) PROVE TypeInv'
<1>1. Ready(slot[s]) /\ slot[s].pc \in PCs
    BY RunningReady DEF Stage, Awaits, TypeInv, PCs, TurnPCs
<1>2. Kept
    BY UnchangedStore DEF Stage, TypeInv
<1>3. SlotsOK' /\ QueueOK' /\ FlagsOK'
    <2>1. CASE Return(s) /\ pendingAssisted' = [chat |-> slot[s].chat, by |-> slot[s].by]
               /\ UNCHANGED <<sending, queue>>
        <3>1. pendingAssisted' \in [chat : Chats, by : Nat]
            BY <1>1, <2>1 DEF Ready
        <3> QED
            BY <1>2, <2>1, <3>1, ReturnTypes, QueueTypes
            DEF Stage, Kept, TypeInv, PageInv, FlagsOK, related
    <2>2. CASE pendingAssisted' = None /\ SendAssisted(s, [slot[s] EXCEPT !.selected = TRUE])
        <3>1. Ready([slot[s] EXCEPT !.selected = TRUE])
            BY <1>1 DEF Ready
        <3> QED
            BY <1>2, <2>2, <3>1, SendAssistedTypes DEF Stage, TypeInv, PageInv, FlagsOK, related
    <2> QED
        BY <2>1, <2>2 DEF Stage
<1> QED
    BY <1>2, <1>3, ScreenStays, EgressStays, CallsStay, Assemble DEF Stage, Kept, TypeInv, PageInv

LEMMA ConfirmTypes == ASSUME TypeInv, NEW s \in Slots, ConfirmAssisted(s) PROVE TypeInv'
<1> DEFINE r == [Begin("assisted", activeChat) EXCEPT
           !.by = pendingAssisted.by, !.selected = TRUE, !.reviewed = TRUE]
<1>1. pendingAssisted \in [chat : Chats, by : Nat]
    BY DEF ConfirmAssisted, TypeInv, PageInv, FlagsOK
<1>2. Ready(Begin("assisted", activeChat))
    BY <1>1, BeginReady DEF ConfirmAssisted, TypeInv, PageInv, Ops, TurnOps
<1>3. Ready(r)
    BY <1>1, <1>2 DEF Ready
<1>4. SendAssisted(s, r)
    BY DEF ConfirmAssisted
<1> HIDE DEF r
<1>5. Kept
    BY UnchangedStore DEF ConfirmAssisted, TypeInv
<1>6. SlotsOK' /\ QueueOK' /\ FlagsOK'
    BY <1>3, <1>4, <1>5, SendAssistedTypes DEF ConfirmAssisted, TypeInv, PageInv, FlagsOK, related
<1> QED
    BY <1>5, <1>6, ScreenStays, EgressStays, CallsStay, Assemble
    DEF ConfirmAssisted, Kept, TypeInv, PageInv

LEMMA PostTypes == ASSUME TypeInv, NEW s \in Slots, PostAssisted(s) PROVE TypeInv'
<1>1. Ready(slot[s]) /\ slot[s].pc \in PCs
    BY RunningReady DEF PostAssisted, Reply, TypeInv, PCs, TurnPCs
<1>2. Kept
    BY UnchangedStore DEF PostAssisted, TypeInv
<1>3. SlotsOK' /\ QueueOK' /\ ScreenOK'
    BY <1>1, <1>2, GotoTypes, QueueTypes, ShowTypes
    DEF PostAssisted, Kept, TypeInv, PageInv, PCs, TurnPCs
<1>4. EgressOK'
    <2> DEFINE post == [chat |-> slot[s].chat, by |-> slot[s].by, reviewed |-> slot[s].reviewed]
    <2>1. post \in Post
        BY <1>1 DEF Ready, Post
    <2>2. egress' = Append(egress, post)
        BY DEF PostAssisted
    <2> HIDE DEF post
    <2> QED
        BY <2>1, <2>2, AppendProperties DEF EgressOK, TypeInv, PageInv
<1> QED
    BY <1>2, <1>3, <1>4, FlagsStay, CallsStay, Assemble DEF PostAssisted, TypeInv, PageInv, FlagsOK
-----------------------------------------------------------------------------
(***************************************************************************)
(* Versions, navigation, deletion.                                         *)
(***************************************************************************)
LEMMA SwitchCallTypes == ASSUME TypeInv, NEW s \in Slots, SwitchCall(s) PROVE TypeInv'
<1>1. Ready(Begin("switch", activeChat))
    BY BeginReady DEF SwitchCall, TypeInv, PageInv, ScreenOK, Ops
<1> DEFINE q == [Begin("switch", activeChat) EXCEPT !.pc = "activated"]
<1>2. q \in MethodOf(Ids) /\ q.pc # "written"
    BY <1>1 DEF Ready, MethodOf, PCs
<1>3. Put(s, q)
    BY DEF SwitchCall
<1> HIDE DEF q
<1>4. Kept
    BY ActivateTypes DEF SwitchCall, TypeInv
<1>5. SlotsOK' /\ QueueOK' /\ ScreenOK' /\ CallsOK'
    BY <1>2, <1>3, <1>4, PutMethod, QueueTypes, ScreenStays, ClickTypes
    DEF SwitchCall, Kept, TypeInv, PageInv
<1> QED
    BY <1>4, <1>5, FlagsStay, EgressStays, Assemble DEF SwitchCall, TypeInv, PageInv, FlagsOK

LEMMA OpenCallTypes == ASSUME TypeInv, NEW s \in Slots, OpenCall(s) PROVE TypeInv'
<1>1. PICK c \in chats : activeChat' = c /\ List(s, Begin("open", c), "shown")
    BY DEF OpenCall
<1>2. c \in Chats
    BY DEF TypeInv, StoreInv
<1>3. Ready(Begin("open", c))
    BY <1>2, BeginReady DEF TypeInv, PageInv, Ops
<1>4. Kept
    BY UnchangedStore DEF OpenCall, TypeInv
<1>5. SlotsOK' /\ QueueOK'
    BY <1>1, <1>3, <1>4, ListTypes DEF Kept, TypeInv, PageInv, PCs
<1>6. ScreenOK' /\ FlagsOK' /\ CallsOK'
    BY <1>1, <1>2, <1>4, FlagsStay, ClickTypes
    DEF OpenCall, Kept, TypeInv, PageInv, ScreenOK, FlagsOK
<1> QED
    BY <1>4, <1>5, <1>6, EgressStays, Assemble DEF OpenCall, TypeInv, PageInv

LEMMA ShownTypes == ASSUME TypeInv, NEW s \in Slots, Shown(s) PROVE TypeInv'
<1>1. Ready(slot[s])
    BY RunningReady DEF Shown, Reply, TypeInv, PCs
<1>2. Kept
    BY UnchangedStore DEF Shown, TypeInv
<1>3. SlotsOK' /\ QueueOK'
    BY <1>2, ReturnTypes, QueueTypes DEF Shown, Kept, TypeInv, PageInv
<1>4. ScreenOK'
    BY <1>1, <1>2 DEF Shown, Ready, Kept, TypeInv, PageInv, ScreenOK
<1> QED
    BY <1>2, <1>3, <1>4, AssembleTurn DEF Shown, TurnFrame, TypeInv, PageInv, FlagsOK

LEMMA RemoveCallTypes == ASSUME TypeInv, NEW s \in Slots, RemoveCall(s) PROVE TypeInv'
<1>1. PICK c \in chats : DeleteChat(c) /\ Put(s, [Begin("remove", c) EXCEPT !.pc = "removed"])
    BY DEF RemoveCall
<1>2. Ready(Begin("remove", c))
    BY BeginReady DEF TypeInv, StoreInv, PageInv, Ops
<1> DEFINE q == [Begin("remove", c) EXCEPT !.pc = "removed"]
<1>3. q \in MethodOf(Ids) /\ q.pc # "written"
    BY <1>2 DEF Ready, MethodOf, PCs
<1>4. Put(s, q)
    BY <1>1
<1> HIDE DEF q
<1>5. Kept
    BY <1>1, DeleteChatTypes DEF TypeInv
<1>6. SlotsOK' /\ QueueOK' /\ ScreenOK' /\ CallsOK'
    BY <1>3, <1>4, <1>5, PutMethod, QueueTypes, ScreenStays, ClickTypes
    DEF RemoveCall, Kept, TypeInv, PageInv
<1> QED
    BY <1>5, <1>6, FlagsStay, EgressStays, Assemble DEF RemoveCall, TypeInv, PageInv, FlagsOK

LEMMA RemovedTypes == ASSUME TypeInv, NEW s \in Slots, Removed(s) PROVE TypeInv'
<1>1. Kept
    BY UnchangedStore DEF Removed, TypeInv
<1>2. SlotsOK' /\ QueueOK'
    BY <1>1, ReturnTypes, QueueTypes DEF Removed, Kept, TypeInv, PageInv
<1>3. ScreenOK'
    BY <1>1 DEF Removed, screen, Kept, TypeInv, PageInv, ScreenOK
<1> QED
    BY <1>1, <1>2, <1>3, AssembleTurn DEF Removed, TurnFrame, TypeInv, PageInv, FlagsOK

\* The user cancels a review; follow-ups come and go.
LEMMA BesideTypes ==
    ASSUME TypeInv, CancelAssisted \/ FollowUp \/ FollowUpEnds \/ UNCHANGED vars
    PROVE  TypeInv'
<1>1. UNCHANGED <<messageStore, screen, slot, queue, egress, calls>> /\ FlagsOK'
    BY DEF CancelAssisted, FollowUp, FollowUpEnds, vars, TypeInv, PageInv, FlagsOK, related, review
<1>2. Kept
    BY <1>1, UnchangedStore DEF TypeInv
<1>3. SlotsOK' /\ ScreenOK' /\ QueueOK'
    BY <1>1, <1>2, StayTypes, ScreenStays DEF Kept, TypeInv, PageInv, QueueOK
<1> QED
    BY <1>1, <1>2, <1>3, EgressStays, CallsStay, Assemble DEF TypeInv, PageInv
-----------------------------------------------------------------------------
LEMMA InitTypes == Init => TypeInv
<1> SUFFICES ASSUME Init PROVE TypeInv
    OBVIOUS
<1>1. StoreInv
    <2>1. History \in Seq(Row) /\ messages = History
        BY ConversationAssumption DEF Init
    <2>2. Ids = 1..Len(messages) /\ Len(messages) \in Nat
        BY <2>1 DEF Ids
    <2>3. indexed \in [Ids -> Int]
        BY <2>1 DEF Init, Ids
    <2>4. indexed \in Seq(Int) /\ Len(indexed) = Len(messages)
        BY <2>2, <2>3, SeqDef
    <2> QED
        BY <2>1, <2>4 DEF Init, StoreInv, Ids
<1>2. SlotsOK
    BY DEF Init, SlotsOK, SlotOK
<1>3. ScreenOK
    BY DEF Init, ScreenOK, ListMessages
<1>4. FlagsOK
    BY DEF Init, FlagsOK
<1>5. CallsOK
    BY ConversationAssumption DEF Init, CallsOK
<1>6. QueueOK /\ EgressOK
    BY EmptySeq DEF Init, QueueOK, EgressOK
<1> QED
    BY <1>1, <1>2, <1>3, <1>4, <1>5, <1>6 DEF TypeInv, PageInv

LEMMA StepTypes == TypeInv /\ [Next]_vars => TypeInv'
<1> SUFFICES ASSUME TypeInv, [Next]_vars PROVE TypeInv'
    OBVIOUS
<1>1. ASSUME NEW s \in Slots, Step(s) PROVE TypeInv'
    BY <1>1, StoppedTypes, RelistTypes, RelistedTypes, AnswerTypes, ThinkFailsTypes, WrittenTypes,
       ListedTypes, FailedTypes, DeletedTypes, ClearedTypes, HandBackTypes, NoExcerptsTypes,
       StageTypes, RefuseTypes, PostTypes, ShownTypes, RemovedTypes
    DEF Step
<1>2. ASSUME NEW s \in Slots, User(s) PROVE TypeInv'
    BY <1>2, ClickedTypes, EditCallTypes, StageCallTypes, ConfirmTypes, SwitchCallTypes,
       OpenCallTypes, RemoveCallTypes
    DEF User
<1> QED
    BY <1>1, <1>2, BesideTypes DEF Next

\* Every reachable state of the chats is well typed: no method is left naming a
\* message that does not exist.
THEOREM TypeCorrect == Spec => []TypeOK
BY InitTypes, StepTypes, TypeInvImpliesTypeOK, PTL DEF Spec
-----------------------------------------------------------------------------
(***************************************************************************)
(* The composer.  sending is set while some method is between its two      *)
(* assignments to it (TurnPCs), or while a review waits.  A step that ends *)
(* a turn clears it, and a step of no turn does not touch it; the two      *)
(* exceptions are those the property names, a staging that rejects and a   *)
(* review whose chat is gone.                                              *)
(***************************************************************************)
OpensAgain == Shut' => Shut \/ StagingRejects \/ ReviewLosesChat

Others(s) == \A t \in Slots \ {s} : slot'[t] = slot[t]

\* How a step of one method keeps the composer: it clears sending, or the method
\* is in a turn after it, or it stages a review or rejects, or it was not in a
\* turn and what it does not own stays.
LEMMA StepShape ==
    ASSUME NEW s \in Slots, Others(s),
           \/ sending' = FALSE
           \/ slot'[s].pc \in TurnPCs
           \/ Stage(s) /\ pendingAssisted' # None
           \/ slot[s].op = "stage" /\ Failed(s)
           \/ ~InTurn(s) /\ UNCHANGED <<chats, sending, pendingAssisted>>
    PROVE  OpensAgain
<1>1. CASE Stage(s) /\ pendingAssisted' # None
    BY <1>1 DEF OpensAgain, ReviewLosesChat, Shut, Waiting, Orphaned
<1>2. CASE slot[s].op = "stage" /\ Failed(s)
    BY <1>2 DEF OpensAgain, StagingRejects
<1>3. CASE sending' = FALSE \/ slot'[s].pc \in TurnPCs
    BY <1>3 DEF OpensAgain, Shut, InTurn
<1>4. CASE ~InTurn(s) /\ UNCHANGED <<chats, sending, pendingAssisted>>
    BY <1>4 DEF OpensAgain, Shut, Waiting, InTurn, Others
<1> QED
    BY <1>1, <1>2, <1>3, <1>4

LEMMA PutMoves ==
    ASSUME SlotsOK, NEW s \in Slots, NEW r, Put(s, r)
    PROVE  slot'[s] = r /\ Others(s)
BY DEF SlotsOK, Put, Others

LEMMA GotoMoves ==
    ASSUME SlotsOK, NEW s \in Slots, slot[s].pc \in PCs, NEW pc, Goto(s, pc)
    PROVE  /\ slot'[s].pc = pc /\ slot'[s].op = slot[s].op /\ slot'[s].by = slot[s].by
           /\ Others(s)
<1>1. MethodOK(slot[s], Ids)
    BY Running
<1> QED
    BY <1>1 DEF SlotsOK, Goto, Others, MethodOK, MethodOf

LEMMA ReturnMoves ==
    ASSUME SlotsOK, NEW s \in Slots, Return(s)
    PROVE  slot'[s] = Idle /\ Others(s)
BY DEF SlotsOK, Return, Others

LEMMA ListMoves ==
    ASSUME SlotsOK, NEW s \in Slots, NEW r, Ready(r), NEW pc, List(s, r, pc)
    PROVE  slot'[s].pc = pc /\ slot'[s].op = r.op /\ slot'[s].by = r.by /\ Others(s)
<1> DEFINE q == [r EXCEPT !.pc = pc, !.seen = ListMessages(r.chat)]
<1>1. q.pc = pc /\ q.op = r.op /\ q.by = r.by
    BY DEF Ready
<1>2. Put(s, q)
    BY DEF List
<1> HIDE DEF q
<1> QED
    BY <1>1, <1>2, PutMoves

LEMMA WriteMoves ==
    ASSUME SlotsOK, NEW s \in Slots, slot[s].pc \in PCs, NEW mode, Write(s, mode)
    PROVE  /\ slot'[s].pc \in {"written", "failed"} /\ slot'[s].op = slot[s].op
           /\ Others(s) /\ UNCHANGED chats
<1>1. MethodOK(slot[s], Ids)
    BY Running
<1>2. CASE CanInsert(slot[s].chat)
    <2> DEFINE q == [slot[s] EXCEPT !.pc = "written", !.answer = NextId]
    <2>1. q.pc = "written" /\ q.op = slot[s].op
        BY <1>1 DEF MethodOK, MethodOf
    <2>2. Put(s, q) /\ UNCHANGED chats
        BY <1>2 DEF Write, InsertMessage
    <2> HIDE DEF q
    <2> QED
        BY <2>1, <2>2, PutMoves
<1>3. CASE ~CanInsert(slot[s].chat)
    BY <1>1, <1>3, GotoMoves DEF Write, messageStore, MethodOK
<1> QED
    BY <1>2, <1>3

LEMMA PutQuestionMoves ==
    ASSUME SlotsOK, NEW s \in Slots, NEW r, Ready(r), PutQuestion(s, r)
    PROVE  slot'[s].pc \in {"asked", "failed"} /\ Others(s) /\ UNCHANGED chats
<1>1. CASE CanInsert(r.chat)
    BY <1>1, PutMoves DEF PutQuestion, InsertMessage, Ready
<1>2. CASE ~CanInsert(r.chat)
    BY <1>2, PutMoves DEF PutQuestion, messageStore, Ready
<1> QED
    BY <1>1, <1>2

LEMMA RetireLastMoves ==
    ASSUME SlotsOK, NEW s \in Slots, NEW r, Ready(r), RetireLast(s, r)
    PROVE  /\ slot'[s].pc = "retired" \/ UNCHANGED sending
           /\ Others(s) /\ UNCHANGED chats
<1>1. CASE LastIs(shown, Answers)
    <2>1. PICK m \in shown : RetireMessage(m, GroupOf(m)) /\
              Put(s, [r EXCEPT !.pc = "retired", !.group = GroupOf(m)])
        BY <1>1 DEF RetireLast
    <2> DEFINE q == [r EXCEPT !.pc = "retired", !.group = GroupOf(m)]
    <2>2. q.pc = "retired"
        BY DEF Ready
    <2>3. Put(s, q) /\ UNCHANGED chats
        BY <2>1 DEF RetireMessage
    <2> HIDE DEF q
    <2> QED
        BY <2>2, <2>3, PutMoves
<1>2. CASE ~LastIs(shown, Answers)
    BY <1>2, ReturnMoves DEF RetireLast, messageStore
<1> QED
    BY <1>1, <1>2

LEMMA EnterMoves ==
    ASSUME SlotsOK, NEW s \in Slots, NEW r, Ready(r), Enter(s, r)
    PROVE  /\ slot'[s].pc \in TurnPCs \/ UNCHANGED sending
           /\ Others(s) /\ UNCHANGED chats
<1>1. CASE Put(s, [r EXCEPT !.pc = "stopping"]) /\ UNCHANGED <<messageStore, sending>>
    BY <1>1, PutMoves DEF messageStore
<1>2. CASE PutQuestion(s, r)
    BY <1>2, PutQuestionMoves DEF TurnPCs
<1>3. CASE RetireLast(s, r)
    BY <1>3, RetireLastMoves DEF TurnPCs
<1> QED
    BY <1>1, <1>2, <1>3 DEF Enter, Turn

LEMMA MethodStepKeepsComposer ==
    ASSUME TypeInv, NEW s \in Slots, Step(s)
    PROVE  OpensAgain
<1> USE DEF TypeInv, PageInv
<1> slot[s].pc \in PCs => Ready(slot[s])
    BY RunningReady
<1>1. CASE Stopped(s)
    <2>1. slot[s].pc = "stopping" /\ Ready(slot[s]) /\ ~InTurn(s)
        BY <1>1 DEF Stopped, Awaits, PCs, InTurn, TurnPCs
    <2>2. /\ slot'[s].pc \in TurnPCs \/ UNCHANGED sending
          /\ Others(s) /\ UNCHANGED chats
        BY <1>1, <2>1, PutQuestionMoves, RetireLastMoves DEF Stopped, Turn, TurnPCs
    <2> QED
        BY <1>1, <2>1, <2>2, StepShape DEF Stopped, review
<1>2. CASE Relist(s) \/ Recorded(s)
    <2>1. PICK pc \in {"relisted", "listed"} : List(s, slot[s], pc)
        BY <1>2 DEF Relist, Recorded
    <2>2. slot[s].pc \in PCs
        BY <1>2 DEF Relist, Recorded, Reply, PCs, TurnPCs
    <2>3. slot'[s].pc = pc /\ Others(s)
        BY <2>1, <2>2, ListMoves
    <2> QED
        BY <2>3, StepShape DEF TurnPCs
<1>3. CASE Relisted(s) \/ ThinkFails(s) \/ PostAssisted(s)
    <2>1. PICK pc \in {"thinking", "rejecting", "posted"} : Goto(s, pc)
        BY <1>3 DEF Relisted, ThinkFails, PostAssisted
    <2>2. slot[s].pc \in PCs
        BY <1>3 DEF Relisted, ThinkFails, PostAssisted, Reply, Awaits, PCs, TurnPCs
    <2>3. slot'[s].pc = pc /\ Others(s)
        BY <2>1, <2>2, GotoMoves
    <2> QED
        BY <2>3, StepShape DEF TurnPCs
<1>4. CASE Answer(s) \/ Posted(s) \/ Refuse(s)
    <2>1. PICK mode : Write(s, mode)
        BY <1>4 DEF Answer, Posted, Refuse
    <2>2. slot[s].pc \in PCs
        BY <1>4 DEF Answer, Posted, Refuse, Awaits, Reply, PCs, TurnPCs
    <2>3. slot'[s].pc \in {"written", "failed"} /\ Others(s)
        BY <2>1, <2>2, WriteMoves
    <2> QED
        BY <2>3, StepShape DEF TurnPCs
<1>5. CASE Listed(s)
    BY <1>5, ReturnMoves, StepShape DEF Listed
<1>6. CASE Written(s)
    <2>1. slot[s].pc \in PCs
        BY <1>6 DEF Written, Reply, PCs, TurnPCs
    <2>2. PICK pc \in {"recorded", "listed", "failed"} : Goto(s, pc) \/ List(s, slot[s], pc)
        BY <1>6 DEF Written
    <2>3. slot'[s].pc = pc /\ Others(s)
        BY <2>1, <2>2, GotoMoves, ListMoves
    <2> QED
        BY <2>3, StepShape DEF TurnPCs
<1>7. CASE Failed(s)
    BY <1>7, ReturnMoves, StepShape DEF Failed
<1>8. CASE Deleted(s)
    <2>1. slot[s].pc = "deleted" /\ Ready(slot[s]) /\ ~InTurn(s)
        BY <1>8 DEF Deleted, Reply, PCs, InTurn, TurnPCs
    <2>2. Others(s) /\ UNCHANGED chats
        <3>1. CASE DeleteNext(s, slot[s])
            BY <3>1, PutMoves DEF DeleteNext, DeleteMessage
        <3>2. CASE List(s, slot[s], "cleared") /\ UNCHANGED messageStore
            BY <2>1, <3>2, ListMoves DEF messageStore
        <3> QED
            BY <1>8, <3>1, <3>2 DEF Deleted
    <2> QED
        BY <1>8, <2>1, <2>2, StepShape DEF Deleted, review
<1>9. CASE Cleared(s)
    <2>1. slot[s].pc = "cleared" /\ Ready(slot[s]) /\ ~InTurn(s)
        BY <1>9 DEF Cleared, Reply, PCs, InTurn, TurnPCs
    <2>2. CASE Return(s) /\ UNCHANGED <<messageStore, sending, related>>
        BY <1>9, <2>1, <2>2, ReturnMoves, StepShape DEF Cleared, messageStore, review
    <2>3. CASE Enter(s, [slot[s] EXCEPT !.op = "send"])
        <3>1. Ready([slot[s] EXCEPT !.op = "send"])
            BY <2>1 DEF Ready, Ops, TurnOps
        <3>2. /\ slot'[s].pc \in TurnPCs \/ UNCHANGED sending
              /\ Others(s) /\ UNCHANGED chats
            BY <2>3, <3>1, EnterMoves
        <3> QED
            BY <1>9, <2>1, <3>2, StepShape DEF Cleared, review
    <2> QED
        BY <1>9, <2>2, <2>3 DEF Cleared
<1>10. CASE HandBack(s)
    <2>1. slot[s].pc = "thinking" /\ Ready(slot[s])
        BY <1>10 DEF HandBack, Awaits, PCs, TurnPCs
    <2>2. slot'[s] = [slot[s] EXCEPT !.op = "send"] /\ Others(s)
        BY <1>10, PutMoves DEF HandBack
    <2>3. slot'[s].pc = "thinking"
        BY <2>1, <2>2 DEF Ready
    <2> QED
        BY <2>2, <2>3, StepShape DEF TurnPCs
<1>11. CASE NoExcerpts(s)
    <2>1. Ready(slot[s])
        BY <1>11 DEF NoExcerpts, Awaits, PCs, TurnPCs
    <2>2. Ready([slot[s] EXCEPT !.op = "assisted"])
        BY <2>1 DEF Ready, Ops, TurnOps
    <2>3. slot'[s].pc = "relisted" /\ Others(s)
        BY <1>11, <2>2, ListMoves DEF NoExcerpts, SendAssisted
    <2> QED
        BY <2>3, StepShape DEF TurnPCs
<1>12. CASE Stage(s)
    <2>1. Ready(slot[s])
        BY <1>12 DEF Stage, Awaits, PCs, TurnPCs
    <2>2. CASE Return(s) /\ pendingAssisted' = [chat |-> slot[s].chat, by |-> slot[s].by]
        <3>1. pendingAssisted' \in [chat : Chats, by : Nat]
            BY <2>1, <2>2 DEF Ready
        <3>2. pendingAssisted' # None
            BY <3>1, ConversationAssumption
        <3> QED
            BY <1>12, <2>2, <3>2, ReturnMoves, StepShape
    <2>3. CASE SendAssisted(s, [slot[s] EXCEPT !.selected = TRUE])
        <3> DEFINE r == [[slot[s] EXCEPT !.selected = TRUE] EXCEPT !.op = "assisted"]
        <3>1. Ready(r)
            BY <2>1 DEF Ready, Ops, TurnOps
        <3>2. List(s, r, "relisted")
            BY <2>3 DEF SendAssisted
        <3> HIDE DEF r
        <3>3. slot'[s].pc = "relisted" /\ Others(s)
            BY <3>1, <3>2, ListMoves
        <3> QED
            BY <3>3, StepShape DEF TurnPCs
    <2> QED
        BY <1>12, <2>2, <2>3 DEF Stage
<1>13. CASE Activated(s)
    <2>1. slot[s].pc = "activated" /\ Ready(slot[s])
        BY <1>13 DEF Activated, Reply, PCs
    <2>2. Others(s)
        BY <1>13, <2>1, ListMoves DEF Activated
    <2> QED
        BY <1>13, <2>1, <2>2, StepShape DEF Activated, InTurn, TurnPCs, messageStore, review
<1>14. CASE Shown(s) \/ Removed(s)
    BY <1>14, ReturnMoves, StepShape
    DEF Shown, Removed, Reply, InTurn, TurnPCs, messageStore, review
<1> QED
    BY <1>1, <1>2, <1>3, <1>4, <1>5, <1>6, <1>7, <1>8, <1>9, <1>10, <1>11, <1>12, <1>13, <1>14
    DEF Step

LEMMA IdleIsNoTurn == ASSUME NEW s \in Slots, slot[s] = Idle PROVE ~InTurn(s)
BY DEF InTurn, Idle, TurnPCs

\* A click that begins a turn, and one that begins something else.
LEMMA ClickMoves ==
    ASSUME TypeInv, NEW s \in Slots, slot[s] = Idle, NEW r, Ready(r),
           Enter(s, r), UNCHANGED pendingAssisted
    PROVE  OpensAgain
<1>1. ~InTurn(s)
    BY IdleIsNoTurn
<1>2. /\ slot'[s].pc \in TurnPCs \/ UNCHANGED sending
      /\ Others(s) /\ UNCHANGED chats
    BY EnterMoves DEF TypeInv, PageInv
<1> QED
    BY <1>1, <1>2, StepShape

LEMMA OtherClickMoves ==
    ASSUME TypeInv, NEW s \in Slots, slot[s] = Idle, NEW r, Put(s, r),
           UNCHANGED <<chats, sending, pendingAssisted>>
    PROVE  OpensAgain
BY IdleIsNoTurn, PutMoves, StepShape DEF TypeInv, PageInv

LEMMA RemoveCallKeepsComposer ==
    ASSUME TypeInv, NEW s \in Slots, RemoveCall(s)
    PROVE  OpensAgain
<1>1. PICK c \in chats : Put(s, [Begin("remove", c) EXCEPT !.pc = "removed"])
    BY DEF RemoveCall
<1>2. ~InTurn(s) /\ Others(s) /\ UNCHANGED <<sending, pendingAssisted>>
    BY <1>1, IdleIsNoTurn, PutMoves DEF RemoveCall, Click, review, TypeInv, PageInv
<1>3. SUFFICES ASSUME Shut', ~Shut PROVE ReviewLosesChat
    BY DEF OpensAgain
<1>4. sending /\ ~\E t \in Slots : InTurn(t)
    BY <1>2, <1>3 DEF Shut, InTurn, Others
<1>5. Waiting /\ ~Waiting'
    BY <1>3, <1>4 DEF Shut
<1> QED
    BY <1>2, <1>5 DEF ReviewLosesChat, Waiting, Orphaned

LEMMA UserKeepsComposer ==
    ASSUME TypeInv, NEW s \in Slots, User(s)
    PROVE  OpensAgain
<1> USE DEF TypeInv, PageInv
<1>1. CASE SendCall(s)
    <2>1. Ready(Begin("send", activeChat))
        BY <1>1, BeginReady DEF SendCall, ScreenOK, Ops, TurnOps
    <2> QED
        BY <1>1, <2>1, ClickMoves DEF SendCall, Click, review
<1>2. CASE RegenerateCall(s)
    <2>1. Ready(Begin("regenerate", activeChat))
        BY <1>2, BeginReady DEF RegenerateCall, ScreenOK, Ops, TurnOps
    <2> QED
        BY <1>2, <2>1, ClickMoves DEF RegenerateCall, Click, review
<1>3. CASE EditCall(s)
    <2>1. slot[s] = Idle /\ UNCHANGED <<chats, sending, pendingAssisted>>
        BY <1>3 DEF EditCall, DeleteNext, DeleteMessage, Click, review
    <2>2. \E r : Put(s, r)
        BY <1>3 DEF EditCall, DeleteNext
    <2> QED
        BY <2>1, <2>2, OtherClickMoves
<1>4. CASE StageCall(s)
    <2>1. Ready(Begin("stage", activeChat))
        BY <1>4, BeginReady DEF StageCall, ScreenOK, Ops, TurnOps
    <2>2. slot'[s].pc \in TurnPCs /\ Others(s)
        BY <1>4, <2>1, PutQuestionMoves DEF StageCall, TurnPCs
    <2> QED
        BY <2>2, StepShape
<1>5. CASE ConfirmAssisted(s)
    <2> DEFINE b == [Begin("assisted", activeChat) EXCEPT
                         !.by = pendingAssisted.by, !.selected = TRUE, !.reviewed = TRUE]
    <2>1. pendingAssisted \in [chat : Chats, by : Nat] /\ pendingAssisted.chat = activeChat
        BY <1>5 DEF ConfirmAssisted, FlagsOK
    <2>2. Ready(Begin("assisted", activeChat))
        BY <2>1, BeginReady DEF Ops, TurnOps
    <2>3. Ready([b EXCEPT !.op = "assisted"])
        BY <2>1, <2>2 DEF Ready, Ops, TurnOps
    <2>4. List(s, [b EXCEPT !.op = "assisted"], "relisted")
        BY <1>5 DEF ConfirmAssisted, SendAssisted
    <2> HIDE DEF b
    <2>5. slot'[s].pc = "relisted" /\ Others(s)
        BY <2>3, <2>4, ListMoves
    <2> QED
        BY <2>5, StepShape DEF TurnPCs
<1>6. CASE SwitchCall(s)
    <2>1. slot[s] = Idle /\ UNCHANGED <<chats, sending, pendingAssisted>>
        BY <1>6 DEF SwitchCall, ActivateMessageVersion, Click, review
    <2> QED
        BY <1>6, <2>1, OtherClickMoves DEF SwitchCall
<1>7. CASE OpenCall(s)
    <2>1. slot[s] = Idle /\ UNCHANGED <<chats, sending, pendingAssisted>>
        BY <1>7 DEF OpenCall, Click, review, messageStore
    <2>2. \E r : Put(s, r)
        BY <1>7 DEF OpenCall, List
    <2> QED
        BY <2>1, <2>2, OtherClickMoves
<1>8. CASE RemoveCall(s)
    BY <1>8, RemoveCallKeepsComposer
<1> QED
    BY <1>1, <1>2, <1>3, <1>4, <1>5, <1>6, <1>7, <1>8 DEF User

LEMMA BesideKeepsComposer ==
    ASSUME CancelAssisted \/ FollowUp \/ FollowUpEnds
    PROVE  OpensAgain
<1>1. sending' = FALSE \/ UNCHANGED <<chats, sending, pendingAssisted, slot>>
    BY DEF CancelAssisted, FollowUp, FollowUpEnds, messageStore, review
<1>2. CASE sending' = FALSE
    BY <1>2 DEF OpensAgain, Shut
<1>3. CASE UNCHANGED <<chats, sending, pendingAssisted, slot>>
    <2>1. (\E s \in Slots : InTurn(s)) => \E s \in Slots : InTurn(s)'
        BY <1>3 DEF InTurn
    <2> QED
        BY <1>3, <2>1 DEF OpensAgain, Shut, Waiting
<1> QED
    BY <1>1, <1>2, <1>3

\* No order of clicks, answers, failures and deletions leaves the composer shut
\* with no turn running and no review to settle, but for the two the property
\* names: a staging that rejects, and a review whose chat is deleted.
THEOREM ComposerNeverSticks == Spec => NeverStuck
<1>1. TypeInv /\ [Next]_vars => [OpensAgain]_vars
    BY MethodStepKeepsComposer, UserKeepsComposer, BesideKeepsComposer DEF Next
<1> QED
    BY <1>1, InitTypes, StepTypes, PTL DEF Spec, NeverStuck, OpensAgain
-----------------------------------------------------------------------------
(***************************************************************************)
(* A request of the user is written once, posted once, and journalled.     *)
(* Each click numbers its request; the number travels with the turn from   *)
(* method to method, and through the review.  One method at most, or the   *)
(* review, has a number in hand (Apart), and its pc tells what it may have *)
(* written and posted under it (Owes).                                     *)
(***************************************************************************)
Busy(s) == slot[s].pc # "idle"

NoQuestion(b) == \A m \in Ids : messages[m].by = b => ~Question(m)
NoAnswer(b)   == \A m \in Ids : messages[m].by = b => Question(m)
NoPost(b)     == \A i \in DOMAIN egress : egress[i].by # b
Sent(b)       == \E i \in DOMAIN egress : egress[i].by = b

\* Awaits of a method that has written no question, and no answer and no post.
Fresh      == {"stopping", "deleted", "cleared", "activated", "shown", "removed"}
Unanswered == Fresh \cup {"asked", "retired", "relisted", "thinking"}

Owes(r) ==
    /\ r.pc \in Fresh => NoQuestion(r.by)
    /\ r.pc \in Unanswered \cup {"posted"} => NoAnswer(r.by)
    /\ r.pc \in Unanswered => NoPost(r.by)
    /\ r.pc = "posted" => Sent(r.by)

Apart ==
    /\ \A s \in Slots : Busy(s) => slot[s].by \in 1..calls
    /\ \A s, t \in Slots : Busy(s) /\ Busy(t) /\ slot[s].by = slot[t].by => s = t
    /\ pendingAssisted # None =>
          /\ pendingAssisted.by \in 1..calls
          /\ \A s \in Slots : Busy(s) => slot[s].by # pendingAssisted.by

Dated == /\ \A m \in Ids : messages[m].by \in 0..calls
         /\ \A i \in DOMAIN egress : egress[i].by \in 0..calls

Owing == /\ \A s \in Slots : Owes(slot[s])
         /\ pendingAssisted # None =>
               NoAnswer(pendingAssisted.by) /\ NoPost(pendingAssisted.by)

OnRecord ==
    /\ \A m \in Ids : messages[m].mode = "assisted" /\ messages[m].by # 0 => Sent(messages[m].by)
    /\ \A m \in journal : messages[m].mode = "assisted"

ExchangeInv == Apart /\ Dated /\ Owing /\ OnRecord
               /\ OneExchangePerRequest /\ CloudAnswersAreJournalled

\* What a step of s does to who has which request in hand.
Continues(s) == /\ Busy(s) /\ Busy(s)' /\ slot'[s].by = slot[s].by
                /\ UNCHANGED calls /\ pendingAssisted' \in {pendingAssisted, None}
Ends(s)   == /\ ~Busy(s)' /\ calls' \in {calls, calls + 1}
             /\ pendingAssisted' \in {pendingAssisted, None}
Waits(s)  == /\ Busy(s) /\ slot[s].pc \in Unanswered /\ ~Busy(s)' /\ UNCHANGED calls
             /\ pendingAssisted' # None /\ pendingAssisted'.by = slot[s].by
Begins(s) == /\ ~Busy(s) /\ Busy(s)' /\ slot'[s].by = calls + 1 /\ calls' = calls + 1
             /\ UNCHANGED pendingAssisted
Resumes(s) == /\ ~Busy(s) /\ Busy(s)' /\ pendingAssisted # None /\ pendingAssisted' = None
              /\ slot'[s].by = pendingAssisted.by /\ UNCHANGED calls
Moves(s) == Others(s) /\ (Continues(s) \/ Ends(s) \/ Waits(s) \/ Begins(s) \/ Resumes(s))

\* What it does to the rows, the posts and the journal: what there was keeps its
\* mode and its request, and what is new is the method's.
RowsKept == /\ Ids \subseteq Ids'
            /\ \A m \in Ids : /\ messages'[m].mode = messages[m].mode
                              /\ messages'[m].by = messages[m].by
                              /\ Live(m)' => Live(m)
RowsOf(b, modes) == \A m \in Ids' \ Ids :
    m = NextId /\ messages'[m].by = b /\ messages'[m].mode \in modes
PostsOf(b) == /\ DOMAIN egress \subseteq DOMAIN egress'
              /\ \A i \in DOMAIN egress : egress'[i] = egress[i]
              /\ \A i \in DOMAIN egress' \ DOMAIN egress :
                    i = Len(egress) + 1 /\ egress'[i].by = b
JournalOf(s) == /\ journal \subseteq journal'
                /\ \A m \in journal' \ journal : m \in Ids /\ messages[m].mode = "assisted"

LEMMA MovesKeepApart ==
    ASSUME CallsOK, Apart, NEW s \in Slots, Moves(s)
    PROVE  Apart'
<1>1. calls \in Nat
    BY ConversationAssumption DEF CallsOK
<1> USE DEF Apart, Busy, Others
<1>2. CASE Continues(s)
    BY <1>1, <1>2 DEF Continues, Moves
<1>3. CASE Ends(s)
    BY <1>1, <1>3 DEF Ends, Moves
<1>4. CASE Waits(s)
    BY <1>1, <1>4 DEF Waits, Moves
<1>5. CASE Begins(s)
    BY <1>1, <1>5 DEF Begins, Moves
<1>6. CASE Resumes(s)
    BY <1>1, <1>6 DEF Resumes, Moves
<1> QED
    BY <1>2, <1>3, <1>4, <1>5, <1>6 DEF Moves

\* A request that writes and posts nothing in a step has written and posted the
\* same after it.
LEMMA RequestsKept ==
    ASSUME NEW b, NEW c, NEW modes, RowsKept, RowsOf(c, modes), PostsOf(c), c # b
    PROVE  /\ NoQuestion(b) => NoQuestion(b)'
           /\ NoAnswer(b) => NoAnswer(b)'
           /\ NoPost(b) => NoPost(b)'
           /\ Sent(b) => Sent(b)'
BY DEF RowsKept, RowsOf, PostsOf, NoQuestion, NoAnswer, NoPost, Sent, Question

LEMMA NothingWritten ==
    ASSUME NEW b, RowsKept, Ids' = Ids, UNCHANGED egress
    PROVE  /\ NoQuestion(b) => NoQuestion(b)'
           /\ NoAnswer(b) => NoAnswer(b)'
           /\ NoPost(b) => NoPost(b)'
           /\ Sent(b) => Sent(b)'
BY DEF RowsKept, NoQuestion, NoAnswer, NoPost, Sent, Question

\* All that a step of s may add: rows of given modes, a post, a journal row.
Writes(s, modes) ==
    /\ RowsKept /\ RowsOf(slot'[s].by, modes) /\ PostsOf(slot'[s].by) /\ JournalOf(s)
    /\ ~Busy(s)' => Ids' = Ids /\ UNCHANGED egress
    /\ "question" \in modes => NoQuestion(slot'[s].by)
    /\ modes \subseteq {"question"} \/ NoAnswer(slot'[s].by)
    /\ egress' = egress \/ NoPost(slot'[s].by)
    /\ "assisted" \in modes =>
          Sent(slot'[s].by) /\ slot'[s].pc = "written" /\ slot'[s].answer = NextId
    /\ slot[s].pc = "written" =>
          \/ slot[s].answer \in journal' \/ messages'[slot[s].answer].state = "gone"
          \/ messages[slot[s].answer].mode # "assisted"

LEMMA PostsAreSequences == EgressOK => DOMAIN egress = 1..Len(egress) /\ Len(egress) \in Nat
BY DEF EgressOK

LEMMA StepKeepsExchange ==
    ASSUME TypeInv, ExchangeInv, NEW s \in Slots, NEW modes,
           Moves(s), Writes(s, modes), Owes(slot[s])'
    PROVE  ExchangeInv'
<1> DEFINE b == slot'[s].by
<1>0. Apart /\ Dated /\ Owing /\ OnRecord /\ OneExchangePerRequest /\ CloudAnswersAreJournalled
    BY DEF ExchangeInv
<1>1. Apart'
    BY <1>0, MovesKeepApart DEF TypeInv, PageInv
<1>2. calls \in Nat /\ calls' \in Nat /\ calls <= calls'
    BY ConversationAssumption DEF TypeInv, PageInv, CallsOK, Moves, Continues, Ends, Waits, Begins,
       Resumes
<1>3. Busy(s)' => b \in 1..calls'
    BY <1>1 DEF Apart, Busy
<1>4. RowsKept /\ RowsOf(b, modes) /\ PostsOf(b) /\ JournalOf(s)
    BY DEF Writes
<1>5. Dated'
    <2>1. \A m \in Ids' : messages'[m].by \in 0..calls'
        BY <1>0, <1>2, <1>3, <1>4 DEF Dated, RowsKept, RowsOf, Writes
    <2>2. \A i \in DOMAIN egress' : egress'[i].by \in 0..calls'
        BY <1>0, <1>2, <1>3, <1>4 DEF Dated, PostsOf, Writes
    <2> QED
        BY <2>1, <2>2 DEF Dated
<1>6. ASSUME NEW c, Busy(s)' => b # c
      PROVE  /\ NoQuestion(c) => NoQuestion(c)'
             /\ NoAnswer(c) => NoAnswer(c)'
             /\ NoPost(c) => NoPost(c)'
             /\ Sent(c) => Sent(c)'
    BY <1>4, <1>6, RequestsKept, NothingWritten DEF Writes
<1>7. Owing'
    <2>1. ASSUME NEW t \in Slots, t # s PROVE Owes(slot[t])'
        <3>1. slot'[t] = slot[t] /\ Owes(slot[t])
            BY <1>0, <2>1 DEF Moves, Others, Owing
        <3>2. CASE Busy(t)
            <4>1. Busy(s)' => b # slot[t].by
                BY <1>1, <2>1, <3>1, <3>2 DEF Apart, Busy
            <4> QED
                BY <1>6, <3>1, <4>1 DEF Owes, NoQuestion, NoAnswer, NoPost, Sent
        <3>3. CASE ~Busy(t)
            BY <3>1, <3>3 DEF Busy, Owes, Fresh, Unanswered
        <3> QED
            BY <3>2, <3>3
    <2>2. ASSUME pendingAssisted' # None
          PROVE  (NoAnswer(pendingAssisted.by) /\ NoPost(pendingAssisted.by))'
        <3>1. Busy(s)' => b # pendingAssisted'.by
            BY <1>1, <2>2 DEF Apart, Busy
        <3>2. NoAnswer(pendingAssisted'.by) /\ NoPost(pendingAssisted'.by)
            <4>1. CASE pendingAssisted' = pendingAssisted
                BY <1>0, <2>2, <4>1 DEF Owing
            <4>2. CASE pendingAssisted' # pendingAssisted
                <5>1. Waits(s) /\ Owes(slot[s])
                    BY <1>0, <2>2, <4>2
                    DEF Owing, Moves, Continues, Ends, Begins, Resumes
                <5> QED
                    BY <5>1 DEF Waits, Owes
            <4> QED
                BY <4>1, <4>2
        <3> QED
            BY <1>6, <3>1, <3>2 DEF NoAnswer, NoPost
    <2> QED
        BY <2>1, <2>2 DEF Owing
<1>8. \A c : Sent(c) => \E i \in DOMAIN egress' : egress'[i].by = c
    BY <1>4 DEF PostsOf, Sent
<1>9. OnRecord'
    <2>1. ASSUME NEW m \in Ids', messages'[m].mode = "assisted", messages'[m].by # 0
          PROVE  Sent(messages[m].by)'
        <3>1. CASE m \in Ids
            BY <1>0, <1>4, <1>8, <2>1, <3>1 DEF OnRecord, RowsKept, Sent
        <3>2. CASE m \notin Ids
            BY <1>4, <1>8, <2>1, <3>2 DEF RowsOf, Writes, Sent
        <3> QED
            BY <3>1, <3>2
    <2>2. ASSUME NEW m \in journal' PROVE messages'[m].mode = "assisted"
        <3>1. m \in Ids /\ messages[m].mode = "assisted"
            BY <1>0, <1>4, <2>2 DEF OnRecord, JournalOf, TypeInv, StoreInv
        <3> QED
            BY <1>4, <3>1 DEF RowsKept
    <2> QED
        BY <2>1, <2>2 DEF OnRecord
<1>10. OneExchangePerRequest'
    <2>1. ASSUME NEW m \in Ids', NEW n \in Ids', messages'[m].by # 0,
                 messages'[m].by = messages'[n].by, Question(m)' <=> Question(n)'
          PROVE  m = n
        <3>1. ASSUME NEW x \in Ids, NEW y \in Ids', y \notin Ids, messages'[x].by = messages'[y].by,
                     Question(x)' <=> Question(y)'
              PROVE  FALSE
            <4>1. y = NextId /\ messages'[y].by = b /\ messages'[y].mode \in modes
                BY <1>4, <3>1 DEF RowsOf
            <4>2. messages[x].by = b /\ (Question(x) <=> Question(x)')
                BY <1>4, <3>1, <4>1 DEF RowsKept, Question
            <4>3. CASE Question(y)'
                BY <3>1, <4>1, <4>2, <4>3 DEF Writes, Question, NoQuestion
            <4>4. CASE ~Question(y)'
                BY <3>1, <4>1, <4>2, <4>4 DEF Writes, Question, NoAnswer
            <4> QED
                BY <4>3, <4>4
        <3>2. CASE m \in Ids /\ n \in Ids
            BY <1>0, <1>4, <2>1, <3>2 DEF OneExchangePerRequest, RowsKept, Question
        <3>3. CASE m \notin Ids /\ n \notin Ids
            BY <1>4, <3>3 DEF RowsOf
        <3> QED
            BY <2>1, <3>1, <3>2, <3>3
    <2>2. ASSUME NEW i \in DOMAIN egress', NEW j \in DOMAIN egress', egress'[i].by = egress'[j].by
          PROVE  i = j
        <3>1. ASSUME NEW x \in DOMAIN egress, NEW y \in DOMAIN egress', y \notin DOMAIN egress,
                     egress'[x].by = egress'[y].by
              PROVE  FALSE
            <4>1. egress'[y].by = b /\ egress[x].by = b
                BY <1>4, <3>1 DEF PostsOf
            <4> QED
                BY <3>1, <4>1 DEF Writes, NoPost
        <3>2. CASE i \in DOMAIN egress /\ j \in DOMAIN egress
            BY <1>0, <1>4, <2>2, <3>2 DEF OneExchangePerRequest, PostsOf
        <3>3. CASE i \notin DOMAIN egress /\ j \notin DOMAIN egress
            BY <1>4, <3>3 DEF PostsOf
        <3> QED
            BY <2>2, <3>1, <3>2, <3>3
    <2> QED
        BY <2>1, <2>2 DEF OneExchangePerRequest
<1>11. CloudAnswersAreJournalled'
    <2>1. ASSUME NEW m \in Ids', messages'[m].mode = "assisted", Live(m)', m \notin journal'
          PROVE  \E t \in Slots : slot'[t].pc = "written" /\ slot'[t].answer = m
        <3>1. CASE m \in Ids
            <4>1. messages[m].mode = "assisted" /\ Live(m) /\ m \notin journal
                BY <1>4, <2>1, <3>1 DEF RowsKept, JournalOf
            <4>2. PICK t \in Slots : slot[t].pc = "written" /\ slot[t].answer = m
                BY <1>0, <3>1, <4>1 DEF CloudAnswersAreJournalled
            <4>3. t # s
                BY <2>1, <4>1, <4>2 DEF Writes, Live
            <4> QED
                BY <4>2, <4>3 DEF Moves, Others
        <3>2. CASE m \notin Ids
            BY <1>4, <2>1, <3>2 DEF RowsOf, Writes
        <3> QED
            BY <3>1, <3>2
    <2>2. ASSUME NEW m \in Ids', m \in journal', messages'[m].by # 0
          PROVE  \E i \in DOMAIN egress' : egress'[i].by = messages'[m].by
        BY <1>9, <2>2 DEF OnRecord, Sent
    <2> QED
        BY <2>1, <2>2 DEF CloudAnswersAreJournalled
<1> QED
    BY <1>1, <1>5, <1>7, <1>9, <1>10, <1>11 DEF ExchangeInv

LEMMA RowsStay ==
    ASSUME StoreInv,
           \/ UNCHANGED messageStore
           \/ \E m : DeleteMessage(m)
           \/ \E m \in Ids : \E g : RetireMessage(m, g)
           \/ \E m, g : ActivateMessageVersion(g, m)
           \/ \E c : DeleteChat(c)
    PROVE  RowsKept /\ Ids' = Ids /\ UNCHANGED journal
<1> USE RowTypes DEF RowsKept, Ids, Live, Row
<1>1. CASE UNCHANGED messageStore
    BY <1>1 DEF messageStore
<1>2. ASSUME NEW ms, messages' = SetState(ms, "gone"), UNCHANGED journal
      PROVE  RowsKept /\ Ids' = Ids /\ UNCHANGED journal
    BY <1>2 DEF SetState
<1>3. CASE (\E m : DeleteMessage(m)) \/ (\E c : DeleteChat(c))
    BY <1>2, <1>3 DEF DeleteMessage, DeleteChat
<1>4. ASSUME NEW m \in Ids, NEW g, RetireMessage(m, g)
      PROVE  RowsKept /\ Ids' = Ids /\ UNCHANGED journal
    BY <1>4 DEF RetireMessage
<1>5. ASSUME NEW m, NEW g, ActivateMessageVersion(g, m)
      PROVE  RowsKept /\ Ids' = Ids /\ UNCHANGED journal
    BY <1>5 DEF ActivateMessageVersion, Versions
<1> QED
    BY <1>1, <1>3, <1>4, <1>5

LEMMA RowInserted ==
    ASSUME StoreInv, NEW c, NEW mode, NEW g, NEW by, InsertMessage(c, mode, g, by)
    PROVE  RowsKept /\ RowsOf(by, {mode}) /\ UNCHANGED journal
<1> DEFINE row == [chat |-> c, mode |-> mode, group |-> g, state |-> "active", by |-> by]
<1>1. row.mode = mode /\ row.by = by
    OBVIOUS
<1>2. messages' = Append(messages, row) /\ UNCHANGED journal
    BY DEF InsertMessage
<1> HIDE DEF row
<1>3. Len(messages) \in Nat /\ Ids = 1..Len(messages)
    BY DEF StoreInv, Ids
<1>4. /\ Ids' = 1..(Len(messages) + 1)
      /\ \A m \in Ids : messages'[m] = messages[m]
      /\ messages'[Len(messages) + 1] = row
    BY <1>2, <1>3, AppendProperties DEF Ids
<1> QED
    BY <1>1, <1>2, <1>3, <1>4 DEF RowsKept, RowsOf, NextId, Live

\* A click's number is new.
LEMMA FreshRequest ==
    ASSUME CallsOK, Dated
    PROVE  NoQuestion(calls + 1) /\ NoAnswer(calls + 1) /\ NoPost(calls + 1)
BY ConversationAssumption DEF CallsOK, Dated, NoQuestion, NoAnswer, NoPost

\* A step that adds no row, no post and no journal row, of a method that has not
\* just written, owes afterwards no more than before.
Later(p, q) == /\ q \in Fresh => p \in Fresh
               /\ q \in Unanswered => p \in Unanswered
               /\ q # "posted"

LEMMA QuietStep ==
    ASSUME TypeInv, ExchangeInv, NEW s \in Slots, Moves(s),
           RowsKept, Ids' = Ids, UNCHANGED egress, UNCHANGED journal,
           slot[s].pc = "written" => messages'[slot[s].answer].state = "gone",
           \/ slot'[s].pc \notin Unanswered \cup {"posted"}
           \/ Continues(s) /\ Later(slot[s].pc, slot'[s].pc)
           \/ Begins(s) /\ slot'[s].pc # "posted"
           \/ Resumes(s) /\ slot'[s].pc = "relisted"
    PROVE  ExchangeInv'
<1>1. Writes(s, {})
    BY DEF Writes, RowsOf, PostsOf, JournalOf
<1>2. Owes(slot[s])'
    <2>1. CASE slot'[s].pc \notin Unanswered \cup {"posted"}
        BY <2>1 DEF Owes, Unanswered
    <2>2. \A c : /\ NoQuestion(c) => NoQuestion(c)'
                 /\ NoAnswer(c) => NoAnswer(c)'
                 /\ NoPost(c) => NoPost(c)'
        BY NothingWritten
    <2>3. CASE Continues(s) /\ Later(slot[s].pc, slot'[s].pc)
        <3>1. Owes(slot[s]) /\ slot[s].by = slot'[s].by
            BY <2>3 DEF Continues, ExchangeInv, Owing
        <3> QED
            BY <2>2, <2>3, <3>1 DEF Owes, Later, Unanswered, NoQuestion, NoAnswer, NoPost
    <2>4. CASE Begins(s) /\ slot'[s].pc # "posted"
        <3>1. NoQuestion(slot'[s].by) /\ NoAnswer(slot'[s].by) /\ NoPost(slot'[s].by)
            BY <2>4, FreshRequest DEF Begins, TypeInv, PageInv, ExchangeInv
        <3> QED
            BY <2>2, <2>4, <3>1 DEF Owes, NoQuestion, NoAnswer, NoPost
    <2>5. CASE Resumes(s) /\ slot'[s].pc = "relisted"
        <3>1. NoAnswer(slot'[s].by) /\ NoPost(slot'[s].by)
            BY <2>5 DEF Resumes, ExchangeInv, Owing
        <3> QED
            BY <2>2, <2>5, <3>1 DEF Owes, Fresh, NoAnswer, NoPost
    <2> QED
        BY <2>1, <2>3, <2>4, <2>5
<1> QED
    BY <1>1, <1>2, StepKeepsExchange

\* An answer is written by a method that has none, and a cloud answer by one
\* that has posted.
LEMMA WriteStep ==
    ASSUME TypeInv, ExchangeInv, NEW s \in Slots, NEW mode \in Answers, Write(s, mode),
           slot[s].pc \in {"thinking", "relisted", "posted"},
           mode = "assisted" => slot[s].pc = "posted",
           UNCHANGED <<pendingAssisted, calls, egress>>
    PROVE  ExchangeInv'
<1>1. slot[s].pc \in PCs /\ MethodOK(slot[s], Ids)
    BY Running DEF PCs, TurnPCs, TypeInv
<1>2. Owes(slot[s])
    BY DEF ExchangeInv, Owing
<1>3. CASE CanInsert(slot[s].chat)
    <2> DEFINE q == [slot[s] EXCEPT !.pc = "written", !.answer = NextId]
    <2>1. q.pc = "written" /\ q.by = slot[s].by /\ q.answer = NextId
        BY <1>1 DEF MethodOK, MethodOf
    <2>2. Put(s, q) /\ InsertMessage(slot[s].chat, mode, slot[s].group, slot[s].by)
        BY <1>3 DEF Write
    <2> HIDE DEF q
    <2>3. slot'[s] = q /\ Others(s)
        BY <2>2, PutMoves DEF TypeInv
    <2>4. RowsKept /\ RowsOf(slot[s].by, {mode}) /\ UNCHANGED journal
        BY <2>2, RowInserted DEF TypeInv
    <2>5. Moves(s)
        BY <2>1, <2>3 DEF Moves, Continues, Busy
    <2>6. Writes(s, {mode})
        <3>1. NoAnswer(slot[s].by) /\ (slot[s].pc = "posted" => Sent(slot[s].by))
            BY <1>2 DEF Owes, Unanswered
        <3> QED
            BY <2>1, <2>3, <2>4, <3>1 DEF Writes, PostsOf, JournalOf, Busy, Answers
    <2>7. Owes(slot[s])'
        BY <2>1, <2>3 DEF Owes, Unanswered, Fresh
    <2> QED
        BY <2>5, <2>6, <2>7, StepKeepsExchange
<1>4. CASE ~CanInsert(slot[s].chat)
    <2>1. Goto(s, "failed") /\ UNCHANGED messageStore
        BY <1>4 DEF Write
    <2>2. slot'[s].pc = "failed" /\ slot'[s].by = slot[s].by /\ Others(s)
        BY <1>1, <2>1, GotoMoves DEF TypeInv
    <2>3. RowsKept /\ Ids' = Ids /\ UNCHANGED journal
        BY <2>1, RowsStay DEF TypeInv
    <2>4. Moves(s)
        BY <2>2 DEF Moves, Continues, Busy
    <2>5. slot'[s].pc \notin Unanswered \cup {"posted"}
        BY <2>2 DEF Unanswered, Fresh
    <2> QED
        BY <2>3, <2>4, <2>5, QuietStep
<1> QED
    BY <1>3, <1>4

\* A turn begins with a click, or goes on from an await before it.
Turns(s, r) ==
    /\ Ready(r)
    /\ UNCHANGED <<pendingAssisted, egress>>
    /\ \/ slot[s].pc \in Fresh /\ r.by = slot[s].by /\ UNCHANGED calls
       \/ slot[s] = Idle /\ r.by = calls + 1 /\ calls' = calls + 1

LEMMA TurnsMove ==
    ASSUME NEW s \in Slots, NEW r, Turns(s, r), Others(s)
    PROVE  /\ Busy(s)' /\ slot'[s].by = r.by => Moves(s) /\ (Continues(s) \/ Begins(s))
           /\ ~Busy(s)' => Moves(s)
           /\ slot[s].pc # "written" /\ (Continues(s) => slot[s].pc \in Fresh)
BY DEF Turns, Moves, Continues, Begins, Ends, Busy, Idle, Fresh

LEMMA PutQuestionStep ==
    ASSUME TypeInv, ExchangeInv, NEW s \in Slots, NEW r, Turns(s, r), PutQuestion(s, r)
    PROVE  ExchangeInv'
<1>1. Ready(r)
    BY DEF Turns
<1>2. CASE CanInsert(r.chat)
    <2> DEFINE q == [r EXCEPT !.pc = "asked"]
    <2>1. q.pc = "asked" /\ q.by = r.by
        BY <1>1 DEF Ready
    <2>2. Put(s, q) /\ InsertMessage(r.chat, "question", 0, r.by)
        BY <1>2 DEF PutQuestion
    <2> HIDE DEF q
    <2>3. slot'[s] = q /\ Others(s)
        BY <2>2, PutMoves DEF TypeInv
    <2>4. RowsKept /\ RowsOf(r.by, {"question"}) /\ UNCHANGED journal
        BY <2>2, RowInserted DEF TypeInv
    <2>5. Moves(s) /\ slot[s].pc # "written"
        BY <2>1, <2>3, TurnsMove DEF Busy
    <2>6. NoQuestion(r.by) /\ NoAnswer(r.by) /\ NoPost(r.by)
        <3>1. CASE slot[s].pc \in Fresh /\ r.by = slot[s].by
            BY <3>1 DEF ExchangeInv, Owing, Owes, Unanswered
        <3>2. CASE r.by = calls + 1
            BY <3>2, FreshRequest DEF TypeInv, PageInv, ExchangeInv
        <3> QED
            BY <3>1, <3>2 DEF Turns
    <2>7. Writes(s, {"question"})
        BY <2>1, <2>3, <2>4, <2>5, <2>6 DEF Writes, PostsOf, JournalOf, Busy, Turns
    <2>8. Owes(slot[s])'
        <3>1. (NoAnswer(r.by))'
            BY <2>1, <2>3, <2>4, <2>6 DEF RowsKept, RowsOf, NoAnswer, Question
        <3>2. (NoPost(r.by))'
            BY <2>6 DEF NoPost, Turns
        <3> QED
            BY <2>1, <2>3, <3>1, <3>2 DEF Owes, Fresh, NoAnswer, NoPost
    <2> QED
        BY <2>5, <2>7, <2>8, StepKeepsExchange
<1>3. CASE ~CanInsert(r.chat)
    <2> DEFINE q == [r EXCEPT !.pc = "failed"]
    <2>1. q.pc = "failed" /\ q.by = r.by
        BY <1>1 DEF Ready
    <2>2. Put(s, q) /\ UNCHANGED messageStore
        BY <1>3 DEF PutQuestion
    <2> HIDE DEF q
    <2>3. slot'[s] = q /\ Others(s)
        BY <2>2, PutMoves DEF TypeInv
    <2>4. RowsKept /\ Ids' = Ids /\ UNCHANGED journal
        BY <2>2, RowsStay DEF TypeInv
    <2>5. Moves(s) /\ slot[s].pc # "written"
        BY <2>1, <2>3, TurnsMove DEF Busy
    <2>6. slot'[s].pc \notin Unanswered \cup {"posted"}
        BY <2>1, <2>3 DEF Unanswered, Fresh
    <2> QED
        BY <2>4, <2>5, <2>6, QuietStep DEF Turns
<1> QED
    BY <1>2, <1>3

LEMMA RetireLastStep ==
    ASSUME TypeInv, ExchangeInv, NEW s \in Slots, NEW r, Turns(s, r), RetireLast(s, r)
    PROVE  ExchangeInv'
<1>1. Ready(r)
    BY DEF Turns
<1>2. CASE LastIs(shown, Answers)
    <2>1. PICK m \in shown : RetireMessage(m, GroupOf(m)) /\
              Put(s, [r EXCEPT !.pc = "retired", !.group = GroupOf(m)])
        BY <1>2 DEF RetireLast
    <2> DEFINE q == [r EXCEPT !.pc = "retired", !.group = GroupOf(m)]
    <2>2. q.pc = "retired" /\ q.by = r.by
        BY <1>1 DEF Ready
    <2>3. Put(s, q)
        BY <2>1
    <2> HIDE DEF q
    <2>4. slot'[s] = q /\ Others(s)
        BY <2>3, PutMoves DEF TypeInv
    <2>5. m \in Ids
        BY DEF TypeInv, PageInv, ScreenOK
    <2>6. RowsKept /\ Ids' = Ids /\ UNCHANGED journal
        BY <2>1, <2>5, RowsStay DEF TypeInv
    <2>7. Moves(s) /\ slot[s].pc # "written" /\ (Continues(s) \/ Begins(s))
        BY <2>2, <2>4, TurnsMove DEF Busy
    <2>8. Continues(s) => Later(slot[s].pc, slot'[s].pc)
        BY <2>2, <2>4, TurnsMove DEF Later, Unanswered, Fresh
    <2> QED
        BY <2>2, <2>4, <2>6, <2>7, <2>8, QuietStep DEF Turns
<1>3. CASE ~LastIs(shown, Answers)
    <2>1. Return(s) /\ UNCHANGED messageStore
        BY <1>3 DEF RetireLast
    <2>2. slot'[s] = Idle /\ Others(s)
        BY <2>1, ReturnMoves DEF TypeInv
    <2>3. RowsKept /\ Ids' = Ids /\ UNCHANGED journal
        BY <2>1, RowsStay DEF TypeInv
    <2>4. Moves(s) /\ slot[s].pc # "written"
        BY <2>2, TurnsMove DEF Busy, Idle
    <2>5. slot'[s].pc \notin Unanswered \cup {"posted"}
        BY <2>2 DEF Unanswered, Fresh, Idle
    <2> QED
        BY <2>3, <2>4, <2>5, QuietStep DEF Turns
<1> QED
    BY <1>2, <1>3

LEMMA EnterStep ==
    ASSUME TypeInv, ExchangeInv, NEW s \in Slots, NEW r, Turns(s, r), Enter(s, r)
    PROVE  ExchangeInv'
<1>1. CASE Put(s, [r EXCEPT !.pc = "stopping"]) /\ UNCHANGED <<messageStore, sending>>
    <2> DEFINE q == [r EXCEPT !.pc = "stopping"]
    <2>1. q.pc = "stopping" /\ q.by = r.by /\ Put(s, q)
        BY <1>1 DEF Ready, Turns
    <2> HIDE DEF q
    <2>2. slot'[s] = q /\ Others(s)
        BY <2>1, PutMoves DEF TypeInv
    <2>3. RowsKept /\ Ids' = Ids /\ UNCHANGED journal
        BY <1>1, RowsStay DEF TypeInv
    <2>4. Moves(s) /\ slot[s].pc # "written" /\ (Continues(s) \/ Begins(s))
        BY <2>1, <2>2, TurnsMove DEF Busy
    <2>5. Continues(s) => Later(slot[s].pc, slot'[s].pc)
        BY <2>1, <2>2, TurnsMove DEF Later, Unanswered, Fresh
    <2> QED
        BY <2>1, <2>2, <2>3, <2>4, <2>5, QuietStep DEF Turns
<1> QED
    BY <1>1, PutQuestionStep, RetireLastStep DEF Enter, Turn

LEMMA WrittenStep ==
    ASSUME TypeInv, ExchangeInv, NEW s \in Slots, Written(s)
    PROVE  ExchangeInv'
<1>1. slot[s].pc = "written" /\ slot[s].pc \in PCs /\ Ready(slot[s])
    BY RunningReady DEF Written, Reply, PCs, TurnPCs, TypeInv
<1>2. slot[s].answer \in Ids
    BY <1>1, Running DEF TypeInv, MethodOK
<1>3. PICK pc \in {"recorded", "listed", "failed"} : Goto(s, pc) \/ List(s, slot[s], pc)
    BY DEF Written
<1>4. slot'[s].pc = pc /\ slot'[s].by = slot[s].by /\ Others(s)
    BY <1>1, <1>3, GotoMoves, ListMoves DEF TypeInv
<1>5. UNCHANGED <<messages, egress, pendingAssisted, calls>>
    BY DEF Written, InsertPrivacyEvent, messageStore, review
<1>6. RowsKept /\ Ids' = Ids
    BY <1>5 DEF RowsKept, Ids, Live
<1>7. Moves(s)
    BY <1>1, <1>4, <1>5 DEF Moves, Continues, Busy
<1>8. /\ journal \subseteq journal'
      /\ \A m \in journal' \ journal : m = slot[s].answer /\ messages[m].mode = "assisted"
      /\ \/ slot[s].answer \in journal' \/ messages[slot[s].answer].mode # "assisted"
         \/ messages[slot[s].answer].state = "gone"
    BY DEF Written, InsertPrivacyEvent, messageStore, Live
<1>9. Writes(s, {})
    BY <1>2, <1>5, <1>6, <1>8 DEF Writes, RowsOf, PostsOf, JournalOf
<1>10. Owes(slot[s])'
    BY <1>4 DEF Owes, Unanswered, Fresh
<1> QED
    BY <1>7, <1>9, <1>10, StepKeepsExchange

LEMMA PostStep ==
    ASSUME TypeInv, ExchangeInv, NEW s \in Slots, PostAssisted(s)
    PROVE  ExchangeInv'
<1>1. slot[s].pc = "relisted" /\ slot[s].pc \in PCs
    BY DEF PostAssisted, Reply, PCs, TurnPCs
<1>2. slot'[s].pc = "posted" /\ slot'[s].by = slot[s].by /\ Others(s)
    BY <1>1, GotoMoves DEF PostAssisted, TypeInv
<1>3. UNCHANGED <<pendingAssisted, calls>> /\ UNCHANGED messageStore
    BY DEF PostAssisted, review
<1>4. RowsKept /\ Ids' = Ids /\ UNCHANGED journal
    BY <1>3, RowsStay DEF TypeInv
<1>5. Moves(s)
    BY <1>1, <1>2, <1>3 DEF Moves, Continues, Busy
<1>6. NoAnswer(slot[s].by) /\ NoPost(slot[s].by)
    BY <1>1 DEF ExchangeInv, Owing, Owes, Unanswered
<1>7. PostsOf(slot[s].by) /\ Len(egress) + 1 \in DOMAIN egress'
      /\ egress'[Len(egress) + 1].by = slot[s].by
    <2> DEFINE p == [chat |-> slot[s].chat, by |-> slot[s].by, reviewed |-> slot[s].reviewed]
    <2>1. p.by = slot[s].by
        OBVIOUS
    <2>2. egress' = Append(egress, p)
        BY DEF PostAssisted
    <2> HIDE DEF p
    <2>3. Len(egress) \in Nat /\ DOMAIN egress = 1..Len(egress)
        BY PostsAreSequences DEF TypeInv, PageInv
    <2>4. /\ DOMAIN egress' = 1..(Len(egress) + 1)
          /\ \A i \in DOMAIN egress : egress'[i] = egress[i]
          /\ egress'[Len(egress) + 1] = p
        BY <2>2, <2>3, AppendProperties DEF TypeInv, PageInv, EgressOK
    <2> QED
        BY <2>1, <2>3, <2>4 DEF PostsOf
<1>8. Writes(s, {})
    BY <1>1, <1>2, <1>4, <1>6, <1>7 DEF Writes, RowsOf, JournalOf, Busy
<1>9. Owes(slot[s])'
    <2>1. (NoAnswer(slot[s].by))'
        BY <1>2, <1>4, <1>6 DEF RowsKept, NoAnswer, Question
    <2>2. (Sent(slot[s].by))'
        BY <1>2, <1>7 DEF Sent
    <2> QED
        BY <1>2, <2>1, <2>2 DEF Owes, Unanswered, Fresh
<1> QED
    BY <1>5, <1>8, <1>9, StepKeepsExchange

\* One more step of editLast: the last of the rows to delete goes.
LEMMA DeleteNextMoves ==
    ASSUME TypeInv, NEW s \in Slots, NEW r, Ready(r), DeleteNext(s, r)
    PROVE  /\ slot'[s].pc = "deleted" /\ slot'[s].by = r.by /\ Others(s)
           /\ RowsKept /\ Ids' = Ids /\ UNCHANGED journal
<1>1. PICK m \in r.todo : DeleteMessage(m)
          /\ Put(s, [r EXCEPT !.pc = "deleted", !.todo = @ \ {m}])
    BY DEF DeleteNext
<1> DEFINE q == [r EXCEPT !.pc = "deleted", !.todo = @ \ {m}]
<1>2. q.pc = "deleted" /\ q.by = r.by
    BY DEF Ready
<1>3. Put(s, q)
    BY <1>1
<1> HIDE DEF q
<1> QED
    BY <1>1, <1>2, <1>3, PutMoves, RowsStay DEF TypeInv

LEMMA MethodStepKeepsExchange ==
    ASSUME TypeInv, ExchangeInv, NEW s \in Slots, Step(s)
    PROVE  ExchangeInv'
<1> slot[s].pc \in PCs => Ready(slot[s])
    BY RunningReady DEF TypeInv
<1>0. UNCHANGED messageStore => RowsKept /\ Ids' = Ids /\ UNCHANGED journal
    BY RowsStay DEF TypeInv
\* A step that goes on to another await, the tables unchanged.
<1>15. ASSUME NEW r, Ready(r), NEW pc, List(s, r, pc), UNCHANGED messageStore,
             UNCHANGED <<egress, calls>>, pendingAssisted' \in {pendingAssisted, None},
             slot[s].pc \in PCs \ {"written"}, r.by = slot[s].by, pc # "idle",
             \/ Later(slot[s].pc, pc) \/ pc \notin Unanswered \cup {"posted"}
      PROVE  ExchangeInv'
    <2>1. slot'[s].pc = pc /\ slot'[s].by = slot[s].by /\ Others(s)
        BY <1>15, ListMoves DEF TypeInv
    <2>2. Moves(s) /\ Continues(s)
        BY <1>15, <2>1 DEF Moves, Continues, Busy, PCs, TurnPCs
    <2> QED
        BY <1>0, <1>15, <2>1, <2>2, QuietStep
\* A step that ends its method, the tables unchanged.
<1>16. ASSUME Return(s), UNCHANGED messageStore, UNCHANGED <<egress, calls, pendingAssisted>>,
             slot[s].pc # "written"
      PROVE  ExchangeInv'
    <2>1. slot'[s] = Idle /\ Others(s)
        BY <1>16, ReturnMoves DEF TypeInv
    <2>2. Moves(s)
        BY <1>16, <2>1 DEF Moves, Ends, Busy, Idle
    <2>3. slot'[s].pc \notin Unanswered \cup {"posted"}
        BY <2>1 DEF Unanswered, Fresh, Idle
    <2> QED
        BY <1>0, <1>16, <2>2, <2>3, QuietStep
<1>1. CASE Stopped(s)
    <2>1. Turns(s, slot[s])
        BY <1>1 DEF Stopped, Awaits, Turns, Fresh, PCs, review
    <2> QED
        BY <1>1, <2>1, PutQuestionStep, RetireLastStep DEF Stopped, Turn
<1>2. CASE Relist(s) \/ Recorded(s)
    BY <1>2, <1>15 DEF Relist, Recorded, Reply, PCs, TurnPCs, Later, Unanswered, Fresh, review
<1>3. CASE Relisted(s) \/ ThinkFails(s)
    <2>1. /\ slot[s].pc \in {"relisted", "thinking"} /\ slot[s].pc \in PCs
          /\ UNCHANGED <<messageStore, review, egress, calls>>
        BY <1>3 DEF Relisted, ThinkFails, Reply, Awaits, PCs, TurnPCs
    <2>2. PICK pc \in {"thinking", "rejecting"} : Goto(s, pc)
        BY <1>3 DEF Relisted, ThinkFails
    <2>3. slot'[s].pc = pc /\ slot'[s].by = slot[s].by /\ Others(s)
        BY <2>1, <2>2, GotoMoves DEF TypeInv
    <2>4. Moves(s) /\ Continues(s) /\ Later(slot[s].pc, slot'[s].pc)
        BY <2>1, <2>3 DEF Moves, Continues, Busy, Later, Unanswered, Fresh, review
    <2> QED
        BY <1>0, <2>1, <2>4, QuietStep
<1>4. CASE Answer(s) \/ Posted(s) \/ Refuse(s)
    <2>1. slot[s].pc \in {"thinking", "relisted", "posted"}
          /\ UNCHANGED <<pendingAssisted, calls, egress>>
        BY <1>4 DEF Answer, Posted, Refuse, Awaits, Reply, review
    <2>2. \E mode \in Answers : Write(s, mode) /\ (mode = "assisted" => slot[s].pc = "posted")
        BY <1>4 DEF Answer, Posted, Refuse, Awaits, Answers, Modes
    <2> QED
        BY <2>1, <2>2, WriteStep
<1>5. CASE Listed(s) \/ Failed(s)
    BY <1>5, <1>16 DEF Listed, Failed, Awaits, Reply, review
<1>6. CASE Written(s)
    BY <1>6, WrittenStep
<1>7. CASE Deleted(s)
    <2>1. slot[s].pc = "deleted" /\ Ready(slot[s]) /\ UNCHANGED <<pendingAssisted, egress, calls>>
        BY <1>7 DEF Deleted, Reply, PCs, review
    <2>2. CASE DeleteNext(s, slot[s])
        <3>1. /\ slot'[s].pc = "deleted" /\ slot'[s].by = slot[s].by /\ Others(s)
              /\ RowsKept /\ Ids' = Ids /\ UNCHANGED journal
            BY <2>1, <2>2, DeleteNextMoves
        <3>2. Moves(s) /\ Continues(s) /\ Later(slot[s].pc, slot'[s].pc)
            BY <2>1, <3>1 DEF Moves, Continues, Busy, Later
        <3> QED
            BY <2>1, <3>1, <3>2, QuietStep
    <2>3. CASE List(s, slot[s], "cleared") /\ UNCHANGED messageStore
        BY <1>15, <2>1, <2>3 DEF PCs, Later, Unanswered, Fresh
    <2> QED
        BY <1>7, <2>2, <2>3 DEF Deleted
<1>8. CASE Cleared(s)
    <2>1. slot[s].pc = "cleared" /\ Ready(slot[s]) /\ UNCHANGED <<pendingAssisted, egress, calls>>
        BY <1>8 DEF Cleared, Reply, PCs, review
    <2>2. CASE Return(s) /\ UNCHANGED <<messageStore, sending, related>>
        BY <1>16, <2>1, <2>2
    <2>3. CASE Enter(s, [slot[s] EXCEPT !.op = "send"])
        <3>1. Ready([slot[s] EXCEPT !.op = "send"])
              /\ [slot[s] EXCEPT !.op = "send"].by = slot[s].by
            BY <2>1 DEF Ready, Ops, TurnOps
        <3>2. Turns(s, [slot[s] EXCEPT !.op = "send"])
            BY <2>1, <3>1 DEF Turns, Fresh
        <3> QED
            BY <2>3, <3>2, EnterStep
    <2> QED
        BY <1>8, <2>2, <2>3 DEF Cleared
<1>9. CASE HandBack(s)
    <2>1. slot[s].pc = "thinking" /\ Ready(slot[s])
        BY <1>9 DEF HandBack, Awaits, PCs, TurnPCs
    <2>2. slot'[s] = [slot[s] EXCEPT !.op = "send"] /\ Others(s)
        BY <1>9, PutMoves DEF HandBack, TypeInv
    <2>3. slot'[s].pc = "thinking" /\ slot'[s].by = slot[s].by
        BY <2>1, <2>2 DEF Ready
    <2>4. Moves(s) /\ Continues(s) /\ Later(slot[s].pc, slot'[s].pc)
        BY <1>9, <2>1, <2>2, <2>3
        DEF HandBack, Moves, Continues, Busy, Later, Unanswered, Fresh, review
    <2> QED
        BY <1>0, <1>9, <2>1, <2>4, QuietStep DEF HandBack
<1>10. CASE NoExcerpts(s)
    <2>1. slot[s].pc = "thinking" /\ slot[s].pc \in PCs /\ Ready(slot[s])
        BY <1>10 DEF NoExcerpts, Awaits, PCs, TurnPCs
    <2>2. Ready([slot[s] EXCEPT !.op = "assisted"])
          /\ [slot[s] EXCEPT !.op = "assisted"].by = slot[s].by
        BY <2>1 DEF Ready, Ops, TurnOps
    <2> QED
        BY <1>10, <1>15, <2>1, <2>2
        DEF NoExcerpts, SendAssisted, Later, Unanswered, Fresh, review
<1>11. CASE Stage(s)
    <2>1. slot[s].pc = "thinking" /\ slot[s].pc \in PCs /\ Ready(slot[s])
          /\ UNCHANGED messageStore /\ UNCHANGED <<egress, calls>>
        BY <1>11 DEF Stage, Awaits, PCs, TurnPCs
    <2>2. CASE Return(s) /\ pendingAssisted' = [chat |-> slot[s].chat, by |-> slot[s].by]
        <3>1. pendingAssisted' \in [chat : Chats, by : Nat] /\ pendingAssisted'.by = slot[s].by
            BY <2>1, <2>2 DEF Ready
        <3>2. pendingAssisted' # None
            BY <3>1, ConversationAssumption
        <3>3. slot'[s] = Idle /\ Others(s)
            BY <2>2, ReturnMoves DEF TypeInv
        <3>4. Moves(s)
            BY <2>1, <3>1, <3>2, <3>3 DEF Moves, Waits, Busy, Idle, Unanswered
        <3>5. slot'[s].pc \notin Unanswered \cup {"posted"}
            BY <3>3 DEF Unanswered, Fresh, Idle
        <3> QED
            BY <1>0, <2>1, <3>4, <3>5, QuietStep
    <2>3. CASE SendAssisted(s, [slot[s] EXCEPT !.selected = TRUE]) /\ pendingAssisted' = None
        <3> DEFINE r == [[slot[s] EXCEPT !.selected = TRUE] EXCEPT !.op = "assisted"]
        <3>1. Ready(r) /\ r.by = slot[s].by
            BY <2>1 DEF Ready, Ops, TurnOps
        <3>2. List(s, r, "relisted")
            BY <2>3 DEF SendAssisted
        <3> HIDE DEF r
        <3>3. Later("thinking", "relisted")
            BY DEF Later, Unanswered, Fresh
        <3> QED
            BY <1>15, <2>1, <2>3, <3>1, <3>2, <3>3
    <2> QED
        BY <1>11, <2>2, <2>3 DEF Stage
<1>12. CASE PostAssisted(s)
    BY <1>12, PostStep
<1>13. CASE Activated(s)
    BY <1>13, <1>15 DEF Activated, Reply, PCs, Later, Unanswered, Fresh, review
<1>14. CASE Shown(s) \/ Removed(s)
    BY <1>14, <1>16 DEF Shown, Removed, Reply, review
<1> QED
    BY <1>1, <1>2, <1>3, <1>4, <1>5, <1>6, <1>7, <1>8, <1>9, <1>10, <1>11, <1>12, <1>13, <1>14
    DEF Step

LEMMA UserKeepsExchange ==
    ASSUME TypeInv, ExchangeInv, NEW s \in Slots, User(s)
    PROVE  ExchangeInv'
<1>0. UNCHANGED messageStore => RowsKept /\ Ids' = Ids /\ UNCHANGED journal
    BY RowsStay DEF TypeInv
\* A click that only asks the database for something.
<1>9. ASSUME slot[s] = Idle, calls' = calls + 1, slot'[s].by = calls + 1, Others(s),
             slot'[s].pc \in Fresh, UNCHANGED <<pendingAssisted, egress>>,
             RowsKept, Ids' = Ids, UNCHANGED journal
      PROVE  ExchangeInv'
    <2>1. Moves(s) /\ Begins(s) /\ slot[s].pc # "written" /\ slot'[s].pc # "posted"
        BY <1>9 DEF Moves, Begins, Busy, Idle, Fresh
    <2> QED
        BY <1>9, <2>1, QuietStep
<1>1. CASE SendCall(s) \/ RegenerateCall(s)
    <2>1. PICK op \in {"send", "regenerate"} : Enter(s, Begin(op, activeChat)) /\ Click(s, op)
        BY <1>1 DEF SendCall, RegenerateCall
    <2>2. Ready(Begin(op, activeChat)) /\ Begin(op, activeChat).by = calls + 1
        BY <1>1, BeginReady
        DEF SendCall, RegenerateCall, TypeInv, PageInv, ScreenOK, Ops, TurnOps, Begin, Idle
    <2>3. Turns(s, Begin(op, activeChat))
        BY <1>1, <2>1, <2>2 DEF Turns, Click, SendCall, RegenerateCall, review
    <2> QED
        BY <2>1, <2>3, EnterStep
<1>2. CASE EditCall(s)
    <2> DEFINE r == [Begin("edit", activeChat) EXCEPT !.todo = FromLastQuestion(shown)]
    <2>1. Ready(Begin("edit", activeChat)) /\ Begin("edit", activeChat).by = calls + 1
        BY <1>2, BeginReady DEF EditCall, TypeInv, PageInv, ScreenOK, Ops, TurnOps, Begin, Idle
    <2>2. FromLastQuestion(shown) \in SUBSET Ids
        BY DEF FromLastQuestion, TypeInv, PageInv, ScreenOK
    <2>3. Ready(r) /\ r.by = calls + 1
        BY <2>1, <2>2 DEF Ready
    <2>4. DeleteNext(s, r)
        BY <1>2 DEF EditCall
    <2> HIDE DEF r
    <2>5. /\ slot'[s].pc = "deleted" /\ slot'[s].by = calls + 1 /\ Others(s)
          /\ RowsKept /\ Ids' = Ids /\ UNCHANGED journal
        BY <2>3, <2>4, DeleteNextMoves
    <2> QED
        BY <1>2, <1>9, <2>5 DEF EditCall, Click, Fresh, review
<1>3. CASE StageCall(s)
    <2>1. Ready(Begin("stage", activeChat)) /\ Begin("stage", activeChat).by = calls + 1
        BY <1>3, BeginReady DEF StageCall, TypeInv, PageInv, ScreenOK, Ops, TurnOps, Begin, Idle
    <2>2. Turns(s, Begin("stage", activeChat))
        BY <1>3, <2>1 DEF Turns, Click, StageCall, review
    <2> QED
        BY <1>3, <2>2, PutQuestionStep DEF StageCall
<1>4. CASE ConfirmAssisted(s)
    <2> DEFINE b == [Begin("assisted", activeChat) EXCEPT
                         !.by = pendingAssisted.by, !.selected = TRUE, !.reviewed = TRUE]
    <2>1. pendingAssisted \in [chat : Chats, by : Nat] /\ pendingAssisted.chat = activeChat
        BY <1>4 DEF ConfirmAssisted, TypeInv, PageInv, FlagsOK
    <2>2. Ready(Begin("assisted", activeChat))
        BY <2>1, BeginReady DEF TypeInv, PageInv, Ops, TurnOps
    <2> DEFINE r == [b EXCEPT !.op = "assisted"]
    <2>3. Ready(r) /\ r.by = pendingAssisted.by
        BY <2>1, <2>2 DEF Ready, Ops, TurnOps
    <2>4. List(s, r, "relisted")
        BY <1>4 DEF ConfirmAssisted, SendAssisted
    <2> HIDE DEF b, r
    <2>5. slot'[s].pc = "relisted" /\ slot'[s].by = pendingAssisted.by /\ Others(s)
        BY <2>3, <2>4, ListMoves DEF TypeInv
    <2>6. Moves(s) /\ Resumes(s) /\ slot[s].pc # "written"
        BY <1>4, <2>5 DEF ConfirmAssisted, Moves, Resumes, Busy, Idle
    <2> QED
        BY <1>0, <1>4, <2>5, <2>6, QuietStep DEF ConfirmAssisted
<1>5. CASE SwitchCall(s)
    <2> DEFINE q == [Begin("switch", activeChat) EXCEPT !.pc = "activated"]
    <2>1. q.pc = "activated" /\ q.by = calls + 1 /\ Put(s, q)
        BY <1>5 DEF SwitchCall, Begin, Idle
    <2> HIDE DEF q
    <2>2. slot'[s] = q /\ Others(s)
        BY <2>1, PutMoves DEF TypeInv
    <2>3. RowsKept /\ Ids' = Ids /\ UNCHANGED journal
        BY <1>5, RowsStay DEF SwitchCall, TypeInv
    <2> QED
        BY <1>5, <1>9, <2>1, <2>2, <2>3 DEF SwitchCall, Click, Fresh, review
<1>6. CASE OpenCall(s)
    <2>1. PICK c \in chats : List(s, Begin("open", c), "shown")
        BY <1>6 DEF OpenCall
    <2>2. Ready(Begin("open", c)) /\ Begin("open", c).by = calls + 1
        BY BeginReady DEF TypeInv, PageInv, StoreInv, Ops, Begin, Idle
    <2>3. slot'[s].pc = "shown" /\ slot'[s].by = calls + 1 /\ Others(s)
        BY <2>1, <2>2, ListMoves DEF TypeInv
    <2> QED
        BY <1>0, <1>6, <1>9, <2>3 DEF OpenCall, Click, Fresh, review
<1>7. CASE RemoveCall(s)
    <2>1. PICK c \in chats : DeleteChat(c) /\ Put(s, [Begin("remove", c) EXCEPT !.pc = "removed"])
        BY <1>7 DEF RemoveCall
    <2> DEFINE q == [Begin("remove", c) EXCEPT !.pc = "removed"]
    <2>2. q.pc = "removed" /\ q.by = calls + 1 /\ Put(s, q)
        BY <2>1 DEF Begin, Idle
    <2> HIDE DEF q
    <2>3. slot'[s] = q /\ Others(s)
        BY <2>2, PutMoves DEF TypeInv
    <2>4. RowsKept /\ Ids' = Ids /\ UNCHANGED journal
        BY <2>1, RowsStay DEF TypeInv
    <2> QED
        BY <1>7, <1>9, <2>2, <2>3, <2>4 DEF RemoveCall, Click, Fresh, review
<1> QED
    BY <1>1, <1>2, <1>3, <1>4, <1>5, <1>6, <1>7 DEF User

LEMMA BesideKeepsExchange ==
    ASSUME ExchangeInv, CancelAssisted \/ FollowUp \/ FollowUpEnds \/ UNCHANGED vars
    PROVE  ExchangeInv'
<1>1. UNCHANGED <<messages, journal, slot, egress, calls>>
      /\ pendingAssisted' \in {pendingAssisted, None}
    BY DEF CancelAssisted, FollowUp, FollowUpEnds, vars, messageStore, review
<1> USE DEF Ids
<1>2. Apart' /\ Dated' /\ Owing'
    BY <1>1 DEF ExchangeInv, Apart, Busy, Dated, Owing, Owes, NoQuestion, NoAnswer, NoPost, Sent,
                Question
<1>3. OnRecord' /\ OneExchangePerRequest' /\ CloudAnswersAreJournalled'
    BY <1>1 DEF ExchangeInv, OnRecord, Sent, OneExchangePerRequest, CloudAnswersAreJournalled,
                Question, Live
<1> QED
    BY <1>2, <1>3 DEF ExchangeInv

LEMMA InitIsExchange == Init => ExchangeInv
<1> SUFFICES ASSUME Init PROVE ExchangeInv
    OBVIOUS
<1>1. /\ \A s \in Slots : slot[s] = Idle
      /\ calls = 0 /\ pendingAssisted = None /\ egress = <<>>
      /\ messages = History /\ Ids = DOMAIN History
      /\ journal = {m \in DOMAIN History : History[m].mode = "assisted"}
    BY DEF Init, Ids
<1>2. \A m \in Ids : messages[m].by = 0
    BY <1>1, ConversationAssumption
<1>3. DOMAIN egress = {}
    BY <1>1
<1>4. Apart /\ Dated /\ Owing
    BY <1>1, <1>2, <1>3 DEF Apart, Busy, Dated, Owing, Owes, Idle, Fresh, Unanswered
<1>5. OnRecord /\ OneExchangePerRequest /\ CloudAnswersAreJournalled
    BY <1>1, <1>2, <1>3 DEF OnRecord, OneExchangePerRequest, CloudAnswersAreJournalled
<1> QED
    BY <1>4, <1>5 DEF ExchangeInv

LEMMA AlwaysExchange == Spec => []ExchangeInv
<1>1. Init => TypeInv /\ ExchangeInv
    BY InitTypes, InitIsExchange
<1>2. TypeInv /\ ExchangeInv /\ [Next]_vars => TypeInv' /\ ExchangeInv'
    BY StepTypes, MethodStepKeepsExchange, UserKeepsExchange, BesideKeepsExchange DEF Next
<1> QED
    BY <1>1, <1>2, PTL DEF Spec

\* However a turn is handed from editLast, stageAssisted or a review to send and
\* sendAssisted, one click writes one question and one answer at most, and is
\* posted at most once, whatever else is clicked meanwhile.
THEOREM WrittenAndPostedOnce == Spec => []OneExchangePerRequest
<1>1. ExchangeInv => OneExchangePerRequest
    BY DEF ExchangeInv
<1> QED
    BY <1>1, AlwaysExchange, PTL

\* A cloud answer that is still there has its privacy event once its turn has
\* moved on, and a privacy event of this session stands for something posted
\* (sendAssisted, insertPrivacyEvent).
THEOREM CloudIsJournalled == Spec => []CloudAnswersAreJournalled
<1>1. ExchangeInv => CloudAnswersAreJournalled
    BY DEF ExchangeInv
<1> QED
    BY <1>1, AlwaysExchange, PTL
=============================================================================
