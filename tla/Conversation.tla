---------------------------- MODULE Conversation ----------------------------
(***************************************************************************)
(* The turns of a chat: the ChatsStore of state/chats.svelte.ts, as driven *)
(* by the chat page and its panels, over the message half of the local     *)
(* database.                                                               *)
(*                                                                         *)
(* One slot is one running async method.  A pc names the await it is at.   *)
(* A database call takes effect when it is made (the worker runs calls in  *)
(* order) and its answer is delivered later, in the order of the calls;    *)
(* in between, any other click may be handled.  Retrieval, generation and  *)
(* the network are awaits that end when they like.                         *)
(***************************************************************************)
EXTENDS MessageStore, FiniteSets

CONSTANTS
    None,
    Assisted,       \* chats in mode assisted; the others are in mode private
    Documented,     \* chats with enabled, ready documents
    Reviews,        \* chats whose send policy is to review what leaves
    Removable,      \* chats the user may delete
    Slots,          \* async methods running at once
    UserCalls,      \* what the user does
    RetrievalFails, \* may the question analysis or the retrieval of a turn reject
    FollowUps,      \* is there an engine to suggest follow-up questions
    History,        \* the messages table when the page opens
    MaxCalls        \* bound: clicks

ASSUME ConversationAssumption ==
    /\ Assisted \subseteq Chats /\ Documented \subseteq Chats
    /\ Reviews \subseteq Chats /\ Removable \subseteq Chats
    /\ None \notin Chats \cup [chat : Chats, by : Nat]
    /\ RetrievalFails \in BOOLEAN /\ FollowUps \in BOOLEAN
    /\ History \in Seq(Row)
    /\ \A i \in DOMAIN History : History[i].by = 0  \* no request of this page wrote it
    /\ MaxCalls \in Nat

VARIABLES
    activeChat,         \* activeChatId; also the chat the page shows
    shown,              \* messages
    docsOf,             \* whose documents chatDocuments holds
    sending,            \* sending
    pendingAssisted,    \* pendingAssisted
    generatingRelated,  \* generatingRelated
    relatedTimer,       \* relatedTimer: the chat it will fire for
    slot,               \* the running methods
    queue,              \* database calls not answered yet, oldest first
    egress,             \* what was posted to the cloud, in order
    calls               \* clicks so far

screen  == <<activeChat, shown, docsOf>>
review  == pendingAssisted
related == <<generatingRelated, relatedTimer>>
vars    == <<messageStore, screen, sending, review, related, slot, queue, egress, calls>>

TurnOps == {"send", "regenerate", "stage", "assisted"}
Ops     == TurnOps \cup {"edit", "switch", "open", "remove"}
\* Awaits of a turn between sending = true and its finally block.
TurnPCs == {"asked", "retired", "relisted", "thinking", "rejecting", "posted", "written",
            "recorded", "listed", "failed"}
PCs     == TurnPCs \cup {"stopping", "deleted", "cleared", "activated", "shown", "removed"}

Idle == [pc |-> "idle", op |-> None, chat |-> None, group |-> 0, by |-> 0, answer |-> 0,
         seen |-> {}, todo |-> {}, selected |-> FALSE, reviewed |-> FALSE]
Method == [pc : PCs, op : Ops, chat : Chats, group : Nat, by : Nat, answer : Nat,
           seen : SUBSET Ids, todo : SUBSET Ids, selected : BOOLEAN, reviewed : BOOLEAN]
Post   == [chat : Chats, by : Nat, reviewed : BOOLEAN]

TypeOK ==
    /\ MessageStoreTypeOK
    /\ activeChat \in Chats \cup {None}
    /\ docsOf \in Chats \cup {None}
    /\ shown \subseteq Ids
    /\ sending \in BOOLEAN
    /\ pendingAssisted \in [chat : Chats, by : Nat] \cup {None}
    /\ generatingRelated \in BOOLEAN
    /\ relatedTimer \in Chats \cup {None}
    /\ slot \in [Slots -> Method \cup {Idle}]
    /\ queue \in Seq(Slots)
    /\ egress \in Seq(Post)
    /\ calls \in 0..MaxCalls

-----------------------------------------------------------------------------
(***************************************************************************)
(* Database calls, and a slot moving on.                                   *)
(***************************************************************************)
Reply(s, pc) == slot[s].pc = pc /\ queue # <<>> /\ Head(queue) = s
Awaits(s, pc) == slot[s].pc = pc          \* awaits something other than the database

Rest(s)   == IF queue # <<>> /\ Head(queue) = s THEN Tail(queue) ELSE queue
Ask(s)    == queue' = Append(Rest(s), s)      \* make the next call
Resume(s) == queue' = Rest(s)                 \* go on without one

Put(s, r)    == slot' = [slot EXCEPT ![s] = r]
Goto(s, pc)  == slot' = [slot EXCEPT ![s].pc = pc]
Return(s)    == slot' = [slot EXCEPT ![s] = Idle]
List(s, r, pc) == Put(s, [r EXCEPT !.pc = pc, !.seen = ListMessages(r.chat)]) /\ Ask(s)
Show(s)      == shown' = slot[s].seen /\ UNCHANGED <<activeChat, docsOf>>

Click(s, op)    == op \in UserCalls /\ slot[s] = Idle /\ calls < MaxCalls /\ calls' = calls + 1
Begin(op, c)    == [Idle EXCEPT !.op = op, !.chat = c, !.by = calls + 1]

Question(m)     == messages[m].mode = "question"
HasQuestion(ms) == \E m \in ms : Question(m)
IsLast(m, ms)   == m \in ms /\ \A n \in ms : n <= m
FromLastQuestion(ms) == {m \in ms : \A n \in ms : Question(n) => n <= m}
Answers         == Modes \ {"question"}
LastIs(ms, modes) ==
    HasQuestion(ms) /\ \E m \in ms : IsLast(m, ms) /\ messages[m].mode \in modes

-----------------------------------------------------------------------------
(***************************************************************************)
(* Sending and regenerating.  The composer, the pencil and Try again are   *)
(* offered only while nothing is being sent.                               *)
(***************************************************************************)
PutQuestion(s, r) ==
    /\ sending' = TRUE
    /\ IF CanInsert(r.chat)
       THEN InsertMessage(r.chat, "question", 0, r.by) /\ Put(s, [r EXCEPT !.pc = "asked"])
       ELSE UNCHANGED messageStore /\ Put(s, [r EXCEPT !.pc = "failed"])
    /\ Ask(s)

RetireLast(s, r) ==
    \/ /\ LastIs(shown, Answers)
       /\ sending' = TRUE
       /\ \E m \in shown :
             /\ IsLast(m, shown)
             /\ RetireMessage(m, GroupOf(m))
             /\ Put(s, [r EXCEPT !.pc = "retired", !.group = GroupOf(m)])
       /\ Ask(s)
    \/ /\ ~LastIs(shown, Answers)
       /\ Return(s) /\ Resume(s)
       /\ UNCHANGED <<messageStore, sending>>

Turn(s, r) == \/ r.op = "send" /\ PutQuestion(s, r)
              \/ r.op = "regenerate" /\ RetireLast(s, r)

\* The guard on sending is behind us; only a follow-up being generated makes
\* cancelRelatedWork really wait.
Enter(s, r) ==
    /\ relatedTimer' = None
    /\ generatingRelated' = FALSE
    /\ \/ /\ generatingRelated
          /\ Put(s, [r EXCEPT !.pc = "stopping"]) /\ Resume(s)
          /\ UNCHANGED <<messageStore, sending>>
       \/ ~generatingRelated /\ Turn(s, r)

SendCall(s) ==
    /\ Click(s, "send") /\ activeChat # None /\ ~sending
    /\ activeChat \notin Assisted
    /\ Enter(s, Begin("send", activeChat))
    /\ UNCHANGED <<screen, review, egress>>

RegenerateCall(s) ==
    /\ Click(s, "regenerate") /\ activeChat # None /\ ~sending
    /\ LastIs(shown, {"private", "notice"})
    /\ Enter(s, Begin("regenerate", activeChat))
    /\ UNCHANGED <<screen, review, egress>>

\* llmStore.stop() has returned.
Stopped(s) ==
    /\ Awaits(s, "stopping")
    /\ Turn(s, slot[s])
    /\ UNCHANGED <<screen, review, related, egress, calls>>

Relist(s) ==
    /\ Reply(s, "asked") \/ Reply(s, "retired")
    /\ List(s, slot[s], "relisted")
    /\ UNCHANGED <<messageStore, screen, sending, review, related, egress, calls>>

Relisted(s) ==
    /\ Reply(s, "relisted") /\ slot[s].op # "assisted"
    /\ Show(s) /\ Goto(s, "thinking") /\ Resume(s)
    /\ UNCHANGED <<messageStore, sending, review, related, egress, calls>>

Write(s, mode) ==
    /\ IF CanInsert(slot[s].chat)
       THEN /\ InsertMessage(slot[s].chat, mode, slot[s].group, slot[s].by)
            /\ Put(s, [slot[s] EXCEPT !.pc = "written", !.answer = NextId])
       ELSE UNCHANGED messageStore /\ Goto(s, "failed")
    /\ Ask(s)

\* Mutant of Answer: an unusable answer is tried again without a limit.
AnswerRetries(s) ==
    /\ Awaits(s, "thinking") /\ slot[s].op \in {"send", "regenerate"}
    /\ \/ Write(s, "private")
       \/ List(s, slot[s], "relisted") /\ UNCHANGED messageStore
    /\ UNCHANGED <<screen, sending, review, related, egress, calls>>

\* Clarification, calculation, refusal or generated answer; a notice when the
\* generation was stopped; the passages found when no engine is ready, or the
\* chat is in a cloud mode.
Answer(s) ==
    /\ Awaits(s, "thinking") /\ slot[s].op \in {"send", "regenerate"}
    /\ \E mode \in {"private", "notice", "retrieval"} :
          /\ mode = "notice" => slot[s].chat \notin Assisted
          /\ Write(s, mode)
    /\ UNCHANGED <<screen, sending, review, related, egress, calls>>

\* The embedding or the search now awaited is one that will reject.
ThinkFails(s) ==
    /\ Awaits(s, "thinking") /\ RetrievalFails
    /\ Goto(s, "rejecting")
    /\ UNCHANGED <<messageStore, screen, sending, review, related, queue, egress, calls>>

\* Mutant of Written: the privacy event is left to a later release.
WrittenUnjournalled(s) ==
    /\ Reply(s, "written")
    /\ List(s, slot[s], "listed")
    /\ UNCHANGED <<messageStore, screen, sending, review, related, egress, calls>>

\* The rows about the new message come next.  If it is gone with its chat,
\* those that refer to it are refused.
Written(s) ==
    /\ Reply(s, "written")
    /\ \/ /\ messages[slot[s].answer].mode = "assisted"
          /\ InsertPrivacyEvent(slot[s].answer)
          /\ Goto(s, "recorded") /\ Ask(s)
       \/ /\ messages[slot[s].answer].mode # "assisted"
          /\ UNCHANGED messageStore
          /\ List(s, slot[s], "listed")
       \/ /\ ~Live(slot[s].answer)
          /\ UNCHANGED messageStore
          /\ Goto(s, "failed") /\ Ask(s)
    /\ UNCHANGED <<screen, sending, review, related, egress, calls>>

Recorded(s) ==
    /\ Reply(s, "recorded")
    /\ List(s, slot[s], "listed")
    /\ UNCHANGED <<messageStore, screen, sending, review, related, egress, calls>>

\* Follow-ups are scheduled after an answer made here, not after a clarification.
Listed(s) ==
    /\ Reply(s, "listed")
    /\ Show(s)
    /\ sending' = FALSE
    /\ relatedTimer' \in {relatedTimer, IF slot[s].op = "assisted" THEN relatedTimer
                                                                   ELSE slot[s].chat}
    /\ Return(s) /\ Resume(s)
    /\ UNCHANGED <<messageStore, review, generatingRelated, egress, calls>>

\* The database refused a row, or retrieval rejected.  send, regenerate and
\* sendAssisted clear sending in a finally block; stageAssisted has none.
Failed(s) ==
    /\ Reply(s, "failed") \/ Awaits(s, "rejecting")
    /\ sending' = (slot[s].op = "stage" /\ sending)
    /\ Return(s) /\ Resume(s)
    /\ UNCHANGED <<messageStore, screen, review, related, egress, calls>>

-----------------------------------------------------------------------------
(***************************************************************************)
(* Editing the last question: delete what is shown from it on, then send.  *)
(***************************************************************************)
DeleteNext(s, r) ==
    /\ \E m \in r.todo :
          /\ IsLast(m, r.todo)
          /\ DeleteMessage(m)
          /\ Put(s, [r EXCEPT !.pc = "deleted", !.todo = @ \ {m}])
    /\ Ask(s)

EditCall(s) ==
    /\ Click(s, "edit") /\ activeChat # None /\ ~sending
    /\ HasQuestion(shown)
    /\ DeleteNext(s, [Begin("edit", activeChat) EXCEPT !.todo = FromLastQuestion(shown)])
    /\ UNCHANGED <<screen, sending, review, related, egress>>

Deleted(s) ==
    /\ Reply(s, "deleted")
    /\ \/ slot[s].todo # {} /\ DeleteNext(s, slot[s])
       \/ slot[s].todo = {} /\ List(s, slot[s], "cleared") /\ UNCHANGED messageStore
    /\ UNCHANGED <<screen, sending, review, related, egress, calls>>

\* send() gives up if a turn began while the messages were being deleted.
Cleared(s) ==
    /\ Reply(s, "cleared")
    /\ Show(s)
    /\ \/ /\ sending
          /\ Return(s) /\ Resume(s)
          /\ UNCHANGED <<messageStore, sending, related>>
       \/ ~sending /\ Enter(s, [slot[s] EXCEPT !.op = "send"])
    /\ UNCHANGED <<review, egress, calls>>

-----------------------------------------------------------------------------
(***************************************************************************)
(* Cloud turns: staged, reviewed, sent.                                    *)
(***************************************************************************)
StageCall(s) ==
    /\ Click(s, "send") /\ activeChat # None /\ ~sending
    /\ activeChat \in Assisted
    /\ PutQuestion(s, Begin("stage", activeChat))
    /\ UNCHANGED <<screen, review, related, egress>>

SendAssisted(s, r) ==
    /\ sending' = TRUE
    /\ List(s, [r EXCEPT !.op = "assisted"], "relisted")

\* Mutant of HandBack: without "staged", send's own guard swallows the turn.
HandBackSwallowed(s) ==
    /\ Awaits(s, "thinking") /\ slot[s].op = "stage"
    /\ Return(s)
    /\ UNCHANGED <<messageStore, screen, sending, review, related, queue, egress, calls>>

\* A clarification or a calculation: the turn goes to send, already staged.
HandBack(s) ==
    /\ Awaits(s, "thinking") /\ slot[s].op = "stage"
    /\ Put(s, [slot[s] EXCEPT !.op = "send"])
    /\ generatingRelated' = FALSE /\ relatedTimer' = None
    /\ UNCHANGED <<messageStore, screen, sending, review, queue, egress, calls>>

\* Mutant of NoExcerpts: without "staged", the question is put a second time.
NoExcerptsAsksAgain(s) ==
    /\ Awaits(s, "thinking") /\ slot[s].op = "stage"
    /\ PutQuestion(s, [slot[s] EXCEPT !.op = "assisted"])
    /\ UNCHANGED <<screen, review, related, egress, calls>>

NoExcerpts(s) ==
    /\ Awaits(s, "thinking") /\ slot[s].op = "stage"
    /\ SendAssisted(s, slot[s])
    /\ UNCHANGED <<messageStore, screen, review, related, egress, calls>>

\* The send policy is read from the active chat; without one, from the
\* global setting, which reviews by default.
Stage(s) ==
    /\ Awaits(s, "thinking") /\ slot[s].op = "stage" /\ docsOf \in Documented
    /\ \/ /\ activeChat \in Reviews \cup {None}
          /\ pendingAssisted' = [chat |-> slot[s].chat, by |-> slot[s].by]
          /\ Return(s)
          /\ UNCHANGED <<sending, queue>>
       \/ /\ activeChat \notin Reviews \cup {None}
          /\ pendingAssisted' = None
          /\ SendAssisted(s, [slot[s] EXCEPT !.selected = TRUE])
    /\ UNCHANGED <<messageStore, screen, related, egress, calls>>

ConfirmAssisted(s) ==
    /\ slot[s] = Idle
    /\ pendingAssisted # None /\ pendingAssisted.chat = activeChat
    /\ SendAssisted(s, [Begin("assisted", activeChat) EXCEPT
           !.by = pendingAssisted.by, !.selected = TRUE, !.reviewed = TRUE])
    /\ pendingAssisted' = None
    /\ UNCHANGED <<messageStore, screen, related, egress, calls>>

CancelAssisted ==
    /\ pendingAssisted # None /\ pendingAssisted.chat = activeChat
    /\ pendingAssisted' = None
    /\ sending' = FALSE
    /\ UNCHANGED <<messageStore, screen, related, slot, queue, egress, calls>>

\* Documents, but no passage to send: refused here.
Refuse(s) ==
    /\ Reply(s, "relisted") /\ slot[s].op = "assisted"
    /\ docsOf \in Documented /\ ~slot[s].selected
    /\ Show(s) /\ Write(s, "private")
    /\ UNCHANGED <<sending, review, related, egress, calls>>

PostAssisted(s) ==
    /\ Reply(s, "relisted") /\ slot[s].op = "assisted"
    /\ docsOf \notin Documented \/ slot[s].selected
    /\ egress' = Append(egress, [chat |-> slot[s].chat, by |-> slot[s].by,
                                 reviewed |-> slot[s].reviewed])
    /\ Show(s) /\ Goto(s, "posted") /\ Resume(s)
    /\ UNCHANGED <<messageStore, sending, review, related, calls>>

\* An answer, or a notice: quota, signed out, unavailable, unreachable.
Posted(s) ==
    /\ Awaits(s, "posted")
    /\ Write(s, "assisted") \/ Write(s, "notice")
    /\ UNCHANGED <<screen, sending, review, related, egress, calls>>

-----------------------------------------------------------------------------
(***************************************************************************)
(* Versions, navigation, deletion, follow-ups: at any time.                *)
(***************************************************************************)
SwitchCall(s) ==
    /\ Click(s, "switch") /\ activeChat # None
    /\ \E m \in shown : \E v \in Versions(messages[m].group) \ {m} :
          /\ messages[m].group # 0
          /\ ActivateMessageVersion(messages[m].group, v)
    /\ Put(s, [Begin("switch", activeChat) EXCEPT !.pc = "activated"]) /\ Ask(s)
    /\ UNCHANGED <<screen, sending, review, related, egress>>

Activated(s) ==
    /\ Reply(s, "activated")
    /\ List(s, slot[s], "shown")
    /\ UNCHANGED <<messageStore, screen, sending, review, related, egress, calls>>

OpenCall(s) ==
    /\ Click(s, "open")
    /\ \E c \in chats \ {activeChat} :
          /\ activeChat' = c
          /\ List(s, Begin("open", c), "shown")
    /\ UNCHANGED <<messageStore, shown, docsOf, sending, review, related, egress>>

Shown(s) ==
    /\ Reply(s, "shown")
    /\ shown' = slot[s].seen
    /\ docsOf' = IF slot[s].op = "open" THEN slot[s].chat ELSE docsOf
    /\ Return(s) /\ Resume(s)
    /\ UNCHANGED <<messageStore, activeChat, sending, review, related, egress, calls>>

RemoveCall(s) ==
    /\ Click(s, "remove")
    /\ \E c \in chats \cap Removable :
          /\ DeleteChat(c)
          /\ Put(s, [Begin("remove", c) EXCEPT !.pc = "removed"])
    /\ Ask(s)
    /\ UNCHANGED <<screen, sending, review, related, egress>>

Removed(s) ==
    /\ Reply(s, "removed")
    /\ IF activeChat = slot[s].chat
       THEN activeChat' = None /\ shown' = {} /\ docsOf' = None
       ELSE UNCHANGED screen
    /\ Return(s) /\ Resume(s)
    /\ UNCHANGED <<messageStore, sending, review, related, egress, calls>>

FollowUp ==
    /\ relatedTimer # None
    /\ relatedTimer' = None
    /\ generatingRelated' = (generatingRelated \/ (FollowUps /\ LastIs(shown, {"private"})))
    /\ UNCHANGED <<messageStore, screen, sending, review, slot, queue, egress, calls>>

FollowUpEnds ==
    /\ generatingRelated
    /\ generatingRelated' = FALSE
    /\ UNCHANGED <<messageStore, screen, sending, review, relatedTimer, slot, queue,
                   egress, calls>>

-----------------------------------------------------------------------------
Init ==
    /\ chats = Chats /\ messages = History
    /\ journal = {m \in DOMAIN History : History[m].mode = "assisted"}
    /\ indexed = [m \in DOMAIN History |-> IF History[m].state = "active" THEN 1 ELSE 0]
    /\ activeChat \in Chats /\ docsOf = activeChat /\ shown = ListMessages(activeChat)
    /\ sending = FALSE /\ pendingAssisted = None
    /\ generatingRelated = FALSE /\ relatedTimer = None
    /\ slot = [s \in Slots |-> Idle] /\ queue = <<>> /\ egress = <<>> /\ calls = 0

Step(s) ==
    \/ Stopped(s) \/ Relist(s) \/ Relisted(s) \/ Answer(s) \/ ThinkFails(s)
    \/ Written(s) \/ Recorded(s) \/ Listed(s) \/ Failed(s)
    \/ Deleted(s) \/ Cleared(s)
    \/ HandBack(s) \/ NoExcerpts(s) \/ Stage(s) \/ Refuse(s) \/ PostAssisted(s) \/ Posted(s)
    \/ Activated(s) \/ Shown(s) \/ Removed(s)

User(s) ==
    \/ SendCall(s) \/ RegenerateCall(s) \/ EditCall(s) \/ StageCall(s) \/ ConfirmAssisted(s)
    \/ SwitchCall(s) \/ OpenCall(s) \/ RemoveCall(s)

Next ==
    \/ \E s \in Slots : Step(s) \/ User(s)
    \/ CancelAssisted \/ FollowUp \/ FollowUpEnds

Spec == Init /\ [][Next]_vars

\* Awaited work ends: the worker answers every call, generation and requests
\* have their own time limits.  The user owes nothing.
FairSpec == Spec /\ \A s \in Slots : WF_vars(Step(s))

-----------------------------------------------------------------------------
(***************************************************************************)
(* Properties.                                                             *)
(***************************************************************************)
InTurn(s) == slot[s].pc \in TurnPCs

Waiting == pendingAssisted # None /\ pendingAssisted.chat \in chats
Orphaned == pendingAssisted # None /\ pendingAssisted.chat \notin chats
Shut == sending /\ ~Waiting /\ ~\E s \in Slots : InTurn(s)

StagingRejects == \E s \in Slots : slot[s].op = "stage" /\ Failed(s)
ReviewLosesChat == Orphaned' /\ (Orphaned => \E s \in Slots : Stage(s))

(* sending is left set, with no turn running and no review the user can    *)
(* settle, in two ways only: stageAssisted rejects, having no finally, or  *)
(* the chat of a review is deleted.  Every other end of a turn, handed     *)
(* through send, regenerate, editLast, stageAssisted, sendAssisted and the *)
(* review, whatever fails, opens the composer again.                       *)
NeverStuck == [][Shut' => Shut \/ StagingRejects \/ ReviewLosesChat]_vars

(* However a turn is handed from one method to the next (editLast to send, *)
(* stageAssisted to send or sendAssisted, a review to its confirmation),   *)
(* one request of the user writes at most one question and one answer, and *)
(* is posted at most once.                                                 *)
OneExchangePerRequest ==
    /\ \A m, n \in Ids : /\ messages[m].by # 0 /\ messages[m].by = messages[n].by
                         /\ Question(m) <=> Question(n)
                         => m = n
    /\ \A i, j \in DOMAIN egress : egress[i].by = egress[j].by => i = j

(* The journal and the thread agree: once the turn that wrote a cloud      *)
(* answer has moved on, the answer has its privacy event, and only cloud   *)
(* answers whose request was posted have one.                              *)
CloudAnswersAreJournalled ==
    \A m \in Ids :
       /\ messages[m].mode = "assisted" /\ Live(m)
          => m \in journal \/ \E s \in Slots : slot[s].pc = "written" /\ slot[s].answer = m
       /\ m \in journal /\ messages[m].by # 0 => \E i \in DOMAIN egress : egress[i].by = messages[m].by

(* A turn ends: with its answer, at the review, or by rejecting, whatever  *)
(* is clicked, refused or deleted meanwhile.                               *)
TurnEnds == \A s \in Slots : InTurn(s) ~> ~InTurn(s)

(* Content of a chat that reviews what leaves is posted only after the     *)
(* user confirmed it.                                                      *)
NothingLeavesUnreviewed ==
    \A i \in DOMAIN egress : egress[i].chat \in Reviews => egress[i].reviewed

(* Editing or regenerating in one chat leaves the messages of the others   *)
(* alone: all versions of an answer are in the chat of the first.          *)
VersionsShareAChat ==
    \A m \in Ids : messages[m].group # 0 => messages[m].chat = messages[messages[m].group].chat

(* The full-text index holds every active message once and nothing else.   *)
IndexMirrorsActive == \A m \in Ids : indexed[m] = IF Active(m) THEN 1 ELSE 0

(* At most one version of an answer is active.                             *)
OneActiveVersion ==
    \A m, n \in Ids : /\ Active(m) /\ Active(n) /\ messages[m].group # 0
                      /\ messages[m].group = messages[n].group
                      => m = n
=============================================================================
