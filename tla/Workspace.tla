----------------------------- MODULE Workspace -----------------------------
(***************************************************************************)
(* The pages of the application over one origin: who opens the local       *)
(* database (local-db/client.ts, init of local-db/worker.ts), what the     *)
(* pages know of the force-offline switch (settings.svelte.ts), and the    *)
(* isolated boot that erases everything (panic-wipe.ts).                   *)
(*                                                                         *)
(* A member of Page is one load of the page in some tab: a reload is the   *)
(* end of one and the opening of another.  Closing a page frees its own    *)
(* lock at once; its worker, with the lock and the files it holds, goes in *)
(* a step of its own (WorkerDies), since the browser stops it separately.  *)
(***************************************************************************)

CONSTANTS
    Page,   \* page loads (bound)
    Filled, \* the stores, besides the pool, that pages fill again (bound)
    None

Stores  == {"originals", "pool", "caches", "web"}

ASSUME WorkspaceAssumption == None \notin Page /\ Filled \subseteq Stores

VARIABLES
    page,      \* [Page -> what the load is]
    pageLock,  \* holder of regeste-db-owner
    poolLock,  \* holder of regeste-db-pool: a page's worker
    worker,    \* [Page -> state of its database worker]
    handles,   \* the workers that hold the files of the OPFS pool
    promise,   \* [Page -> dbPromise of client.ts]
    waiting,   \* [Page -> the settings calls that await it]
    settings,  \* [Page -> what became of settingsStore.init]
    switch,    \* [Page -> settingsStore.forceOffline]
    touched,   \* the pages in which the user turned the switch
    writing,   \* [Page -> the value setForceOffline is storing]
    stored,    \* force_offline in the database
    data,      \* which of the stores hold something
    left,      \* [Page -> what is still there of what a wipe found when it began]
    wipe,      \* [Page -> phase of performPanicWipe]
    todo       \* [Page -> deletions of the phase still to settle]

db    == <<pageLock, poolLock, worker, handles, promise, waiting>>
prefs == <<settings, switch, touched, writing>>
erase == <<wipe, todo>>
vars  == <<page, db, prefs, stored, data, left, erase>>

Caller  == {"settings", "switch"}
Deletions == {"workers", "caches", "opfs"}
Waits   == {"stopping", "native", "deleting"}  \* phases under a deadline

TypeOK ==
    /\ page \in [Page -> {"unborn", "app", "wipe", "gone"}]
    /\ pageLock \in Page \cup {None} /\ poolLock \in Page \cup {None}
    /\ worker \in [Page -> {"none", "asking", "opening", "installed", "open", "failed"}]
    /\ handles \subseteq Page
    /\ promise \in [Page -> {"none", "pending", "open"}]
    /\ waiting \in [Page -> SUBSET Caller]
    /\ settings \in [Page -> {"unread", "read", "lost"}]
    /\ switch \in [Page -> BOOLEAN] /\ touched \subseteq Page
    /\ writing \in [Page -> {"none", "on", "off"}]
    /\ stored \in BOOLEAN /\ data \subseteq Stores
    /\ left \in [Page -> SUBSET Stores]
    /\ wipe \in [Page -> Waits \cup {"none", "finishing", "failed"}]
    /\ todo \in [Page -> SUBSET Deletions]

Init ==
    /\ page = [p \in Page |-> "unborn"]
    /\ pageLock = None /\ poolLock = None
    /\ worker = [p \in Page |-> "none"] /\ handles = {}
    /\ promise = [p \in Page |-> "none"] /\ waiting = [p \in Page |-> {}]
    /\ settings = [p \in Page |-> "unread"] /\ switch = [p \in Page |-> FALSE]
    /\ touched = {} /\ writing = [p \in Page |-> "none"]
    /\ stored \in BOOLEAN /\ data = Stores /\ left = [p \in Page |-> {}]
    /\ wipe = [p \in Page |-> "none"] /\ todo = [p \in Page |-> {}]
-----------------------------------------------------------------------------
(* Opening the database. *)

\* getLocalDb(): joins the memoised promise, or starts an attempt.
Ask(p, callers) ==
    /\ waiting' = [waiting EXCEPT ![p] = @ \cup callers]
    /\ promise' = [promise EXCEPT ![p] = IF @ = "none" THEN "pending" ELSE @]
    /\ UNCHANGED <<pageLock, poolLock, worker, handles>>

\* Loads are interchangeable: the next one is any that was not used.
NextLoad(p) == p = CHOOSE q \in Page : page[q] = "unborn"

\* The boot of the layout asks for the library, the chats and the settings.
OpenApp(p) ==
    /\ page[p] = "unborn" /\ NextLoad(p)
    /\ page' = [page EXCEPT ![p] = "app"]
    /\ Ask(p, {"settings"})
    /\ UNCHANGED <<prefs, stored, data, left, erase>>

\* A later use of the database (a search, an upload, opening a chat) starts
\* again after a failure; otherwise it shares the promise in place.
Use(p) ==
    /\ page[p] = "app" /\ promise[p] = "none"
    /\ Ask(p, {})
    /\ UNCHANGED <<page, prefs, stored, data, left, erase>>

\* The promise rejects: the memo is dropped before any caller hears of it.
\* settingsStore.init keeps its loaded latch, so it never reads again.
Reject(p) ==
    /\ promise' = [promise EXCEPT ![p] = "none"]
    /\ waiting' = [waiting EXCEPT ![p] = {}]
    /\ settings' = [settings EXCEPT ![p] = IF "settings" \in waiting[p] THEN "lost" ELSE @]
    /\ writing' = [writing EXCEPT ![p] = "none"]
    /\ UNCHANGED <<switch, touched>>

\* acquire(): a lock taken by a failed attempt is still held by this page, and
\* then refused to it as to any other.
TakePageLock(p) ==
    /\ page[p] = "app" /\ promise[p] = "pending" /\ worker[p] \in {"none", "failed"}
    /\ \/ /\ pageLock = None
          /\ pageLock' = p
          /\ worker' = [worker EXCEPT ![p] = "asking"]
          /\ UNCHANGED <<promise, waiting, prefs>>
       \/ /\ pageLock # None
          /\ Reject(p)
          /\ UNCHANGED <<pageLock, worker>>
    /\ UNCHANGED <<page, poolLock, handles, stored, data, left, erase>>

\* acquireSingleOwnerLock().
TakePoolLock(p) ==
    /\ page[p] = "app" /\ worker[p] = "asking"
    /\ \/ /\ poolLock = None
          /\ poolLock' = p
          /\ worker' = [worker EXCEPT ![p] = "opening"]
          /\ UNCHANGED <<promise, waiting, prefs>>
       \/ /\ poolLock # None
          /\ worker' = [worker EXCEPT ![p] = "failed"]
          /\ Reject(p)
          /\ UNCHANGED poolLock
    /\ UNCHANGED <<page, pageLock, handles, stored, data, left, erase>>

\* installOpfsSAHPoolVfs makes the files of the pool if they are not there; it
\* does not refuse a second context.  They stay while a worker has them.
InstallPool(p) ==
    /\ page[p] = "app" /\ worker[p] = "opening"
    /\ handles' = handles \cup {p}
    /\ worker' = [worker EXCEPT ![p] = "installed"]
    /\ data' = data \cup {"pool"}
    /\ UNCHANGED <<page, pageLock, poolLock, promise, waiting, prefs, stored, left, erase>>

\* openPool() throws: the lock is handed back; the files already opened are not.
OpenFails(p) ==
    /\ page[p] = "app" /\ worker[p] \in {"opening", "installed"}
    /\ poolLock' = None
    /\ worker' = [worker EXCEPT ![p] = "failed"]
    /\ Reject(p)
    /\ UNCHANGED <<page, pageLock, handles, stored, data, left, erase>>

\* Mutant of OpenDb: the lock is handed back however init ends.
OpenDbUnlocked(p) ==
    /\ page[p] = "app" /\ worker[p] = "installed"
    /\ worker' = [worker EXCEPT ![p] = "open"]
    /\ promise' = [promise EXCEPT ![p] = "open"]
    /\ poolLock' = None
    /\ UNCHANGED <<page, pageLock, handles, waiting, prefs, stored, data, left, erase>>

\* Migrated and ready: dbPromise resolves.
OpenDb(p) ==
    /\ page[p] = "app" /\ worker[p] = "installed"
    /\ worker' = [worker EXCEPT ![p] = "open"]
    /\ promise' = [promise EXCEPT ![p] = "open"]
    /\ UNCHANGED <<page, pageLock, poolLock, handles, waiting, prefs, stored, data, left, erase>>

Answered(p, c) ==
    /\ page[p] = "app" /\ promise[p] = "open" /\ c \in waiting[p]
    /\ waiting' = [waiting EXCEPT ![p] = @ \ {c}]
    /\ UNCHANGED <<page, pageLock, poolLock, worker, handles, promise, data, left, erase>>

\* settingsStore.init: what is stored replaces what the page has.
ReadSettings(p) ==
    /\ Answered(p, "settings")
    /\ settings' = [settings EXCEPT ![p] = "read"]
    /\ switch' = [switch EXCEPT ![p] = stored]
    /\ UNCHANGED <<touched, writing, stored>>
-----------------------------------------------------------------------------
(* The force-offline switch. *)

\* setForceOffline(on), one at a time (bound): the page first, then the database.
SetSwitch(p, on) ==
    /\ page[p] = "app" /\ writing[p] = "none"
    /\ switch' = [switch EXCEPT ![p] = on]
    /\ touched' = touched \cup {p}
    /\ writing' = [writing EXCEPT ![p] = IF on THEN "on" ELSE "off"]
    /\ Ask(p, {"switch"})
    /\ UNCHANGED <<page, settings, stored, data, left, erase>>

\* Calls reach the worker in the order they were made.  A page that stores holds
\* the files of the pool, so that no deletion has taken them from under it.
StoreSwitch(p) ==
    /\ Answered(p, "switch") /\ "settings" \notin waiting[p]
    /\ stored' = (writing[p] = "on")
    /\ writing' = [writing EXCEPT ![p] = "none"]
    /\ UNCHANGED <<settings, switch, touched>>

-----------------------------------------------------------------------------
(* Leaving, and erasing everything. *)

\* The other stores fill up as pages are used: originals by a page that has the
\* database, web storage by any page, caches by the service worker of any.
Put(p, s) ==
    /\ page[p] \in {"app", "wipe"} /\ s \in Filled \ data
    /\ s = "originals" => promise[p] = "open"
    /\ s \in {"originals", "web"} => page[p] = "app"
    /\ data' = data \cup {s}
    /\ UNCHANGED <<page, db, prefs, stored, left, erase>>

\* What goes with a page: its memory, its pending calls and its own lock.
Gone(p) ==
    /\ pageLock' = IF pageLock = p THEN None ELSE pageLock
    /\ promise' = [promise EXCEPT ![p] = "none"]
    /\ waiting' = [waiting EXCEPT ![p] = {}]
    /\ settings' = [settings EXCEPT ![p] = "unread"]
    /\ switch' = [switch EXCEPT ![p] = FALSE]
    /\ touched' = touched \ {p}
    /\ writing' = [writing EXCEPT ![p] = "none"]
    /\ todo' = [todo EXCEPT ![p] = {}]
    /\ UNCHANGED <<poolLock, worker, handles, stored, data>>

\* A page is closed or reloaded.
Close(p) ==
    /\ page[p] \in {"app", "wipe"}
    /\ page' = [page EXCEPT ![p] = "gone"]
    /\ wipe' = [wipe EXCEPT ![p] = "none"]
    /\ left' = [left EXCEPT ![p] = {}]
    /\ Gone(p)

\* The worker of a closed page stops.
WorkerDies(p) ==
    /\ page[p] = "gone" /\ worker[p] # "none"
    /\ worker' = [worker EXCEPT ![p] = "none"]
    /\ poolLock' = IF poolLock = p THEN None ELSE poolLock
    /\ handles' = handles \ {p}
    /\ UNCHANGED <<page, pageLock, promise, waiting, prefs, stored, data, left, erase>>

\* wipeEverything(): the page is replaced by the boot that opens no database.
WipeEverything(p, q) ==
    /\ page[p] = "app" /\ page[q] = "unborn" /\ NextLoad(q)
    /\ page' = [page EXCEPT ![p] = "gone", ![q] = "wipe"]
    /\ wipe' = [wipe EXCEPT ![q] = "stopping"]
    /\ left' = [left EXCEPT ![q] = data]
    /\ Gone(p)

Phase(q, from, to) ==
    /\ wipe[q] = from
    /\ wipe' = [wipe EXCEPT ![q] = to]
    /\ todo' = [todo EXCEPT ![q] = IF to = "deleting" THEN Deletions ELSE @]
    /\ UNCHANGED <<page, db, prefs>>

\* Inference is stopped, or refused to stop: either way the wipe goes on.
InferenceStops(q) == Phase(q, "stopping", "native") /\ UNCHANGED <<stored, data, left>>

\* What is removed of the stores; the database goes with the files of its pool.
Remove(stores) ==
    /\ data' = data \ stores
    /\ left' = [q \in Page |-> left[q] \ stores]
    /\ stored' = IF "pool" \in stores THEN FALSE ELSE stored

\* Clear-Site-Data: served and honoured, files in use excepted, or not at all.
NativeWipe(q) ==
    /\ Phase(q, "native", "deleting")
    /\ Remove(Stores \ {s \in {"pool"} : handles # {}}) \/ UNCHANGED <<stored, data, left>>

Removes(d) == CASE d = "workers" -> {}
                [] d = "caches"  -> {"caches"}
                [] d = "opfs"    -> {"originals", "pool"}

\* Mutant of Delete: an entry that cannot be removed is skipped.
DeleteWhatItCan(q, d) ==
    /\ wipe[q] \in {"deleting", "failed"} /\ d \in todo[q]
    /\ todo' = [todo EXCEPT ![q] = @ \ {d}]
    /\ Remove(Removes(d) \ {s \in {"pool"} : handles # {}})
    /\ UNCHANGED <<page, db, prefs, wipe>>

\* A deletion settles.  Those of an attempt that failed run on behind it.
Delete(q, d) ==
    /\ wipe[q] \in {"deleting", "failed"} /\ d \in todo[q]
    /\ d = "opfs" => handles = {}
    /\ todo' = [todo EXCEPT ![q] = @ \ {d}]
    /\ Remove(Removes(d))
    /\ UNCHANGED <<page, db, prefs, wipe>>

\* A deletion rejects: the browser refuses, or a file is in use.  The directory
\* of the originals may already be gone.  A worker's own shutdown is tolerated.
DeletionFails(q, d) ==
    /\ wipe[q] \in {"deleting", "failed"} /\ d \in todo[q]
    /\ wipe' = [wipe EXCEPT ![q] = "failed"]
    /\ todo' = [todo EXCEPT ![q] = @ \ {d}]
    /\ Remove(Removes(d) \cap {"originals"}) \/ UNCHANGED <<stored, data, left>>
    /\ UNCHANGED <<page, db, prefs>>

\* Mutant of Deadline: the deletions have none.
DeadlineOfShutdown(q) ==
    /\ wipe[q] \in {"stopping", "native"}
    /\ wipe' = [wipe EXCEPT ![q] = IF @ = "stopping" THEN "native" ELSE "deleting"]
    /\ todo' = [todo EXCEPT ![q] = IF wipe[q] = "native" THEN Deletions ELSE @]
    /\ UNCHANGED <<page, db, prefs, stored, data, left>>

\* The deadline of the phase: only the deletions must have succeeded.
Deadline(q) ==
    /\ wipe[q] \in Waits
    /\ wipe' = [wipe EXCEPT ![q] = CASE @ = "stopping" -> "native"
                                     [] @ = "native"   -> "deleting"
                                     [] @ = "deleting" -> "failed"]
    /\ todo' = [todo EXCEPT ![q] = IF wipe[q] = "native" THEN Deletions ELSE @]
    /\ UNCHANGED <<page, db, prefs, stored, data, left>>

ClearWebStorage(q) ==
    /\ todo[q] = {}
    /\ Phase(q, "deleting", "finishing")
    /\ Remove({"web"})

\* The completion page opens in its place, as any load does.
Complete(q) ==
    /\ wipe[q] = "finishing"
    /\ Close(q)

\* The retry button: a new attempt, over all that is there by now.
Retry(q) ==
    /\ Phase(q, "failed", "stopping")
    /\ left' = [left EXCEPT ![q] = data]
    /\ UNCHANGED <<stored, data>>

Next ==
    \/ \E p \in Page :
        \/ OpenApp(p) \/ Use(p) \/ TakePageLock(p) \/ TakePoolLock(p)
        \/ InstallPool(p) \/ OpenFails(p) \/ OpenDb(p)
        \/ ReadSettings(p)
        \/ \E on \in BOOLEAN : SetSwitch(p, on)
        \/ StoreSwitch(p)
        \/ \E s \in Filled : Put(p, s)
        \/ Close(p) \/ WorkerDies(p)
        \/ \E q \in Page : WipeEverything(p, q)
        \/ InferenceStops(p) \/ NativeWipe(p)
        \/ \E d \in Deletions : Delete(p, d) \/ DeletionFails(p, d)
        \/ Deadline(p) \/ ClearWebStorage(p) \/ Complete(p) \/ Retry(p)

\* The timers of the wipe fire and its own continuations run.
Fairness == \A p \in Page : WF_vars(Deadline(p)) /\ WF_vars(ClearWebStorage(p) \/ Complete(p))

Spec == Init /\ [][Next]_vars /\ Fairness
-----------------------------------------------------------------------------
Owner == {p \in Page : worker[p] = "open"}

\* Two workers never have the database open at once, and the one that does
\* holds the lock of the pool and its files: opfs-sahpool corrupts under two
\* connections, and a closing page's worker outlives its page's lock.
SingleOwner ==
    /\ \A p, q \in Owner : p = q
    /\ \A p \in Owner : poolLock = p /\ p \in handles

\* A page that read its settings and whose user has not turned the switch since
\* agrees with the database, whatever the other pages did in between.
SettingsAreCurrent ==
    \A p \in Page :
        page[p] = "app" /\ settings[p] = "read" /\ p \notin touched => switch[p] = stored

\* "Your local data is erased" is shown only when nothing is left of what was
\* there when the person asked, or asked again, whichever pages opened, kept or
\* lost the database during the wipe, and whatever deletions of an attempt that
\* was given up ran on behind.
WipeIsComplete == \A q \in Page : wipe[q] = "finishing" => left[q] = {}

\* panic-wipe.ts: it "verifies that no script-visible store remains".  Nothing
\* does: pages that open or work while it runs fill the stores behind it.
NothingRemains == \A q \in Page : wipe[q] = "finishing" => data = {}

\* net.ts: "When the switch is on, nothing leaves".  Said of a page that has the
\* database open and whose boot has settled.
OfflineMeansOffline ==
    \A p \in Page :
        page[p] = "app" /\ promise[p] = "open" /\ waiting[p] = {} /\ stored => switch[p]

\* worker.ts: an init that failed hands its lock back, so that a retry reports
\* the real fault and not another tab: a page refused the lock shares the origin
\* with another page that has it.
RefusedByAnother ==
    [][\A p \in Page :
        TakePageLock(p) /\ promise'[p] = "none" => pageLock # p]_vars

\* A wipe that runs ends: it completes, or it fails and offers to try again.
WipeEnds ==
    \A q \in Page : wipe[q] \in Waits ~> wipe[q] \in {"finishing", "failed", "none"}

\* The workspace under the locks is one with a single owner.
OwnerOf == IF Owner = {} THEN None ELSE CHOOSE p \in Page : worker[p] = "open"
Abstract == INSTANCE Ownership WITH owner <- OwnerOf
IsOwned == Abstract!Spec
=============================================================================
