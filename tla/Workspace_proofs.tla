------------------------- MODULE Workspace_proofs -------------------------
(* One owner at a time, and a wipe that leaves nothing of what was there   *)
(* when it was asked for, for any number of page loads.                    *)
EXTENDS Workspace, TLAPS

Holders == {"opening", "installed", "open"}   \* a worker past the pool lock

Shape ==
    /\ page \in [Page -> {"unborn", "app", "wipe", "gone"}]
    /\ worker \in [Page -> {"none", "asking", "opening", "installed", "open", "failed"}]
    /\ wipe \in [Page -> Waits \cup {"none", "finishing", "failed"}]
    /\ todo \in [Page -> SUBSET Deletions]
    /\ stored \in BOOLEAN
    /\ data \subseteq Stores
    /\ left \in [Page -> SUBSET Stores]

(* Past the lock a worker holds it, and past the installation the files:   *)
(* the page's own lock, which goes with the page, plays no part in it.     *)
PoolIsHeld ==
    \A p \in Page :
        /\ worker[p] \in Holders => poolLock = p
        /\ worker[p] \in {"installed", "open"} => p \in handles

(* A deletion of the attempt under way that has settled has removed what   *)
(* the attempt found there, whatever pages have put back since; one that   *)
(* rejects ends the attempt; and only an isolated boot erases.             *)
Progress ==
    \A q \in Page :
        /\ wipe[q] # "none" => page[q] = "wipe"
        /\ wipe[q] = "deleting" => \A d \in Deletions \ todo[q] : Removes(d) \cap left[q] = {}
        /\ wipe[q] = "finishing" => left[q] = {}

IInv == Shape /\ PoolIsHeld /\ Progress

-----------------------------------------------------------------------------
(* Three kinds of step. *)

(* A step of a page that is not erasing: the stores stay, fill up or       *)
(* change value, and what a wipe has still to remove stays.                *)
AppStep(p) ==
    \/ OpenApp(p) \/ Use(p) \/ TakePageLock(p) \/ TakePoolLock(p)
    \/ InstallPool(p) \/ OpenFails(p) \/ OpenDb(p)
    \/ ReadSettings(p) \/ StoreSwitch(p) \/ WorkerDies(p)
    \/ \E s \in Filled : Put(p, s)
    \/ \E on \in BOOLEAN : SetSwitch(p, on)

LeaveStep(p) == Close(p) \/ Complete(p) \/ \E q \in Page : WipeEverything(p, q)

WipeStep(q) ==
    \/ InferenceStops(q) \/ NativeWipe(q) \/ Deadline(q) \/ ClearWebStorage(q) \/ Retry(q)
    \/ \E d \in Deletions : Delete(q, d) \/ DeletionFails(q, d)

LEMMA StepKinds == ASSUME Next PROVE \E p \in Page : AppStep(p) \/ LeaveStep(p) \/ WipeStep(p)
  BY DEF Next, AppStep, LeaveStep, WipeStep

LEMMA InitIInv == ASSUME Init PROVE IInv
  BY DEF Init, IInv, Shape, PoolIsHeld, Progress, Holders, Stores

(* What an opening does to the locks, one case per message.                *)
LEMMA AppKeeps == ASSUME IInv, NEW p \in Page, AppStep(p)
                  PROVE  IInv'
<1> USE DEF IInv, Shape
<1>1. CASE OpenApp(p) \/ Use(p) \/ \E on \in BOOLEAN : SetSwitch(p, on)
  BY <1>1 DEF OpenApp, Use, SetSwitch, Ask, prefs, erase, PoolIsHeld, Progress
<1>2. CASE TakePageLock(p)
  <2>1. UNCHANGED <<page, poolLock, handles, stored, data, left, erase>>
        /\ (worker' = worker \/ worker' = [worker EXCEPT ![p] = "asking"])
    BY <1>2 DEF TakePageLock
  <2> QED BY <2>1 DEF erase, PoolIsHeld, Progress, Holders
<1>3. CASE TakePoolLock(p)
  <2>1. UNCHANGED <<page, handles, stored, data, left, erase>> /\ worker[p] = "asking"
    BY <1>3 DEF TakePoolLock
  <2>2. \/ poolLock = None /\ poolLock' = p /\ worker' = [worker EXCEPT ![p] = "opening"]
        \/ poolLock' = poolLock /\ worker' = [worker EXCEPT ![p] = "failed"]
    BY <1>3 DEF TakePoolLock
  <2>3. \A q \in Page : q # None
    BY WorkspaceAssumption
  <2>4. PoolIsHeld'
    BY <2>1, <2>2, <2>3 DEF PoolIsHeld, Holders
  <2> QED BY <2>1, <2>2, <2>4 DEF erase, Progress
<1>4. CASE InstallPool(p)
  BY <1>4 DEF InstallPool, erase, prefs, PoolIsHeld, Progress, Holders, Stores
<1>5. CASE OpenFails(p)
  <2>1. UNCHANGED <<page, handles, stored, data, left, erase>> /\ worker[p] \in {"opening", "installed"}
        /\ worker' = [worker EXCEPT ![p] = "failed"]
    BY <1>5 DEF OpenFails
  <2>2. \A q \in Page \ {p} : worker[q] \notin Holders
    BY <2>1 DEF PoolIsHeld, Holders
  <2> QED BY <2>1, <2>2 DEF erase, PoolIsHeld, Progress, Holders
<1>6. CASE OpenDb(p)
  BY <1>6 DEF OpenDb, erase, prefs, PoolIsHeld, Progress, Holders
<1>7. CASE ReadSettings(p) \/ StoreSwitch(p)
  <2>1. UNCHANGED <<page, poolLock, worker, handles, data, left, wipe, todo>> /\ stored' \in BOOLEAN
    BY <1>7 DEF ReadSettings, StoreSwitch, Answered, erase
  <2> QED BY <2>1 DEF PoolIsHeld, Progress
<1>8. CASE WorkerDies(p)
  BY <1>8 DEF WorkerDies, erase, PoolIsHeld, Progress, Holders
<1>9. ASSUME NEW s \in Filled, Put(p, s) PROVE IInv'
  BY <1>9, WorkspaceAssumption DEF Put, db, erase, PoolIsHeld, Progress
<1> QED BY <1>1, <1>2, <1>3, <1>4, <1>5, <1>6, <1>7, <1>8, <1>9 DEF AppStep

LEMMA LeaveKeeps == ASSUME IInv, NEW p \in Page, LeaveStep(p)
                    PROVE  IInv'
<1>1. UNCHANGED <<poolLock, worker, handles, stored, data>>
  BY DEF LeaveStep, Close, Complete, WipeEverything, Gone
<1>2. todo' = [todo EXCEPT ![p] = {}]
  BY DEF LeaveStep, Close, Complete, WipeEverything, Gone
<1>3. CASE Close(p) \/ Complete(p)
  BY <1>1, <1>2, <1>3 DEF Close, Complete, IInv, Shape, PoolIsHeld, Progress
<1>4. ASSUME NEW q \in Page, WipeEverything(p, q) PROVE IInv'
  <2>1. /\ page[p] = "app" /\ page[q] = "unborn"
        /\ page' = [page EXCEPT ![p] = "gone", ![q] = "wipe"]
        /\ wipe' = [wipe EXCEPT ![q] = "stopping"]
        /\ left' = [left EXCEPT ![q] = data]
    BY <1>4 DEF WipeEverything
  <2>2. p # q /\ wipe[p] = "none"
    BY <2>1 DEF IInv, Progress
  <2>3. Shape'
    BY <1>1, <1>2, <2>1 DEF IInv, Shape, Waits
  <2>4. Progress'
    BY <1>1, <1>2, <2>1, <2>2 DEF IInv, Shape, Progress
  <2>5. PoolIsHeld'
    BY <1>1 DEF IInv, PoolIsHeld
  <2> QED BY <2>3, <2>4, <2>5 DEF IInv
<1> QED BY <1>3, <1>4 DEF LeaveStep

(* A step of a wipe removes: from what is stored, and from what every wipe  *)
(* under way has still to remove, except that a new attempt takes stock.   *)
LEMMA WipeShrinks == ASSUME IInv, NEW q \in Page, WipeStep(q)
                     PROVE  /\ data' \subseteq data
                            /\ left' \in [Page -> SUBSET Stores]
                            /\ \A r \in Page \ {q} : left'[r] \subseteq left[r]
                            /\ Retry(q) \/ left'[q] \subseteq left[q]
                            /\ UNCHANGED <<page, db>>
                            /\ stored' \in {stored, FALSE}
<1> USE DEF IInv, Shape
<1>1. ASSUME NEW stores, Remove(stores)
      PROVE  /\ data' \subseteq data /\ stored' \in {stored, FALSE}
             /\ left' \in [Page -> SUBSET Stores]
             /\ \A r \in Page : left'[r] \subseteq left[r]
  BY <1>1 DEF Remove
<1>2. CASE InferenceStops(q) \/ Deadline(q)
  BY <1>2 DEF InferenceStops, Deadline, Phase
<1>3. CASE NativeWipe(q)
  BY <1>1, <1>3 DEF NativeWipe, Phase
<1>4. CASE ClearWebStorage(q)
  BY <1>1, <1>4 DEF ClearWebStorage, Phase
<1>5. CASE Retry(q)
  BY <1>5 DEF Retry, Phase
<1>6. ASSUME NEW d \in Deletions, Delete(q, d) \/ DeletionFails(q, d)
      PROVE  UNCHANGED <<page, db>> /\ (UNCHANGED <<stored, data, left>> \/ \E x : Remove(x))
  BY <1>6 DEF Delete, DeletionFails
<1> QED BY <1>1, <1>2, <1>3, <1>4, <1>5, <1>6 DEF WipeStep

LEMMA WipeKeeps == ASSUME IInv, NEW q \in Page, WipeStep(q)
                   PROVE  IInv'
<1>1. PoolIsHeld' /\ page' \in [Page -> {"unborn", "app", "wipe", "gone"}]
      /\ page' = page /\ worker' = worker /\ data' \subseteq Stores /\ stored' \in BOOLEAN
      /\ left' \in [Page -> SUBSET Stores] /\ \A r \in Page \ {q} : left'[r] \subseteq left[r]
  BY WipeShrinks DEF IInv, Shape, PoolIsHeld, db
<1>2. /\ \A r \in Page \ {q} : wipe'[r] = wipe[r] /\ todo'[r] = todo[r]
      /\ wipe' \in [Page -> Waits \cup {"none", "finishing", "failed"}]
      /\ todo' \in [Page -> SUBSET Deletions]
  <2> USE DEF IInv, Shape, Phase, Waits
  <2>1. CASE InferenceStops(q) \/ NativeWipe(q) \/ Retry(q)
    BY <2>1 DEF InferenceStops, NativeWipe, Retry
  <2>2. CASE Deadline(q) \/ ClearWebStorage(q)
    BY <2>2 DEF Deadline, ClearWebStorage
  <2>3. ASSUME NEW d \in Deletions, Delete(q, d) \/ DeletionFails(q, d)
        PROVE  /\ \A r \in Page \ {q} : wipe'[r] = wipe[r] /\ todo'[r] = todo[r]
               /\ wipe' \in [Page -> Waits \cup {"none", "finishing", "failed"}]
               /\ todo' \in [Page -> SUBSET Deletions]
    BY <2>3 DEF Delete, DeletionFails
  <2> QED BY <2>1, <2>2, <2>3 DEF WipeStep
<1>3. /\ wipe'[q] # "none" => page'[q] = "wipe"
      /\ wipe'[q] = "deleting" => \A d \in Deletions \ todo'[q] : Removes(d) \cap left'[q] = {}
      /\ wipe'[q] = "finishing" => left'[q] = {}
  <2> USE DEF IInv, Shape, Progress
  <2>1. CASE InferenceStops(q) \/ Retry(q)
    BY <2>1 DEF InferenceStops, Retry, Phase
  <2>2. CASE NativeWipe(q)
    <3>1. wipe[q] = "native" /\ wipe' = [wipe EXCEPT ![q] = "deleting"]
          /\ todo' = [todo EXCEPT ![q] = Deletions] /\ page' = page
      BY <2>2 DEF NativeWipe, Phase
    <3> QED BY <3>1
  <2>3. CASE Deadline(q)
    BY <2>3 DEF Deadline, Waits
  <2>4. CASE ClearWebStorage(q)
    <3>1. \A d \in Deletions : Removes(d) \cap left[q] = {}
      BY <2>4 DEF ClearWebStorage, Phase
    <3>2. left[q] \subseteq {"web"}
      BY <3>1 DEF Deletions, Removes, Stores
    <3> QED BY <2>4, <3>2 DEF ClearWebStorage, Phase, Remove
  <2>5. ASSUME NEW d \in Deletions, Delete(q, d)
        PROVE  /\ wipe'[q] # "none" => page'[q] = "wipe"
               /\ wipe'[q] = "deleting" => \A e \in Deletions \ todo'[q] : Removes(e) \cap left'[q] = {}
               /\ wipe'[q] = "finishing" => left'[q] = {}
    BY <2>5 DEF Delete, Remove
  <2>6. ASSUME NEW d \in Deletions, DeletionFails(q, d)
        PROVE  wipe[q] # "none" /\ wipe'[q] = "failed" /\ page' = page
    BY <2>6 DEF DeletionFails
  <2> QED BY <2>1, <2>2, <2>3, <2>4, <2>5, <2>6 DEF WipeStep
<1>4. Progress'
  BY <1>1, <1>2, <1>3 DEF IInv, Progress
<1> QED BY <1>1, <1>2, <1>4 DEF IInv, Shape

LEMMA NextIInv == ASSUME IInv, [Next]_vars PROVE IInv'
<1>1. CASE UNCHANGED vars
  BY <1>1 DEF vars, db, erase, IInv, Shape, PoolIsHeld, Progress
<1>2. CASE Next
  BY <1>2, StepKinds, AppKeeps, LeaveKeeps, WipeKeeps
<1> QED BY <1>1, <1>2

LEMMA AlwaysIInv == Spec => []IInv
<1>1. Init => IInv
  BY InitIInv
<1>2. IInv /\ [Next]_vars => IInv'
  BY NextIInv
<1> QED BY <1>1, <1>2, PTL DEF Spec

(* Two workers never have the database open at once, and the one that does  *)
(* holds the lock of the pool and its files.                                *)
THEOREM OneOwner == Spec => []SingleOwner
<1>1. IInv => SingleOwner
  BY DEF IInv, PoolIsHeld, Holders, SingleOwner, Owner
<1> QED BY <1>1, AlwaysIInv, PTL

(* "Your local data is erased" is shown only when nothing is left of what   *)
(* was there when the person asked, or asked again, whatever other pages    *)
(* do and put back meanwhile and however many attempts ran before.          *)
THEOREM WipeLeavesNothing == Spec => []WipeIsComplete
<1>1. IInv => WipeIsComplete
  BY DEF IInv, Progress, WipeIsComplete
<1> QED BY <1>1, AlwaysIInv, PTL

-----------------------------------------------------------------------------
(* The refinement. *)

(* A page whose promise resolved has the database open: neither a retry nor *)
(* the end of its worker leaves a resolved promise behind.                  *)
Promised ==
    /\ promise \in [Page -> {"none", "pending", "open"}]
    /\ \A p \in Page : promise[p] = "open" => page[p] = "app" /\ worker[p] = "open"

LEMMA PromisedKept == ASSUME IInv, Promised, [Next]_vars PROVE Promised'
<1> USE DEF IInv, Shape, Promised
<1>1. CASE UNCHANGED vars
  BY <1>1 DEF vars, db
<1>2. ASSUME NEW p \in Page,
             OpenApp(p) \/ Use(p) \/ \E on \in BOOLEAN : SetSwitch(p, on)
      PROVE  Promised'
  <2>1. /\ promise' = [promise EXCEPT ![p] = IF @ = "none" THEN "pending" ELSE @]
        /\ worker' = worker
        /\ page' = page \/ page' = [page EXCEPT ![p] = "app"]
    BY <1>2 DEF OpenApp, Use, SetSwitch, Ask
  <2> QED BY <2>1
<1>3. ASSUME NEW p \in Page, TakePageLock(p) \/ TakePoolLock(p) \/ OpenFails(p)
      PROVE  Promised'
  <2>1. page' = page /\ worker[p] # "open"
    BY <1>3 DEF TakePageLock, TakePoolLock, OpenFails
  <2>2. /\ promise' = promise \/ promise' = [promise EXCEPT ![p] = "none"]
        /\ \A q \in Page \ {p} : worker'[q] = worker[q]
    BY <1>3 DEF TakePageLock, TakePoolLock, OpenFails, Reject
  <2> QED BY <2>1, <2>2
<1>4. ASSUME NEW p \in Page, InstallPool(p) \/ OpenDb(p)
      PROVE  Promised'
  BY <1>4 DEF InstallPool, OpenDb
<1>5. ASSUME NEW p \in Page, ReadSettings(p) \/ StoreSwitch(p) \/ \E s \in Filled : Put(p, s)
      PROVE  Promised'
  BY <1>5 DEF ReadSettings, StoreSwitch, Answered, Put, db
<1>6. ASSUME NEW p \in Page, WorkerDies(p) PROVE Promised'
  BY <1>6 DEF WorkerDies
<1>7. ASSUME NEW p \in Page, LeaveStep(p) PROVE Promised'
  <2>1. promise' = [promise EXCEPT ![p] = "none"] /\ worker' = worker
    BY <1>7 DEF LeaveStep, Close, Complete, WipeEverything, Gone
  <2>2. \A q \in Page \ {p} : page[q] = "app" => page'[q] = "app"
    BY <1>7 DEF LeaveStep, Close, Complete, WipeEverything
  <2> QED BY <2>1, <2>2
<1>8. ASSUME NEW p \in Page, WipeStep(p) PROVE Promised'
  BY <1>8, WipeShrinks DEF db
<1>9. CASE Next
  BY <1>2, <1>3, <1>4, <1>5, <1>6, <1>7, <1>8, <1>9, StepKinds DEF AppStep
<1> QED BY <1>1, <1>9

LEMMA AlwaysPromised == Spec => [](IInv /\ Promised)
<1>1. Init => IInv /\ Promised
  BY InitIInv DEF Init, Promised
<1>2. IInv /\ Promised /\ [Next]_vars => (IInv /\ Promised)'
  BY NextIInv, PromisedKept
<1> QED BY <1>1, <1>2, PTL DEF Spec

(* The owner of the abstract workspace is read off the workers.             *)
LEMMA OwnerIsOpen == ASSUME IInv, NEW p \in Page, worker[p] = "open" PROVE OwnerOf = p
  BY DEF IInv, PoolIsHeld, Holders, Owner, OwnerOf

LEMMA NobodyIsOpen == ASSUME \A p \in Page : worker[p] # "open" PROVE OwnerOf = None
  BY DEF Owner, OwnerOf

(* A step that neither opens a worker nor ends an open one keeps the owner. *)
LEMMA OwnerStays == ASSUME IInv, IInv',
                           \A p \in Page : worker'[p] = "open" <=> worker[p] = "open"
                    PROVE  OwnerOf' = OwnerOf
<1>1. CASE \E p \in Page : worker[p] = "open"
  <2>1. PICK p \in Page : worker[p] = "open"
    BY <1>1
  <2>2. OwnerOf = p
    BY <2>1, OwnerIsOpen
  <2>3. OwnerOf' = p
    BY <2>1 DEF IInv, PoolIsHeld, Holders, Owner, OwnerOf
  <2> QED BY <2>2, <2>3
<1>2. CASE \A p \in Page : worker[p] # "open"
  BY <1>2 DEF Owner, OwnerOf
<1> QED BY <1>1, <1>2

(* The files of the pool are removed only when no worker has them, so that  *)
(* nobody owns the workspace that a deletion erases.                        *)
LEMMA ErasedUnowned == ASSUME IInv, NEW q \in Page, WipeStep(q), stored' # stored
                       PROVE  stored' = FALSE /\ handles = {}
<1>1. stored' = FALSE
  BY WipeShrinks
<1>2. ASSUME NEW d \in Deletions, Delete(q, d) PROVE handles = {}
  BY <1>2 DEF Delete, Remove, Removes, Deletions
<1>3. ASSUME NativeWipe(q) PROVE handles = {}
  BY <1>3 DEF NativeWipe, Remove
<1>4. ASSUME InferenceStops(q) \/ Deadline(q) \/ ClearWebStorage(q) \/ Retry(q) PROVE FALSE
  BY <1>4 DEF InferenceStops, Deadline, ClearWebStorage, Retry, Remove
<1>5. ASSUME NEW d \in Deletions, DeletionFails(q, d) PROVE FALSE
  BY <1>5 DEF DeletionFails, Remove
<1> QED BY <1>1, <1>2, <1>3, <1>4, <1>5 DEF WipeStep

(* Every step takes, leaves, writes or erases the workspace, or is nothing  *)
(* to it.                                                                   *)
LEMMA StepIsOwned == ASSUME IInv, IInv', Promised, [Next]_vars
                     PROVE  [Abstract!Next]_(Abstract!vars)
<1> USE DEF IInv, Shape
<1>1. ASSUME \A p \in Page : worker'[p] = "open" <=> worker[p] = "open", stored' = stored
      PROVE  UNCHANGED Abstract!vars
  BY <1>1, OwnerStays DEF Abstract!vars
<1>2. CASE UNCHANGED vars
  BY <1>1, <1>2 DEF vars, db
<1>3. ASSUME NEW p \in Page,
             \/ OpenApp(p) \/ Use(p) \/ TakePageLock(p) \/ TakePoolLock(p)
             \/ InstallPool(p) \/ OpenFails(p) \/ ReadSettings(p)
             \/ \E on \in BOOLEAN : SetSwitch(p, on)
             \/ \E s \in Filled : Put(p, s)
      PROVE  UNCHANGED Abstract!vars
  <2>1. stored' = stored
    BY <1>3 DEF OpenApp, Use, TakePageLock, TakePoolLock, InstallPool, OpenFails,
                ReadSettings, Answered, SetSwitch, Ask, Put, db
  <2>2. /\ \A q \in Page \ {p} : worker'[q] = worker[q]
        /\ worker'[p] = "open" <=> worker[p] = "open"
    BY <1>3 DEF OpenApp, Use, TakePageLock, TakePoolLock, InstallPool, OpenFails,
                ReadSettings, Answered, SetSwitch, Ask, Put, db
  <2> QED BY <1>1, <2>1, <2>2
<1>4. ASSUME NEW p \in Page, OpenDb(p) PROVE Abstract!Take(p)
  <2>1. worker[p] = "installed" /\ worker'[p] = "open" /\ stored' = stored
    BY <1>4 DEF OpenDb
  <2>2. \A q \in Page : worker[q] # "open"
    BY <2>1 DEF PoolIsHeld, Holders
  <2>3. OwnerOf = None
    BY <2>2, NobodyIsOpen
  <2>4. OwnerOf' = p
    BY <2>1 DEF PoolIsHeld, Holders, Owner, OwnerOf
  <2> QED BY <2>1, <2>3, <2>4 DEF Abstract!Take
<1>5. ASSUME NEW p \in Page, WorkerDies(p), worker[p] = "open" PROVE Abstract!Leave
  <2>1. OwnerOf = p /\ p # None
    BY <1>5, OwnerIsOpen, WorkspaceAssumption
  <2>2. \A q \in Page : worker'[q] # "open"
    BY <1>5 DEF WorkerDies, PoolIsHeld, Holders
  <2>3. OwnerOf' = None
    BY <2>2 DEF Owner, OwnerOf
  <2>4. stored' = stored
    BY <1>5 DEF WorkerDies
  <2> QED BY <2>1, <2>3, <2>4 DEF Abstract!Leave
<1>6. ASSUME NEW p \in Page, WorkerDies(p), worker[p] # "open" PROVE UNCHANGED Abstract!vars
  BY <1>1, <1>6 DEF WorkerDies
<1>7. ASSUME NEW p \in Page, StoreSwitch(p) PROVE Abstract!Write(stored')
  <2>1. worker[p] = "open" /\ worker' = worker
    BY <1>7 DEF StoreSwitch, Answered, Promised
  <2>2. OwnerOf = p /\ p # None
    BY <2>1, OwnerIsOpen, WorkspaceAssumption
  <2>3. OwnerOf' = OwnerOf
    BY <2>1, OwnerStays
  <2> QED BY <2>2, <2>3 DEF Abstract!Write
<1>8. ASSUME NEW p \in Page, LeaveStep(p) PROVE UNCHANGED Abstract!vars
  <2>1. UNCHANGED <<worker, stored>>
    BY <1>8 DEF LeaveStep, Close, Complete, WipeEverything, Gone
  <2> QED BY <1>1, <2>1
<1>9. ASSUME NEW p \in Page, WipeStep(p), stored' # stored PROVE Abstract!Erase
  <2>1. stored' = FALSE /\ handles = {}
    BY <1>9, ErasedUnowned
  <2>2. UNCHANGED worker
    BY <1>9, WipeShrinks DEF db
  <2>3. \A q \in Page : worker[q] # "open"
    BY <2>1 DEF PoolIsHeld
  <2>4. OwnerOf = None
    BY <2>3, NobodyIsOpen
  <2>5. OwnerOf' = OwnerOf
    BY <2>2, OwnerStays
  <2> QED BY <2>1, <2>4, <2>5 DEF Abstract!Erase
<1>10. ASSUME NEW p \in Page, WipeStep(p), stored' = stored PROVE UNCHANGED Abstract!vars
  <2>1. UNCHANGED worker
    BY <1>10, WipeShrinks DEF db
  <2> QED BY <1>1, <1>10, <2>1
<1>11. CASE Next
  <2>1. PICK p \in Page : AppStep(p) \/ LeaveStep(p) \/ WipeStep(p)
    BY <1>11, StepKinds
  <2>2. CASE AppStep(p)
    <3>1. CASE StoreSwitch(p)
      <4>1. stored' \in BOOLEAN
        BY <3>1 DEF StoreSwitch
      <4> QED BY <1>7, <3>1, <4>1 DEF Abstract!Next
    <3> QED BY <1>3, <1>4, <1>5, <1>6, <2>2, <3>1 DEF AppStep, Abstract!Next
  <2> QED BY <1>8, <1>9, <1>10, <2>1, <2>2 DEF Abstract!Next
<1> QED BY <1>2, <1>11

(* The pages under their two locks implement a workspace with one owner at  *)
(* a time: only the page that owns it writes to it, and it is erased only   *)
(* when nobody does.                                                        *)
THEOREM WorkspaceIsOwned == Spec => IsOwned
<1>1. Init => Abstract!Init
  BY NobodyIsOpen DEF Init, Abstract!Init
<1>2. IInv /\ IInv' /\ Promised /\ [Next]_vars => [Abstract!Next]_(Abstract!vars)
  BY StepIsOwned
<1> QED BY <1>1, <1>2, AlwaysPromised, PTL DEF Spec, IsOwned, Abstract!Spec

-----------------------------------------------------------------------------
(* What the pages know of the switch. *)

(* A page that has read its settings has the database open, and so has no   *)
(* other; a value still to be stored is one that its user chose.            *)
Informed ==
    \A p \in Page :
        /\ settings[p] = "read" => promise[p] = "open"
        /\ "switch" \in waiting[p] => p \in touched

SettingsInv == Informed /\ SettingsAreCurrent

PrefsShape ==
    /\ settings \in [Page -> {"unread", "read", "lost"}]
    /\ switch \in [Page -> BOOLEAN]
    /\ waiting \in [Page -> SUBSET Caller]

LEMMA PrefsShapeKept == ASSUME IInv, PrefsShape, [Next]_vars PROVE PrefsShape'
<1> USE DEF IInv, Shape, PrefsShape
<1>1. CASE UNCHANGED vars
  BY <1>1 DEF vars, db, prefs
<1>2. ASSUME NEW p \in Page, OpenApp(p) \/ Use(p) \/ \E on \in BOOLEAN : SetSwitch(p, on)
      PROVE  PrefsShape'
  BY <1>2 DEF OpenApp, Use, SetSwitch, Ask, prefs, Caller
<1>3. ASSUME NEW p \in Page, TakePageLock(p) \/ TakePoolLock(p) \/ OpenFails(p)
      PROVE  PrefsShape'
  BY <1>3 DEF TakePageLock, TakePoolLock, OpenFails, Reject, prefs
<1>4. ASSUME NEW p \in Page, InstallPool(p) \/ OpenDb(p) \/ WorkerDies(p)
      PROVE  PrefsShape'
  BY <1>4 DEF InstallPool, OpenDb, WorkerDies, prefs
<1>5. ASSUME NEW p \in Page, ReadSettings(p) \/ StoreSwitch(p) \/ \E s \in Filled : Put(p, s)
      PROVE  PrefsShape'
  BY <1>5 DEF ReadSettings, StoreSwitch, Answered, Put, db, prefs
<1>6. ASSUME NEW p \in Page, LeaveStep(p) PROVE PrefsShape'
  BY <1>6 DEF LeaveStep, Close, Complete, WipeEverything, Gone
<1>7. ASSUME NEW p \in Page, WipeStep(p) PROVE PrefsShape'
  <2>1. UNCHANGED prefs
    BY <1>7 DEF WipeStep, InferenceStops, NativeWipe, Deadline, ClearWebStorage, Retry, Delete,
                DeletionFails, Phase
  <2> QED BY <1>7, <2>1, WipeShrinks DEF db, prefs
<1>8. CASE Next
  BY <1>2, <1>3, <1>4, <1>5, <1>6, <1>7, <1>8, StepKinds DEF AppStep
<1> QED BY <1>1, <1>8

(* The value in the database changes under one page that wrote it, or under *)
(* no page at all.                                                          *)
LEMMA SettingsKept ==
    ASSUME IInv, Promised, PrefsShape, SettingsInv, [Next]_vars
    PROVE  SettingsInv'
<1> USE DEF IInv, Shape, Promised, PrefsShape, SettingsInv, Informed, SettingsAreCurrent
<1>1. CASE UNCHANGED vars
  BY <1>1 DEF vars, db, prefs
<1>2. ASSUME NEW p \in Page, OpenApp(p) \/ Use(p) PROVE SettingsInv'
  BY <1>2 DEF OpenApp, Use, Ask, prefs
<1>3. ASSUME NEW p \in Page, NEW on \in BOOLEAN, SetSwitch(p, on) PROVE SettingsInv'
  BY <1>3 DEF SetSwitch, Ask
<1>4. ASSUME NEW p \in Page, TakePageLock(p) \/ TakePoolLock(p) \/ OpenFails(p)
      PROVE  SettingsInv'
  <2>1. settings[p] # "read"
    BY <1>4 DEF TakePageLock, TakePoolLock, OpenFails
  <2>2. UNCHANGED <<page, stored, switch, touched>>
    BY <1>4 DEF TakePageLock, TakePoolLock, OpenFails, Reject, prefs
  <2>3. \/ UNCHANGED <<promise, waiting, settings>>
        \/ /\ promise' = [promise EXCEPT ![p] = "none"]
           /\ waiting' = [waiting EXCEPT ![p] = {}]
           /\ settings' = [settings EXCEPT ![p] = IF "settings" \in waiting[p] THEN "lost" ELSE @]
    BY <1>4 DEF TakePageLock, TakePoolLock, OpenFails, Reject, prefs
  <2> QED BY <2>1, <2>2, <2>3
<1>5. ASSUME NEW p \in Page,
             InstallPool(p) \/ OpenDb(p) \/ WorkerDies(p) \/ \E s \in Filled : Put(p, s)
      PROVE  SettingsInv'
  BY <1>5 DEF InstallPool, OpenDb, WorkerDies, prefs, Put, db
<1>6. ASSUME NEW p \in Page, ReadSettings(p) PROVE SettingsInv'
  BY <1>6 DEF ReadSettings, Answered
<1>7. ASSUME NEW p \in Page, StoreSwitch(p) PROVE SettingsInv'
  <2>1. p \in touched /\ worker[p] = "open"
    BY <1>7 DEF StoreSwitch, Answered
  <2>2. \A q \in Page \ {p} : settings[q] # "read"
    BY <2>1 DEF PoolIsHeld, Holders
  <2>3. UNCHANGED <<page, promise, settings, switch, touched>>
        /\ waiting' = [waiting EXCEPT ![p] = @ \ {"switch"}]
    BY <1>7 DEF StoreSwitch, Answered
  <2> QED BY <2>1, <2>2, <2>3
<1>8. ASSUME NEW p \in Page, LeaveStep(p) PROVE SettingsInv'
  <2>1. /\ promise' = [promise EXCEPT ![p] = "none"] /\ waiting' = [waiting EXCEPT ![p] = {}]
        /\ settings' = [settings EXCEPT ![p] = "unread"] /\ touched' = touched \ {p}
        /\ switch' = [switch EXCEPT ![p] = FALSE] /\ stored' = stored
    BY <1>8 DEF LeaveStep, Close, Complete, WipeEverything, Gone
  <2>2. \A q \in Page \ {p} : page'[q] = "app" => page[q] = "app"
    BY <1>8 DEF LeaveStep, Close, Complete, WipeEverything
  <2> QED BY <2>1, <2>2
<1>9. ASSUME NEW p \in Page, WipeStep(p) PROVE SettingsInv'
  <2>1. UNCHANGED prefs
    BY <1>9 DEF WipeStep, InferenceStops, NativeWipe, Deadline, ClearWebStorage, Retry, Delete,
                DeletionFails, Phase
  <2>2. UNCHANGED <<page, promise, waiting>>
    BY <1>9, WipeShrinks DEF db
  <2>3. CASE stored' = stored
    BY <2>1, <2>2, <2>3 DEF prefs
  <2>4. CASE stored' # stored
    <3>1. handles = {}
      BY <1>9, <2>4, ErasedUnowned
    <3>2. \A q \in Page : settings[q] # "read"
      BY <3>1 DEF PoolIsHeld
    <3> QED BY <2>1, <2>2, <3>2 DEF prefs
  <2> QED BY <2>3, <2>4
<1>10. CASE Next
  BY <1>2, <1>3, <1>4, <1>5, <1>6, <1>7, <1>8, <1>9, <1>10, StepKinds DEF AppStep
<1> QED BY <1>1, <1>10

(* What a page shows of the switch is what the database holds, as long as   *)
(* its user has not turned it, whatever the other pages write, erase or     *)
(* leave behind: whoever reads the settings owns the database until the end *)
(* of the page, and the one who stores a value is that same page.           *)
THEOREM SwitchIsAsStored == Spec => []SettingsAreCurrent
<1>1. Init => PrefsShape /\ SettingsInv
  BY DEF Init, PrefsShape, SettingsInv, Informed, SettingsAreCurrent
<1>2. IInv /\ Promised /\ PrefsShape /\ SettingsInv /\ [Next]_vars => (PrefsShape /\ SettingsInv)'
  BY PrefsShapeKept, SettingsKept
<1>3. SettingsInv => SettingsAreCurrent
  BY DEF SettingsInv
<1> QED BY <1>1, <1>2, <1>3, AlwaysPromised, PTL DEF Spec
=============================================================================
