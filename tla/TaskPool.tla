------------------------------ MODULE TaskPool ------------------------------
(***************************************************************************)
(* FreeRTOS tasks on the Linux port: xTaskCreate starts a detached thread  *)
(* and then lists it in BRIAND_TASK_POOL, vTaskDelete searches the pool    *)
(* and marks an entry, GetSystemTaskInfo lists the names, and main()       *)
(* sweeps the pool every half second, cancelling what is marked, until     *)
(* Ctrl-C makes it cancel everything.  No lock protects the pool.  A       *)
(* size(), an at(), a push_back(), an erase() or a delete is one step, so  *)
(* that the vector may change between a test and the use it guards; a torn *)
(* operation is not modelled.  at() past the end throws, which nothing     *)
(* catches: the process is aborted.  What is undefined, the use of a       *)
(* destroyed handle and a write past the array of a listing, may abort it  *)
(* too, or goes on with any value.                                         *)
(***************************************************************************)
EXTENDS Integers, Sequences

CONSTANTS Tasks,     \* every task the program may create
          Ids        \* thread ids the C library hands out

Main == "main"
Nobody == "nobody"
NoId == "no id"

ASSUME PoolAssumption ==
  /\ Main \notin Tasks /\ Nobody \notin Tasks
  /\ NoId \notin Ids

Actors == Tasks \cup {Main}

VARIABLES
  pool,      \* BRIAND_TASK_POOL, a handle named by its task
  body,      \* the thread of each task
  id,        \* thread_id in each handle
  maker,     \* who is in xTaskCreate for the task, its thread already started
  call,      \* where each actor is in vTaskDelete or GetSystemTaskInfo
  search,    \* idToKill and i of its vTaskDelete
  listing,   \* array size, max and the names taken by its GetSystemTaskInfo
  asked,     \* history: tasks some call of vTaskDelete was for
  disturbed, \* history: actors in whose vTaskDelete or uxTaskGetSystemState the
             \* pool held a destroyed handle, or an entry was erased
  grown,     \* history: actors in whose listing a task was listed between the
             \* two calls of size()
  marked,    \* handles with toBeKilled
  deleted,   \* handles destroyed
  doomed,    \* threads told to cancel, which happens where they next block
  phase,     \* where main() is
  cursor,    \* index of its loop over the pool, or zero
  ctrlC      \* CTRL_C_EVENT_SET

threadVars == <<body, id, maker>>
callVars == <<call, search, listing>>
history == <<asked, disturbed, grown>>
handleVars == <<marked, deleted, doomed>>
mainVars == <<phase, cursor, ctrlC>>
vars == <<pool, threadVars, callVars, history, handleVars, mainVars>>

InPool(t) == \E i \in 1..Len(pool) : pool[i] = t

NoSearch == [id |-> NoId, at |-> 0]
NoListing == [array |-> 0, max |-> 0, names |-> <<>>]

\* Main's thread id is in no handle.
ThreadId(a) == IF a = Main THEN NoId ELSE id[a]

----------------------------------------------------------------------------
(* Tasks, and app_main on the main thread, creating tasks.                 *)

Busy(a) == (\E t \in Tasks : maker[t] = a) \/ call[a] # "none"

\* The process runs until main() returns or an exception ends it.
Alive == phase \notin {"done", "aborted"}

Runs(a) == Alive /\ IF a = Main THEN phase = "app" ELSE body[a] = "running"

\* The C library gives a new thread an id that no living thread has; the id of
\* a thread that ended may come again.
IsFresh(i) == \A t \in Tasks : id[t] = i => body[t] # "running"

\* xTaskCreate up to the construction of std::thread: the task is running.
StartThread(a, t) ==
  /\ Runs(a) /\ ~Busy(a) /\ body[t] = "unborn"
  /\ \E i \in Ids : IsFresh(i) /\ id' = [id EXCEPT ![t] = i]
  /\ body' = [body EXCEPT ![t] = "running"]
  /\ maker' = [maker EXCEPT ![t] = a]
  /\ UNCHANGED <<pool, callVars, history, handleVars, mainVars>>

\* The rest of xTaskCreate: the handle is listed and the thread detached.
ListTask(t) ==
  /\ Alive /\ maker[t] # Nobody
  /\ pool' = Append(pool, t)
  /\ maker' = [maker EXCEPT ![t] = Nobody]
  /\ grown' = grown \cup {a \in Actors : call[a] = "value"}
  /\ UNCHANGED <<body, id, callVars, asked, disturbed, handleVars, mainVars>>

\* The task function returns, whether it called vTaskDelete or not.
TaskReturns(t) ==
  /\ Alive /\ body[t] = "running" /\ ~Busy(t)
  /\ body' = [body EXCEPT ![t] = "returned"]
  /\ UNCHANGED <<pool, id, maker, callVars, history, handleVars, mainVars>>

\* A cancelled thread ends where it next blocks; the pool functions do not.
ThreadEnds(t) ==
  /\ Alive /\ body[t] = "running" /\ t \in doomed /\ ~Busy(t)
  /\ body' = [body EXCEPT ![t] = "cancelled"]
  /\ UNCHANGED <<pool, id, maker, callVars, history, handleVars, mainVars>>

----------------------------------------------------------------------------
(* vTaskDelete.                                                            *)

At(a, label) == call' = [call EXCEPT ![a] = label]

\* A call returns, its local variables end.
Returns(a) ==
  /\ At(a, "none")
  /\ search' = [search EXCEPT ![a] = NoSearch]
  /\ listing' = [listing EXCEPT ![a] = NoListing]
  /\ disturbed' = disturbed \ {a}
  /\ grown' = grown \ {a}

\* No handle in the pool is destroyed.
PoolLive == \A i \in 1..Len(pool) : pool[i] \notin deleted

\* A call that begins is disturbed from the start by a destroyed handle.
Undisturbed(a) == disturbed' = IF PoolLive THEN disturbed \ {a} ELSE disturbed \cup {a}

\* A handle is destroyed or an entry erased under every call that looks at the pool.
Disturbs == disturbed' = disturbed \cup {a \in Actors : call[a] \notin {"none", "state"}}

\* vTaskDelete(NULL), by the thread itself, or vTaskDelete(handle) with a handle
\* the sweep has not destroyed: the id to seek.  xTaskCreate hands the handle
\* out before it lists it.
BeginDelete(a, t) ==
  /\ Runs(a) /\ ~Busy(a)
  /\ a = t \/ (t \in Tasks /\ body[t] # "unborn" /\ t \notin deleted)
  /\ At(a, "size")
  /\ search' = [search EXCEPT ![a] = [id |-> ThreadId(t), at |-> 1]]
  /\ asked' = asked \cup ({t} \cap Tasks)
  /\ Undisturbed(a)
  /\ UNCHANGED <<pool, threadVars, listing, grown, handleVars, mainVars>>

Entry(a) == pool[search[a].at]
InRange(a) == search[a].at <= Len(pool)

\* i < size(); past the end vTaskDelete returns, whether it marked or not.
SearchTests(a) ==
  /\ Alive /\ call[a] = "size"
  /\ IF InRange(a)
     THEN At(a, "compare") /\ UNCHANGED <<search, listing, disturbed, grown>>
     ELSE Returns(a)
  /\ UNCHANGED <<pool, threadVars, asked, handleVars, mainVars>>

\* Mutant: the search settles for the first entry.
MatchAny(a) == TRUE

Match(a) == id[Entry(a)] = search[a].id

\* at(i)->thread_id == idToKill, which of a destroyed handle may answer anything.
SearchCompares(a) ==
  /\ Alive /\ call[a] = "compare" /\ InRange(a)
  /\ \E hit \in BOOLEAN :
       /\ hit = Match(a) \/ Entry(a) \in deleted
       /\ IF hit THEN At(a, "mark") /\ UNCHANGED search
                 ELSE At(a, "size") /\ search' = [search EXCEPT ![a].at = @ + 1]
  /\ UNCHANGED <<pool, threadVars, listing, history, handleVars, mainVars>>

\* at(i)->toBeKilled = true, whatever is at i by now; on a destroyed handle the
\* mark is lost.
SearchMarks(a) ==
  /\ Alive /\ call[a] = "mark" /\ InRange(a)
  /\ marked' = marked \cup {Entry(a)}
  /\ Returns(a)
  /\ UNCHANGED <<pool, threadVars, asked, deleted, doomed, mainVars>>

----------------------------------------------------------------------------
(* GetSystemTaskInfo.                                                      *)

\* uxTaskGetNumberOfTasks: the size of the array.
BeginList(a) ==
  /\ Runs(a) /\ ~Busy(a)
  /\ At(a, "state")
  /\ listing' = [listing EXCEPT ![a].array = Len(pool)]
  /\ UNCHANGED <<pool, threadVars, search, history, handleVars, mainVars>>

\* uxTaskGetSystemState: nothing for an empty array, and the size of one smaller
\* than the pool.
ListCompares(a) ==
  /\ Alive /\ call[a] = "state"
  /\ IF listing[a].array = 0 \/ listing[a].array < Len(pool)
     THEN At(a, "entry") /\ listing' = [listing EXCEPT ![a].max = listing[a].array]
     ELSE At(a, "value") /\ UNCHANGED listing
  /\ Undisturbed(a)
  /\ UNCHANGED <<pool, threadVars, search, asked, grown, handleVars, mainVars>>

\* Mutant: the array's size is trusted.
ArraySize(a) == listing[a].array

PoolSize(a) == Len(pool)

\* Otherwise the size of the pool, asked for again.
ListSizes(a) ==
  /\ Alive /\ call[a] = "value"
  /\ At(a, "entry")
  /\ listing' = [listing EXCEPT ![a].max = PoolSize(a)]
  /\ UNCHANGED <<pool, threadVars, search, history, handleVars, mainVars>>

Index(a) == Len(listing[a].names) + 1
Filled(a) == Index(a) > listing[a].max

\* pcTaskName = at(i)->name.c_str(), a pointer into the handle.
ListEntry(a) ==
  /\ Alive /\ call[a] = "entry" /\ ~Filled(a) /\ Index(a) <= Len(pool)
  /\ listing' = [listing EXCEPT ![a].names = Append(@, pool[Index(a)])]
  /\ UNCHANGED <<pool, threadVars, call, search, history, handleVars, mainVars>>

\* The names are read through the pointers, and the call returns.
ListPrints(a) ==
  /\ Alive /\ call[a] = "entry" /\ Filled(a)
  /\ Returns(a)
  /\ UNCHANGED <<pool, threadVars, asked, handleVars, mainVars>>

\* at(i) with an index the pool no longer has.
Throws(a) ==
  \/ call[a] \in {"compare", "mark"} /\ ~InRange(a)
  \/ call[a] = "entry" /\ ~Filled(a) /\ Index(a) > Len(pool)

\* The handle at i is destroyed, a name is that of a destroyed handle, or the
\* array has no place for the next one.
Undefined(a) ==
  \/ call[a] \in {"compare", "mark"} /\ InRange(a) /\ Entry(a) \in deleted
  \/ /\ call[a] = "entry" /\ ~Filled(a)
     /\ Index(a) > listing[a].array \/ (Index(a) <= Len(pool) /\ pool[Index(a)] \in deleted)
  \/ /\ call[a] = "entry" /\ Filled(a)
     /\ \E i \in 1..Len(listing[a].names) : listing[a].names[i] \in deleted

Aborts(a) ==
  /\ Alive
  /\ Throws(a) \/ Undefined(a)
  /\ phase' = "aborted"
  /\ UNCHANGED <<pool, threadVars, callVars, history, handleVars, cursor, ctrlC>>

----------------------------------------------------------------------------
(* main().                                                                 *)

\* pthread_cancel: on a thread that has ended it does nothing.
Cancel(t) == doomed' = doomed \cup {u \in Tasks : body[u] = "running" /\ id[u] = id[t]}

Destroy(t) == deleted' = deleted \cup {t}

AppMainReturns ==
  /\ phase = "app" /\ ~Busy(Main)
  /\ phase' = "test"
  /\ UNCHANGED <<pool, threadVars, callVars, history, handleVars, cursor, ctrlC>>

BeginSweep ==
  /\ phase = "test" /\ ~ctrlC
  /\ phase' = "sweep"
  /\ cursor' = 1
  /\ UNCHANGED <<pool, threadVars, callVars, history, handleVars, ctrlC>>

\* Mutant: the sweep stops one entry short.
InSweepShort == phase = "sweep" /\ cursor < Len(pool)

InSweep == phase = "sweep" /\ cursor <= Len(pool)

SweepSkip ==
  /\ InSweep /\ pool[cursor] \notin marked
  /\ cursor' = cursor + 1
  /\ UNCHANGED <<pool, threadVars, callVars, history, handleVars, phase, ctrlC>>

\* Mutant: the entry erased is the one after.
ErasedNext(i) == SubSeq(pool, 1, i) \o SubSeq(pool, i + 2, Len(pool))

\* The pool without its entry i.
Erased(i) == SubSeq(pool, 1, i - 1) \o SubSeq(pool, i + 1, Len(pool))

SweepCancels ==
  /\ InSweep /\ pool[cursor] \in marked
  /\ Cancel(pool[cursor])
  /\ phase' = "destroy"
  /\ UNCHANGED <<pool, threadVars, callVars, history, marked, deleted, cursor, ctrlC>>

\* Until it is erased the entry is a destroyed handle, which other threads may
\* come upon.
SweepDestroys ==
  /\ phase = "destroy"
  /\ Destroy(pool[cursor])
  /\ Disturbs
  /\ phase' = "erase"
  /\ UNCHANGED <<pool, threadVars, callVars, asked, grown, marked, doomed, cursor, ctrlC>>

\* The entry after the erased one moves to the index just visited, and waits
\* for the next sweep.  Only main() erases, so that its own index stays good.
SweepErases ==
  /\ phase = "erase"
  /\ pool' = Erased(cursor)
  /\ cursor' = cursor + 1
  /\ Disturbs
  /\ phase' = "sweep"
  /\ UNCHANGED <<threadVars, callVars, asked, grown, handleVars, ctrlC>>

EndSweep ==
  /\ phase = "sweep" /\ ~InSweep
  /\ phase' = "test"
  /\ cursor' = 0
  /\ UNCHANGED <<pool, threadVars, callVars, history, handleVars, ctrlC>>

PressCtrlC ==
  /\ Alive /\ ~ctrlC
  /\ ctrlC' = TRUE
  /\ UNCHANGED <<pool, threadVars, callVars, history, handleVars, phase, cursor>>

\* Mutant: the kill loop starts one past the end.
PastTheEnd == Len(pool) + 1

LastEntry == Len(pool)

BeginKill ==
  /\ phase = "test" /\ ctrlC
  /\ phase' = "kill"
  /\ cursor' = LastEntry
  /\ UNCHANGED <<pool, threadVars, callVars, history, handleVars, ctrlC>>

\* From the newest entry to the oldest; no entry is erased.
KillCancels ==
  /\ phase = "kill" /\ cursor > 0
  /\ Cancel(pool[cursor])
  /\ phase' = "release"
  /\ UNCHANGED <<pool, threadVars, callVars, history, marked, deleted, cursor, ctrlC>>

KillDestroys ==
  /\ phase = "release"
  /\ Destroy(pool[cursor])
  /\ Disturbs
  /\ cursor' = cursor - 1
  /\ phase' = "kill"
  /\ UNCHANGED <<pool, threadVars, callVars, asked, grown, marked, doomed, ctrlC>>

EndKill ==
  /\ phase = "kill" /\ cursor = 0
  /\ phase' = "done"
  /\ UNCHANGED <<pool, threadVars, callVars, history, handleVars, cursor, ctrlC>>

----------------------------------------------------------------------------

Init ==
  /\ pool = <<>>
  /\ body = [t \in Tasks |-> "unborn"]
  /\ id = [t \in Tasks |-> NoId]
  /\ maker = [t \in Tasks |-> Nobody]
  /\ call = [a \in Actors |-> "none"]
  /\ search = [a \in Actors |-> NoSearch]
  /\ listing = [a \in Actors |-> NoListing]
  /\ asked = {} /\ disturbed = {} /\ grown = {}
  /\ marked = {} /\ deleted = {} /\ doomed = {}
  /\ phase = "app" /\ cursor = 0 /\ ctrlC = FALSE

MainLoop ==
  \/ BeginSweep \/ SweepSkip \/ SweepCancels \/ SweepDestroys \/ SweepErases \/ EndSweep
  \/ BeginKill \/ KillCancels \/ KillDestroys \/ EndKill

Search(a) == SearchTests(a) \/ SearchCompares(a) \/ SearchMarks(a)
List(a) == ListCompares(a) \/ ListSizes(a) \/ ListEntry(a) \/ ListPrints(a)
PoolCall(a) == Search(a) \/ List(a) \/ Aborts(a)

Next ==
  \/ \E a \in Actors, t \in Tasks : StartThread(a, t)
  \/ \E a, t \in Actors : BeginDelete(a, t)
  \/ \E a \in Actors : BeginList(a) \/ PoolCall(a)
  \/ \E t \in Tasks : ListTask(t) \/ TaskReturns(t) \/ ThreadEnds(t)
  \/ AppMainReturns \/ PressCtrlC
  \/ MainLoop

\* main() keeps looping, which is all the sweep needs: the other threads may stop
\* anywhere, a task need not return, and Ctrl-C need not come.
Fairness == WF_vars(MainLoop)

Spec == Init /\ [][Next]_vars /\ Fairness

----------------------------------------------------------------------------
(* Properties.                                                             *)

Phases == {"app", "test", "sweep", "destroy", "erase", "kill", "release",
           "done", "aborted"}

\* Where main() may be until it has seen Ctrl-C.
Scheduling == {"app", "test", "sweep", "destroy", "erase"}

Labels == {"none", "size", "compare", "mark", "state", "value", "entry"}

\* Types; and the kill loop never indexes past the end of the pool.
TypeOK ==
  /\ pool \in Seq(Tasks)
  /\ body \in [Tasks -> {"unborn", "running", "returned", "cancelled"}]
  /\ id \in [Tasks -> Ids \cup {NoId}]
  /\ maker \in [Tasks -> Actors \cup {Nobody}]
  /\ call \in [Actors -> Labels]
  /\ search \in [Actors -> [id : Ids \cup {NoId}, at : Nat]]
  /\ listing \in [Actors -> [array : Nat, max : Nat, names : Seq(Tasks)]]
  /\ asked \subseteq Tasks /\ disturbed \subseteq Actors /\ grown \subseteq Actors
  /\ marked \subseteq Tasks /\ deleted \subseteq Tasks /\ doomed \subseteq Tasks
  /\ phase \in Phases
  /\ cursor \in Nat /\ ctrlC \in BOOLEAN
  /\ phase \in {"kill", "release"} => cursor <= Len(pool)

\* Until Ctrl-C, the pool holds each listed task once, and lists it until the
\* sweep cancels it because it was marked: erasing while counting up loses no
\* other task's entry, and a destroyed handle is left in the pool only for as
\* long as the sweep takes to erase that entry.
PoolExact ==
  phase \in Scheduling =>
    /\ \A i, j \in 1..Len(pool) : pool[i] = pool[j] => i = j
    /\ \A t \in Tasks :
         (InPool(t) \/ t \in deleted) <=> (body[t] # "unborn" /\ maker[t] = Nobody)
    /\ \A i \in 1..Len(pool) : pool[i] \in deleted <=> (phase = "erase" /\ i = cursor)
    /\ deleted \subseteq marked

\* A call of vTaskDelete during which nothing was erased, and no destroyed handle
\* was in the pool, does not throw, marks nobody whose thread has another id than
\* the one sought, and returns without marking only if no entry has that id,
\* whatever was listed meanwhile.
UndisturbedDelete ==
  [][\A a \in Actors \ disturbed :
       call[a] \in {"size", "compare", "mark"} =>
         /\ ~Aborts(a)
         /\ SearchMarks(a) => \A t \in marked' \ marked : id[t] = search[a].id
         /\ (SearchTests(a) /\ call'[a] = "none") =>
              \A t \in Tasks : InPool(t) => id[t] # search[a].id]_vars

\* uxTaskGetSystemState, while nothing is erased and no destroyed handle is in the
\* pool, takes the names of the oldest tasks in order, from live handles and within
\* the pool, though the array was sized for the pool of an earlier moment.
\* Disturbed or not, it writes past that array only if a task was listed between
\* its two calls of size().
UndisturbedListing ==
  \A a \in Actors : call[a] = "entry" =>
    /\ listing[a].max <= listing[a].array \/ a \in grown
    /\ a \notin disturbed =>
         /\ listing[a].names = SubSeq(pool, 1, Len(listing[a].names))
         /\ \A i \in 1..Len(listing[a].names) : listing[a].names[i] \notin deleted
         /\ listing[a].max <= Len(pool)

\* Once app_main has returned, what is marked is swept, though the sweep skips
\* the entry after each one it erases.
MarkedAreSwept ==
  \A t \in Tasks :
    (t \in marked /\ InPool(t) /\ phase # "app")
      ~> (~InPool(t) \/ ctrlC \/ phase = "aborted")

----------------------------------------------------------------------------
(* What the comments of the code say and it does not do.                   *)

\* "Terminate this": until Ctrl-C a thread is cancelled only if some call of
\* vTaskDelete was for it, or for an earlier one with its id.
OnlyAskedAreCancelled ==
  phase \in Scheduling => \A t \in doomed : \E u \in asked : id[u] = id[t]
=============================================================================
