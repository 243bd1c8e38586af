--------------------------- MODULE TaskPoolProofs ---------------------------
(***************************************************************************)
(* Proofs about TaskPool, for any set of tasks and of thread ids.          *)
(***************************************************************************)
EXTENDS TaskPool, SequenceTheorems, TLAPS

Searching(a) == call[a] \in {"size", "compare", "mark"}

\* Indexes start at one, names are taken in one call, and main() is at an entry
\* while it cancels, destroys and erases it.
Places ==
  /\ \A a \in Actors : /\ Searching(a) => search[a].at >= 1
                       /\ call[a] # "entry" => listing[a].names = <<>>
  /\ phase = "sweep" => cursor >= 1
  /\ phase \in {"destroy", "erase"} => cursor \in 1..Len(pool)
  /\ phase = "destroy" => pool[cursor] \in marked
  /\ phase = "release" => cursor > 0

\* A task in the pool, or swept from it, was started and is no longer on its
\* way there.
Born ==
  \A t \in Tasks :
    /\ InPool(t) \/ t \in deleted => body[t] # "unborn" /\ maker[t] = Nobody
    /\ maker[t] # Nobody => body[t] # "unborn"

\* A listing stays in its array unless a task was listed at the wrong moment.
ArrayGood ==
  \A a \in Actors :
    /\ call[a] = "value" => Len(pool) <= listing[a].array \/ a \in grown
    /\ call[a] = "entry" => listing[a].max <= listing[a].array \/ a \in grown

\* While a call is not disturbed, the pool holds no destroyed handle.
Looking(a) == call[a] \in {"size", "compare", "mark", "value", "entry"}
LiveUnderCalls == (\E a \in Actors \ disturbed : Looking(a)) => PoolLive

\* What a listing that nothing disturbed knows of the pool.
NamesGood(a) ==
  /\ listing[a].names = SubSeq(pool, 1, Len(listing[a].names))
  /\ listing[a].max <= Len(pool)
  /\ Len(listing[a].names) <= Len(pool)

NamesExact == \A a \in Actors \ disturbed : call[a] = "entry" => NamesGood(a)

\* What a search that nothing disturbed knows of the entries behind it, and of
\* the one it is at.
SearchGood(a) ==
  /\ search[a].at - 1 <= Len(pool)
  /\ \A k \in 1..(search[a].at - 1) : id[pool[k]] # search[a].id
  /\ call[a] \in {"compare", "mark"} => InRange(a)
  /\ call[a] = "mark" => Match(a)

SearchExact == \A a \in Actors \ disturbed : Searching(a) => SearchGood(a)

IInv ==
  /\ TypeOK /\ Places /\ Born /\ PoolExact
  /\ ArrayGood /\ LiveUnderCalls /\ NamesExact /\ SearchExact

----------------------------------------------------------------------------
(* The pool.                                                               *)

LEMMA ActorConstants ==
  /\ Nobody \notin Actors /\ Main \in Actors /\ Tasks \subseteq Actors
  BY PoolAssumption DEF Actors, Main, Nobody

LEMMA PoolEntries ==
  ASSUME TypeOK
  PROVE  Len(pool) \in Nat /\ \A i \in 1..Len(pool) : pool[i] \in Tasks
  BY LenProperties, ElementOfSeq DEF TypeOK

\* Erasing an entry keeps the others, in their order.
LEMMA ErasedEntries ==
  ASSUME TypeOK, NEW i \in 1..Len(pool)
  PROVE  /\ Erased(i) \in Seq(Tasks)
         /\ Len(Erased(i)) = Len(pool) - 1
         /\ \A k \in 1..(Len(pool) - 1) :
              Erased(i)[k] = IF k < i THEN pool[k] ELSE pool[k + 1]
<1> DEFINE before == SubSeq(pool, 1, i - 1)
           behind == SubSeq(pool, i + 1, Len(pool))
<1>1. Len(pool) \in Nat /\ i \in Nat /\ \A k \in 1..Len(pool) : pool[k] \in Tasks
  BY PoolEntries
<1>2. /\ before \in Seq(Tasks) /\ Len(before) = i - 1
      /\ \A k \in 1..(i - 1) : before[k] = pool[k]
  <2>1. \A k \in 1..(i - 1) : pool[k] \in Tasks
    BY <1>1
  <2>2. /\ before \in Seq(Tasks)
        /\ Len(before) = IF 1 <= i - 1 THEN (i - 1) - 1 + 1 ELSE 0
        /\ \A k \in 1..((i - 1) - 1 + 1) : before[k] = pool[1 + k - 1]
    BY <1>1, <2>1, SubSeqProperties
  <2> HIDE DEF before
  <2> QED  BY <1>1, <2>2
<1>3. /\ behind \in Seq(Tasks) /\ Len(behind) = Len(pool) - i
      /\ \A k \in 1..(Len(pool) - i) : behind[k] = pool[k + i]
  <2>1. \A k \in (i + 1)..Len(pool) : pool[k] \in Tasks
    BY <1>1
  <2>2. /\ behind \in Seq(Tasks)
        /\ Len(behind) = IF i + 1 <= Len(pool) THEN Len(pool) - (i + 1) + 1 ELSE 0
        /\ \A k \in 1..(Len(pool) - (i + 1) + 1) : behind[k] = pool[(i + 1) + k - 1]
    BY <1>1, <2>1, SubSeqProperties
  <2> HIDE DEF behind
  <2>3. \A k \in 1..(Len(pool) - i) : (i + 1) + k - 1 = k + i
    BY <1>1
  <2> QED  BY <1>1, <2>2, <2>3
<1>4. Erased(i) = before \o behind
  BY DEF Erased
<1> HIDE DEF before, behind
<1>5. /\ Erased(i) \in Seq(Tasks)
      /\ Len(Erased(i)) = (i - 1) + (Len(pool) - i)
      /\ \A k \in 1..((i - 1) + (Len(pool) - i)) :
           Erased(i)[k] = IF k <= i - 1 THEN before[k] ELSE behind[k - (i - 1)]
  <2>1. before \in Seq(Tasks) /\ behind \in Seq(Tasks)
    BY <1>2, <1>3
  <2>2. /\ before \o behind \in Seq(Tasks)
        /\ Len(before \o behind) = Len(before) + Len(behind)
        /\ \A k \in 1..(Len(before) + Len(behind)) :
             (before \o behind)[k] =
               IF k <= Len(before) THEN before[k] ELSE behind[k - Len(before)]
    BY <2>1, ConcatProperties
  <2> QED  BY <1>2, <1>3, <1>4, <2>2
<1>6. ASSUME NEW k \in 1..(Len(pool) - 1)
      PROVE  Erased(i)[k] = IF k < i THEN pool[k] ELSE pool[k + 1]
  <2>1. CASE k < i
    BY <1>1, <1>2, <1>5, <2>1
  <2>2. CASE k >= i
    <3>1. Erased(i)[k] = behind[k - (i - 1)]
      BY <1>1, <1>5, <2>2
    <3>2. k - (i - 1) \in 1..(Len(pool) - i) /\ (k - (i - 1)) + i = k + 1
      BY <1>1, <2>2
    <3>3. behind[k - (i - 1)] = pool[k + 1]
      BY <1>3, <3>2
    <3> QED  BY <1>1, <2>2, <3>1, <3>3
  <2> QED  BY <1>1, <2>1, <2>2
<1>7. (i - 1) + (Len(pool) - i) = Len(pool) - 1
  BY <1>1
<1> QED  BY <1>5, <1>6, <1>7

LEMMA AppendedEntries ==
  ASSUME TypeOK, NEW t \in Tasks, pool' = Append(pool, t)
  PROVE  /\ pool' \in Seq(Tasks) /\ Len(pool') = Len(pool) + 1
         /\ pool'[Len(pool) + 1] = t
         /\ \A i \in 1..Len(pool) : pool'[i] = pool[i]
  BY AppendProperties DEF TypeOK

----------------------------------------------------------------------------
(* Types and places.                                                       *)

LEMMA InitIInv == Init => IInv
<1> SUFFICES ASSUME Init PROVE IInv
  OBVIOUS
<1>1. <<>> \in Seq(Tasks) /\ Len(<<>>) = 0
  BY EmptySeq
<1>2. TypeOK
  BY <1>1, ActorConstants DEF Init, TypeOK, NoSearch, NoListing, Labels, Phases
<1>3. Places
  BY DEF Init, Places, Searching, NoListing
<1>4. Born /\ PoolExact
  BY <1>1 DEF Init, Born, PoolExact, InPool
<1>5. ArrayGood /\ LiveUnderCalls /\ NamesExact /\ SearchExact
  BY DEF Init, ArrayGood, LiveUnderCalls, Looking, NamesExact, SearchExact, Searching
<1> QED  BY <1>2, <1>3, <1>4, <1>5 DEF IInv

LEMMA CallTypes ==
  ASSUME IInv, NEW a \in Actors,
         (\E t \in Actors : BeginDelete(a, t)) \/ BeginList(a) \/ PoolCall(a)
  PROVE  TypeOK'
<1> USE DEF IInv, Labels, Phases
<1>1. Len(pool) \in Nat /\ \A i \in 1..Len(pool) : pool[i] \in Tasks
  BY PoolEntries
<1>2. ASSUME Returns(a), UNCHANGED <<pool, threadVars, asked, deleted, doomed, mainVars>>,
             marked' \subseteq Tasks
      PROVE  TypeOK'
  <2>1. NoSearch \in [id : Ids \cup {NoId}, at : Nat]
    BY DEF NoSearch
  <2>2. NoListing \in [array : Nat, max : Nat, names : Seq(Tasks)]
    BY EmptySeq DEF NoListing
  <2> QED
    BY <1>2, <2>1, <2>2 DEF Returns, At, TypeOK, threadVars, mainVars
<1>3. ASSUME NEW t \in Actors, BeginDelete(a, t) PROVE TypeOK'
  <2>1. ThreadId(t) \in Ids \cup {NoId}
    BY <1>3 DEF ThreadId, TypeOK, Actors
  <2>2. search' \in [Actors -> [id : Ids \cup {NoId}, at : Nat]]
    BY <1>3, <2>1 DEF BeginDelete, TypeOK
  <2>3. call' \in [Actors -> Labels] /\ disturbed' \subseteq Actors
    BY <1>3 DEF BeginDelete, At, Undisturbed, TypeOK
  <2>4. asked' \subseteq Tasks
    BY <1>3 DEF BeginDelete, TypeOK
  <2>5. UNCHANGED <<pool, threadVars, listing, grown, handleVars, mainVars>>
    BY <1>3 DEF BeginDelete
  <2> QED  BY <2>2, <2>3, <2>4, <2>5 DEF TypeOK, threadVars, handleVars, mainVars
<1>4. CASE SearchTests(a)
  <2>1. CASE InRange(a)
    BY <1>4, <2>1 DEF SearchTests, At, TypeOK, threadVars, handleVars, mainVars
  <2>2. CASE ~InRange(a)
    <3>1. /\ Returns(a) /\ UNCHANGED <<pool, threadVars, asked, deleted, doomed, mainVars>>
          /\ marked' = marked
      BY <1>4, <2>2 DEF SearchTests, handleVars
    <3> QED  BY <1>2, <3>1 DEF TypeOK
  <2> QED  BY <2>1, <2>2
<1>5. CASE SearchCompares(a)
  <2>1. PICK hit \in BOOLEAN :
          IF hit THEN At(a, "mark") /\ UNCHANGED search
                 ELSE At(a, "size") /\ search' = [search EXCEPT ![a].at = @ + 1]
    BY <1>5 DEF SearchCompares
  <2>2. call' \in [Actors -> Labels]
    BY <2>1 DEF At, TypeOK
  <2>3. search' \in [Actors -> [id : Ids \cup {NoId}, at : Nat]]
    <3>1. search \in [Actors -> [id : Ids \cup {NoId}, at : Nat]]
      BY DEF TypeOK
    <3>2. [search[a] EXCEPT !.at = @ + 1] \in [id : Ids \cup {NoId}, at : Nat]
      BY <3>1
    <3>3. search' = search \/ search' = [search EXCEPT ![a] = [search[a] EXCEPT !.at = @ + 1]]
      BY <2>1
    <3> QED  BY <3>1, <3>2, <3>3
  <2> QED
    BY <1>5, <2>2, <2>3 DEF SearchCompares, TypeOK, threadVars, history, handleVars, mainVars
<1>6. CASE SearchMarks(a)
  <2>1. search[a].at \in 1..Len(pool)
    BY <1>1, <1>6 DEF SearchMarks, InRange, Places, Searching, TypeOK
  <2>2. marked' \subseteq Tasks
    BY <1>1, <1>6, <2>1 DEF SearchMarks, Entry, TypeOK
  <2> QED  BY <1>2, <1>6, <2>2 DEF SearchMarks
<1>7. CASE BeginList(a)
  <2>1. listing' \in [Actors -> [array : Nat, max : Nat, names : Seq(Tasks)]]
    BY <1>1, <1>7 DEF BeginList, TypeOK
  <2> QED
    BY <1>7, <2>1 DEF BeginList, At, TypeOK, threadVars, history, handleVars, mainVars
<1>8. CASE ListCompares(a) \/ ListSizes(a)
  <2>1. listing' \in [Actors -> [array : Nat, max : Nat, names : Seq(Tasks)]]
    <3>1. listing \in [Actors -> [array : Nat, max : Nat, names : Seq(Tasks)]]
      BY DEF TypeOK
    <3>2. \/ UNCHANGED listing
          \/ \E n \in Nat : listing' = [listing EXCEPT ![a].max = n]
      BY <1>1, <1>8, <3>1 DEF ListCompares, ListSizes, PoolSize
    <3> QED  BY <3>1, <3>2
  <2>2. call' \in [Actors -> Labels] /\ disturbed' \subseteq Actors
    BY <1>8 DEF ListCompares, ListSizes, At, Undisturbed, TypeOK, history
  <2>3. UNCHANGED <<pool, threadVars, search, asked, grown, handleVars, mainVars>>
    BY <1>8 DEF ListCompares, ListSizes, history
  <2> QED  BY <2>1, <2>2, <2>3 DEF TypeOK, threadVars, handleVars, mainVars
<1>9. CASE ListEntry(a)
  <2>1. listing[a].names \in Seq(Tasks) /\ Index(a) \in 1..Len(pool)
    BY <1>1, <1>9, LenProperties DEF ListEntry, Index, TypeOK
  <2>2. Append(listing[a].names, pool[Index(a)]) \in Seq(Tasks)
    BY <1>1, <2>1, AppendProperties
  <2>3. listing' \in [Actors -> [array : Nat, max : Nat, names : Seq(Tasks)]]
    BY <1>9, <2>2 DEF ListEntry, TypeOK
  <2> QED
    BY <1>9, <2>3 DEF ListEntry, TypeOK, threadVars, history, handleVars, mainVars
<1>10. CASE ListPrints(a)
  BY <1>2, <1>10 DEF ListPrints, handleVars, TypeOK
<1>11. CASE Aborts(a)
  BY <1>11 DEF Aborts, TypeOK, threadVars, callVars, history, handleVars
<1> QED
  BY <1>3, <1>4, <1>5, <1>6, <1>7, <1>8, <1>9, <1>10, <1>11 DEF PoolCall, Search, List

LEMMA TaskTypes ==
  ASSUME IInv,
         \/ \E a \in Actors, t \in Tasks : StartThread(a, t)
         \/ \E t \in Tasks : ListTask(t) \/ TaskReturns(t) \/ ThreadEnds(t)
  PROVE  TypeOK'
<1> USE ActorConstants DEF IInv, callVars, history, handleVars, mainVars
<1>1. ASSUME NEW a \in Actors, NEW t \in Tasks, StartThread(a, t) PROVE TypeOK'
  <2>1. /\ body' \in [Tasks -> {"unborn", "running", "returned", "cancelled"}]
        /\ id' \in [Tasks -> Ids \cup {NoId}]
        /\ maker' \in [Tasks -> Actors \cup {Nobody}]
    BY <1>1 DEF StartThread, TypeOK
  <2>2. UNCHANGED <<pool, call, search, listing, asked, disturbed, grown, marked, deleted,
                    doomed, phase, cursor, ctrlC>>
    BY <1>1 DEF StartThread
  <2> QED  BY <2>1, <2>2 DEF TypeOK
<1>2. ASSUME NEW t \in Tasks, ListTask(t) PROVE TypeOK'
  <2>1. /\ pool' \in Seq(Tasks) /\ Len(pool') = Len(pool) + 1
        /\ Len(pool) \in Nat
    BY <1>2, AppendedEntries, PoolEntries DEF ListTask
  <2>2. grown' \subseteq Actors
    BY <1>2 DEF ListTask, TypeOK
  <2>3. maker' \in [Tasks -> Actors \cup {Nobody}]
    BY <1>2 DEF ListTask, TypeOK
  <2>4. UNCHANGED <<body, id, call, search, listing, asked, disturbed, marked, deleted,
                    doomed, phase, cursor, ctrlC>>
    BY <1>2 DEF ListTask
  <2>5. phase \in {"kill", "release"} => cursor <= Len(pool')
    BY <2>1 DEF TypeOK
  <2> QED  BY <2>1, <2>2, <2>3, <2>4, <2>5 DEF TypeOK
<1>3. ASSUME NEW t \in Tasks, TaskReturns(t) \/ ThreadEnds(t) PROVE TypeOK'
  <2>1. PICK s \in {"returned", "cancelled"} :
          /\ body' = [body EXCEPT ![t] = s]
          /\ UNCHANGED <<pool, id, maker, callVars, history, handleVars, mainVars>>
    BY <1>3, Zenon DEF TaskReturns, ThreadEnds
  <2>2. /\ body' \in [Tasks -> {"unborn", "running", "returned", "cancelled"}]
        /\ UNCHANGED <<pool, id, maker, call, search, listing, asked, disturbed, marked,
                       grown, deleted, doomed, phase, cursor, ctrlC>>
    BY <2>1 DEF TypeOK
  <2> QED  BY <2>2 DEF TypeOK
<1> QED  BY <1>1, <1>2, <1>3

LEMMA MainTypes ==
  ASSUME IInv, AppMainReturns \/ PressCtrlC \/ MainLoop
  PROVE  TypeOK'
<1> USE DEF IInv, Phases, threadVars, callVars, history, handleVars
<1>1. Len(pool) \in Nat /\ \A i \in 1..Len(pool) : pool[i] \in Tasks
  BY PoolEntries
<1>2. CASE AppMainReturns \/ EndSweep \/ EndKill
  BY <1>2 DEF AppMainReturns, EndSweep, EndKill, TypeOK
<1>7. CASE PressCtrlC
  BY <1>7 DEF PressCtrlC, TypeOK
<1>8. CASE BeginSweep
  BY <1>8 DEF BeginSweep, TypeOK
<1>6. CASE SweepSkip
  BY <1>6 DEF SweepSkip, InSweep, TypeOK
<1>3. CASE BeginKill
  BY <1>1, <1>3 DEF BeginKill, LastEntry, TypeOK
<1>4. CASE SweepCancels
  BY <1>4 DEF SweepCancels, InSweep, Cancel, TypeOK
<1>5. CASE SweepDestroys
  <2>1. pool[cursor] \in Tasks
    BY <1>1, <1>5 DEF SweepDestroys, Places
  <2> QED  BY <1>5, <2>1 DEF SweepDestroys, Destroy, Disturbs, TypeOK
<1>9. CASE SweepErases
  <2>1. pool' \in Seq(Tasks)
    BY <1>9, ErasedEntries DEF SweepErases, Places
  <2> QED  BY <1>9, <2>1 DEF SweepErases, Disturbs, TypeOK
<1>10. CASE KillCancels
  BY <1>10 DEF KillCancels, Cancel, TypeOK
<1>11. CASE KillDestroys
  <2>1. cursor \in 1..Len(pool)
    BY <1>1, <1>11 DEF KillDestroys, Places, TypeOK
  <2>2. pool[cursor] \in Tasks
    BY <1>1, <2>1
  <2> QED  BY <1>1, <1>11, <2>1, <2>2 DEF KillDestroys, Destroy, Disturbs, TypeOK
<1> QED
  BY <1>2, <1>3, <1>4, <1>5, <1>6, <1>7, <1>8, <1>9, <1>10, <1>11 DEF MainLoop

LEMMA NextTypes == IInv /\ Next => TypeOK'
  BY CallTypes, TaskTypes, MainTypes DEF Next

\* What each kind of step leaves alone.
LEMMA CallFrame ==
  ASSUME NEW a \in Actors,
         (\E t \in Actors : BeginDelete(a, t)) \/ BeginList(a) \/ PoolCall(a)
  PROVE  /\ UNCHANGED <<pool, threadVars, deleted, cursor, ctrlC>>
         /\ marked \subseteq marked'
         /\ UNCHANGED phase \/ (Alive /\ phase' = "aborted")
<1>1. ASSUME NEW t \in Actors, BeginDelete(a, t)
      PROVE  UNCHANGED <<pool, threadVars, deleted, marked, mainVars>>
  BY <1>1 DEF BeginDelete, handleVars
<1>2. CASE SearchTests(a) \/ SearchCompares(a)
  BY <1>2 DEF SearchTests, SearchCompares, handleVars, mainVars
<1>3. CASE SearchMarks(a)
  BY <1>3 DEF SearchMarks, mainVars
<1>4. CASE BeginList(a) \/ List(a)
  BY <1>4 DEF BeginList, List, ListCompares, ListSizes, ListEntry, ListPrints, handleVars,
     mainVars
<1>5. CASE Aborts(a)
  BY <1>5 DEF Aborts, handleVars
<1> QED  BY <1>1, <1>2, <1>3, <1>4, <1>5 DEF PoolCall, Search, mainVars

LEMMA TaskFrame ==
  ASSUME \/ \E a \in Actors, t \in Tasks : StartThread(a, t)
         \/ \E t \in Tasks : ListTask(t) \/ TaskReturns(t) \/ ThreadEnds(t)
  PROVE  UNCHANGED <<callVars, asked, disturbed, handleVars, mainVars>>
  BY DEF StartThread, ListTask, TaskReturns, ThreadEnds, history

LEMMA MainFrame ==
  ASSUME AppMainReturns \/ PressCtrlC \/ MainLoop
  PROVE  UNCHANGED <<threadVars, callVars, asked, grown, marked>>
  BY DEF AppMainReturns, PressCtrlC, MainLoop, BeginSweep, SweepSkip, SweepCancels,
     SweepDestroys, SweepErases, EndSweep, BeginKill, KillCancels, KillDestroys, EndKill,
     history, handleVars

\* The part of Places that is about the calls.
CallPlaces ==
  \A a \in Actors : /\ Searching(a) => search[a].at >= 1
                    /\ call[a] # "entry" => listing[a].names = <<>>

LEMMA CallNextPlaces ==
  ASSUME IInv, NEW a \in Actors,
         (\E t \in Actors : BeginDelete(a, t)) \/ BeginList(a) \/ PoolCall(a)
  PROVE  CallPlaces'
<1> USE DEF IInv, Places, CallPlaces, Searching, TypeOK
<1>1. CASE Returns(a)
  BY <1>1 DEF Returns, At, NoListing
<1>2. ASSUME NEW t \in Actors, BeginDelete(a, t) PROVE CallPlaces'
  BY <1>2 DEF BeginDelete, At, Busy
<1>3. CASE SearchTests(a)
  BY <1>1, <1>3 DEF SearchTests, At
<1>4. CASE SearchCompares(a)
  <2>1. /\ listing' = listing /\ call[a] = "compare"
        /\ call' \in {[call EXCEPT ![a] = "mark"], [call EXCEPT ![a] = "size"]}
        /\ search' = search \/ search' = [search EXCEPT ![a].at = search[a].at + 1]
    BY <1>4 DEF SearchCompares, At
  <2>2. ASSUME NEW b \in Actors, search[b].at >= 1 PROVE search'[b].at >= 1
    <3>1. search[b].at \in Nat /\ search[b].at + 1 >= 1
      BY <2>2
    <3>2. CASE search' = search
      BY <2>2, <3>2
    <3>3. CASE search' = [search EXCEPT ![a].at = search[a].at + 1]
      <4>1. search \in [Actors -> [id : Ids \cup {NoId}, at : Nat]]
        OBVIOUS
      <4>2. b # a => search'[b] = search[b]
        BY <3>3, <4>1
      <4>3. b = a => search'[b].at = search[b].at + 1
        BY <3>3, <4>1
      <4> QED  BY <2>2, <3>1, <4>2, <4>3
    <3> QED  BY <2>1, <3>2, <3>3
  <2>3. \A b \in Actors : search[b].at >= 1 => search'[b].at >= 1
    BY <2>2
  <2> QED  BY <2>1, <2>3
<1>5. CASE BeginList(a)
  BY <1>5 DEF BeginList, At, Busy
<1>6. CASE ListCompares(a) \/ ListSizes(a)
  BY <1>6 DEF ListCompares, ListSizes, At
<1>7. CASE ListEntry(a)
  BY <1>7 DEF ListEntry, At
<1>8. CASE Aborts(a)
  BY <1>8 DEF Aborts, callVars
<1> QED
  BY <1>1, <1>2, <1>3, <1>4, <1>5, <1>6, <1>7, <1>8
     DEF PoolCall, Search, List, SearchMarks, ListPrints

LEMMA NextPlaces == IInv /\ Next => Places'
<1> SUFFICES ASSUME IInv, Next PROVE Places'
  OBVIOUS
<1>1. Len(pool) \in Nat /\ TypeOK /\ Places
  BY PoolEntries DEF IInv
<1>2. ASSUME NEW a \in Actors,
             (\E t \in Actors : BeginDelete(a, t)) \/ BeginList(a) \/ PoolCall(a)
      PROVE  Places'
  <2>1. CallPlaces'
    BY <1>2, CallNextPlaces
  <2>2. /\ UNCHANGED <<pool, cursor>> /\ marked \subseteq marked'
        /\ UNCHANGED phase \/ phase' = "aborted"
    BY <1>2, CallFrame
  <2> QED  BY <1>1, <2>1, <2>2 DEF Places, CallPlaces
<1>3. CASE \/ \E a \in Actors, t \in Tasks : StartThread(a, t)
           \/ \E t \in Tasks : ListTask(t) \/ TaskReturns(t) \/ ThreadEnds(t)
  <2>1. UNCHANGED <<call, search, listing, marked, phase, cursor>>
    BY <1>3, TaskFrame DEF callVars, handleVars, mainVars
  <2>2. Len(pool') \in Nat /\ Len(pool') >= Len(pool) /\ \A i \in 1..Len(pool) : pool'[i] = pool[i]
    <3>1. CASE \E t \in Tasks : ListTask(t)
      BY <1>1, <3>1, AppendedEntries DEF ListTask
    <3>2. CASE UNCHANGED pool
      BY <1>1, <3>2
    <3> QED  BY <1>3, <3>1, <3>2 DEF StartThread, TaskReturns, ThreadEnds
  <2> QED  BY <1>1, <2>1, <2>2 DEF Places, Searching
<1>4. CASE AppMainReturns \/ PressCtrlC \/ MainLoop
  <2>1. UNCHANGED <<call, search, listing, marked>>
    BY <1>4, MainFrame DEF callVars
  <2>2. phase' = "sweep" => cursor' >= 1
    <3>1. cursor \in Nat
      BY <1>1 DEF TypeOK
    <3>2. CASE SweepSkip \/ SweepErases
      BY <1>1, <3>1, <3>2 DEF SweepSkip, SweepErases, InSweep
    <3>3. CASE BeginSweep
      BY <3>3 DEF BeginSweep
    <3>4. CASE PressCtrlC
      BY <1>1, <3>4 DEF PressCtrlC, Places
    <3>5. ASSUME AppMainReturns \/ SweepCancels \/ SweepDestroys \/ EndSweep \/ BeginKill
                   \/ KillCancels \/ KillDestroys \/ EndKill
          PROVE  phase' # "sweep"
      BY <3>5 DEF AppMainReturns, SweepCancels, SweepDestroys, EndSweep, BeginKill,
         KillCancels, KillDestroys, EndKill
    <3> QED  BY <1>4, <3>2, <3>3, <3>4, <3>5 DEF MainLoop
  <2>3. phase' \in {"destroy", "erase"} =>
          /\ UNCHANGED <<pool, cursor>> /\ cursor \in 1..Len(pool)
          /\ phase' = "destroy" => pool[cursor] \in marked
    <3>1. CASE SweepCancels
      <4>1. cursor \in Nat /\ cursor >= 1 /\ cursor <= Len(pool) /\ pool[cursor] \in marked
        BY <1>1, <3>1 DEF SweepCancels, InSweep, Places, TypeOK
      <4> QED  BY <1>1, <3>1, <4>1 DEF SweepCancels
    <3>2. CASE SweepDestroys \/ PressCtrlC
      BY <1>1, <3>2 DEF SweepDestroys, PressCtrlC, Places
    <3>3. ASSUME AppMainReturns \/ BeginSweep \/ SweepSkip \/ SweepErases \/ EndSweep
                   \/ BeginKill \/ KillCancels \/ KillDestroys \/ EndKill
          PROVE  phase' \notin {"destroy", "erase"}
      BY <3>3 DEF AppMainReturns, BeginSweep, SweepSkip, SweepErases, EndSweep, BeginKill,
         KillCancels, KillDestroys, EndKill, InSweep
    <3> QED  BY <1>4, <3>1, <3>2, <3>3 DEF MainLoop
  <2>4. phase' = "release" => cursor' > 0
    <3>1. CASE KillCancels \/ PressCtrlC
      BY <1>1, <3>1 DEF KillCancels, PressCtrlC, Places
    <3>2. ASSUME AppMainReturns \/ BeginSweep \/ SweepSkip \/ SweepCancels \/ SweepDestroys
                   \/ SweepErases \/ EndSweep \/ BeginKill \/ KillDestroys \/ EndKill
          PROVE  phase' # "release"
      BY <3>2 DEF AppMainReturns, BeginSweep, SweepSkip, SweepCancels, SweepDestroys,
         SweepErases, EndSweep, BeginKill, KillDestroys, EndKill, InSweep
    <3> QED  BY <1>4, <3>1, <3>2 DEF MainLoop
  <2> QED  BY <1>1, <2>1, <2>2, <2>3, <2>4 DEF Places, Searching
<1> QED  BY <1>2, <1>3, <1>4 DEF Next

----------------------------------------------------------------------------
(* What is in the pool.                                                    *)

LEMMA InAppended ==
  ASSUME TypeOK, NEW t \in Tasks, pool' = Append(pool, t), NEW u \in Tasks
  PROVE  InPool(u)' <=> InPool(u) \/ u = t
<1>1. /\ Len(pool) \in Nat /\ Len(pool') = Len(pool) + 1 /\ pool'[Len(pool) + 1] = t
      /\ \A i \in 1..Len(pool) : pool'[i] = pool[i]
  BY AppendedEntries, PoolEntries
<1>2. ASSUME InPool(u) PROVE InPool(u)'
  BY <1>1, <1>2 DEF InPool
<1>3. ASSUME u = t PROVE InPool(u)'
  <2>1. Len(pool) + 1 \in 1..Len(pool')
    BY <1>1
  <2> QED  BY <1>1, <1>3, <2>1 DEF InPool
<1>4. ASSUME InPool(u)' PROVE InPool(u) \/ u = t
  <2>1. PICK i \in 1..Len(pool') : pool'[i] = u
    BY <1>4 DEF InPool
  <2>2. i \in 1..Len(pool) \/ i = Len(pool) + 1
    BY <1>1
  <2> QED  BY <1>1, <2>1, <2>2 DEF InPool
<1> QED  BY <1>2, <1>3, <1>4

LEMMA InErased ==
  ASSUME TypeOK, NEW i \in 1..Len(pool), pool' = Erased(i), NEW u \in Tasks
  PROVE  InPool(u)' <=> \E k \in 1..Len(pool) \ {i} : pool[k] = u
<1>1. /\ Len(pool) \in Nat /\ Len(pool') = Len(pool) - 1
      /\ \A k \in 1..(Len(pool) - 1) : pool'[k] = IF k < i THEN pool[k] ELSE pool[k + 1]
  BY ErasedEntries, PoolEntries
<1>2. ASSUME NEW k \in 1..Len(pool) \ {i}, pool[k] = u PROVE InPool(u)'
  <2>1. CASE k < i
    <3>1. k \in 1..(Len(pool) - 1) /\ pool'[k] = u
      BY <1>1, <1>2, <2>1
    <3> QED  BY <1>1, <3>1 DEF InPool
  <2>2. CASE k > i
    <3>1. k - 1 \in 1..(Len(pool) - 1) /\ ~(k - 1 < i) /\ (k - 1) + 1 = k
      BY <1>1, <2>2
    <3>2. pool'[k - 1] = u
      BY <1>1, <1>2, <3>1
    <3> QED  BY <1>1, <3>1, <3>2 DEF InPool
  <2> QED  BY <1>1, <2>1, <2>2
<1>3. ASSUME InPool(u)' PROVE \E k \in 1..Len(pool) \ {i} : pool[k] = u
  <2>1. PICK k \in 1..Len(pool') : pool'[k] = u
    BY <1>3 DEF InPool
  <2>2. CASE k < i
    <3>1. k \in 1..Len(pool) \ {i} /\ pool[k] = u
      BY <1>1, <2>1, <2>2
    <3> QED  BY <3>1
  <2>3. CASE k >= i
    <3>1. k + 1 \in 1..Len(pool) \ {i} /\ pool[k + 1] = u
      BY <1>1, <2>1, <2>3
    <3> QED  BY <3>1
  <2> QED  BY <1>1, <2>2, <2>3
<1> QED  BY <1>2, <1>3

LEMMA NextBorn == IInv /\ Next => Born'
<1> SUFFICES ASSUME IInv, Next PROVE Born'
  OBVIOUS
<1>1. CASE UNCHANGED <<pool, threadVars, deleted>>
  BY <1>1 DEF IInv, Born, InPool, threadVars
<1>2. ASSUME NEW a \in Actors,
             (\E t \in Actors : BeginDelete(a, t)) \/ BeginList(a) \/ PoolCall(a)
      PROVE  Born'
  BY <1>1, <1>2, CallFrame
<1>3. ASSUME NEW a \in Actors, NEW t \in Tasks, StartThread(a, t) PROVE Born'
  <2>1. /\ ~InPool(t) /\ t \notin deleted /\ body'[t] = "running"
        /\ \A u \in Tasks \ {t} : body'[u] = body[u] /\ maker'[u] = maker[u]
    BY <1>3 DEF StartThread, IInv, TypeOK, Born
  <2>2. \A u \in Tasks : InPool(u)' <=> InPool(u)
    BY <1>3 DEF StartThread, InPool
  <2>3. deleted' = deleted
    BY <1>3 DEF StartThread, handleVars
  <2> QED  BY <2>1, <2>2, <2>3 DEF IInv, Born
<1>4. ASSUME NEW t \in Tasks, ListTask(t) PROVE Born'
  <2>1. \A u \in Tasks : InPool(u)' <=> InPool(u) \/ u = t
    BY <1>4, InAppended DEF ListTask, IInv
  <2>2. /\ body' = body /\ deleted' = deleted /\ maker'[t] = Nobody /\ body[t] # "unborn"
        /\ \A u \in Tasks \ {t} : maker'[u] = maker[u]
    BY <1>4 DEF ListTask, handleVars, IInv, TypeOK, Born
  <2> QED  BY <2>1, <2>2 DEF IInv, Born
<1>5. ASSUME NEW t \in Tasks, TaskReturns(t) \/ ThreadEnds(t) PROVE Born'
  <2>1. /\ pool' = pool /\ maker' = maker /\ deleted' = deleted
        /\ \A u \in Tasks : body[u] # "unborn" => body'[u] # "unborn"
    BY <1>5 DEF TaskReturns, ThreadEnds, handleVars, IInv, TypeOK
  <2> QED  BY <2>1 DEF IInv, Born, InPool
<1>6. CASE SweepDestroys \/ KillDestroys
  <2>1. cursor \in 1..Len(pool)
    BY <1>6, PoolEntries DEF SweepDestroys, KillDestroys, IInv, TypeOK, Places
  <2>2. pool[cursor] \in Tasks /\ InPool(pool[cursor])
    BY <2>1, PoolEntries DEF IInv, InPool
  <2>3. /\ pool' = pool /\ threadVars' = threadVars
        /\ deleted' = deleted \cup {pool[cursor]}
    BY <1>6 DEF SweepDestroys, KillDestroys, Destroy
  <2> QED  BY <2>2, <2>3 DEF IInv, Born, InPool, threadVars
<1>7. CASE SweepErases
  <2>1. cursor \in 1..Len(pool) /\ pool' = Erased(cursor)
    BY <1>7 DEF SweepErases, IInv, Places
  <2>2. \A u \in Tasks : InPool(u)' => InPool(u)
    BY <2>1, InErased DEF IInv, InPool
  <2>3. threadVars' = threadVars /\ deleted' = deleted
    BY <1>7 DEF SweepErases, handleVars
  <2> QED  BY <2>2, <2>3 DEF IInv, Born, threadVars
<1>8. CASE \/ AppMainReturns \/ PressCtrlC \/ BeginSweep \/ SweepSkip \/ SweepCancels
           \/ EndSweep \/ BeginKill \/ KillCancels \/ EndKill
  BY <1>1, <1>8 DEF AppMainReturns, PressCtrlC, BeginSweep, SweepSkip, SweepCancels,
     EndSweep, BeginKill, KillCancels, EndKill, handleVars
<1> QED
  BY <1>2, <1>3, <1>4, <1>5, <1>6, <1>7, <1>8 DEF Next, MainLoop

\* The parts of PoolExact.
ListedOnce == \A i, j \in 1..Len(pool) : pool[i] = pool[j] => i = j
ListedTasks ==
  \A t \in Tasks :
    (InPool(t) \/ t \in deleted) <=> (body[t] # "unborn" /\ maker[t] = Nobody)
DestroyedGoes ==
  \A i \in 1..Len(pool) : pool[i] \in deleted <=> (phase = "erase" /\ i = cursor)
OnlyMarkedGo == deleted \subseteq marked

Exact == ListedOnce /\ ListedTasks /\ DestroyedGoes /\ OnlyMarkedGo

LEMMA ExactIs == PoolExact <=> (phase \in Scheduling => Exact)
  BY DEF PoolExact, Exact, ListedOnce, ListedTasks, DestroyedGoes, OnlyMarkedGo

\* Once main() has seen Ctrl-C, or the process is aborted, it is so for good.
LEMMA SchedulingGoes == Next /\ phase' \in Scheduling => phase \in Scheduling
<1> SUFFICES ASSUME Next, phase' \in Scheduling PROVE phase \in Scheduling
  OBVIOUS
<1>1. ASSUME NEW a \in Actors,
             (\E t \in Actors : BeginDelete(a, t)) \/ BeginList(a) \/ PoolCall(a)
      PROVE  phase \in Scheduling
  BY <1>1, CallFrame DEF Scheduling
<1>2. CASE \/ \E a \in Actors, t \in Tasks : StartThread(a, t)
           \/ \E t \in Tasks : ListTask(t) \/ TaskReturns(t) \/ ThreadEnds(t)
  BY <1>2, TaskFrame DEF mainVars
<1>3. CASE AppMainReturns \/ PressCtrlC \/ MainLoop
  BY <1>3 DEF Scheduling, AppMainReturns, PressCtrlC, MainLoop, BeginSweep, SweepSkip,
     SweepCancels, SweepDestroys, SweepErases, EndSweep, BeginKill, KillCancels,
     KillDestroys, EndKill, InSweep
<1> QED  BY <1>1, <1>2, <1>3 DEF Next

LEMMA NextPoolExact == IInv /\ Next => PoolExact'
<1> SUFFICES ASSUME IInv, Next, phase' \in Scheduling PROVE Exact'
  BY DEF PoolExact, Exact, ListedOnce, ListedTasks, DestroyedGoes, OnlyMarkedGo
<1>1. Exact
  BY SchedulingGoes, ExactIs DEF IInv
<1> USE DEF Exact
<1>2. CASE UNCHANGED <<pool, threadVars, deleted, phase, cursor>> /\ marked \subseteq marked'
  BY <1>1, <1>2 DEF ListedOnce, ListedTasks, DestroyedGoes, OnlyMarkedGo, InPool, threadVars
<1>3. ASSUME NEW a \in Actors,
             (\E t \in Actors : BeginDelete(a, t)) \/ BeginList(a) \/ PoolCall(a)
      PROVE  Exact'
  <2>1. phase' = phase
    BY <1>3, CallFrame DEF Scheduling
  <2> QED  BY <1>2, <1>3, <2>1, CallFrame
<1>4. ASSUME NEW a \in Actors, NEW t \in Tasks, StartThread(a, t) PROVE Exact'
  <2>1. /\ UNCHANGED <<pool, deleted, marked, phase, cursor>>
        /\ body[t] = "unborn" /\ maker'[t] = a
        /\ \A u \in Tasks \ {t} : body'[u] = body[u] /\ maker'[u] = maker[u]
    BY <1>4 DEF StartThread, handleVars, mainVars, IInv, TypeOK
  <2>2. maker'[t] # Nobody /\ ~InPool(t) /\ t \notin deleted
    BY <1>1, <2>1, ActorConstants DEF ListedTasks
  <2>3. ListedTasks'
    BY <1>1, <2>1, <2>2 DEF ListedTasks, InPool
  <2> QED  BY <1>1, <2>1, <2>3 DEF ListedOnce, DestroyedGoes, OnlyMarkedGo
<1>5. ASSUME NEW t \in Tasks, ListTask(t) PROVE Exact'
  <2>1. /\ UNCHANGED <<body, deleted, marked, phase, cursor>>
        /\ maker[t] # Nobody /\ maker'[t] = Nobody
        /\ \A u \in Tasks \ {t} : maker'[u] = maker[u]
    BY <1>5 DEF ListTask, handleVars, mainVars, IInv, TypeOK
  <2>2. ~InPool(t) /\ t \notin deleted /\ body[t] # "unborn"
    BY <2>1 DEF IInv, Born
  <2>3. /\ Len(pool) \in Nat /\ Len(pool') = Len(pool) + 1 /\ pool'[Len(pool) + 1] = t
        /\ \A i \in 1..Len(pool) : pool'[i] = pool[i]
    BY <1>5, AppendedEntries, PoolEntries DEF ListTask, IInv
  <2>4. \A i \in 1..Len(pool') : i \in 1..Len(pool) \/ i = Len(pool) + 1
    BY <2>3
  <2>5. ListedOnce'
    <3>1. \A i \in 1..Len(pool) : pool'[i] # t
      BY <2>2, <2>3 DEF InPool
    <3>2. ASSUME NEW i \in 1..Len(pool'), NEW j \in 1..Len(pool'), pool'[i] = pool'[j]
          PROVE  i = j
      BY <1>1, <2>3, <2>4, <3>1, <3>2 DEF ListedOnce
    <3> QED  BY <3>2 DEF ListedOnce
  <2>6. \A u \in Tasks : InPool(u)' <=> InPool(u) \/ u = t
    BY <1>5, InAppended DEF ListTask, IInv
  <2>7. ListedTasks'
    BY <1>1, <2>1, <2>2, <2>6 DEF ListedTasks
  <2>8. DestroyedGoes'
    <3>1. phase = "erase" => cursor \in 1..Len(pool)
      BY DEF IInv, Places
    <3>2. ASSUME NEW i \in 1..Len(pool')
          PROVE  pool'[i] \in deleted <=> (phase = "erase" /\ i = cursor)
      <4>1. CASE i \in 1..Len(pool)
        BY <1>1, <2>3, <4>1 DEF DestroyedGoes
      <4>2. CASE i = Len(pool) + 1
        BY <2>2, <2>3, <3>1, <4>2
      <4> QED  BY <2>4, <4>1, <4>2
    <3> QED  BY <2>1, <3>2 DEF DestroyedGoes
  <2> QED  BY <1>1, <2>1, <2>5, <2>7, <2>8 DEF OnlyMarkedGo
<1>6. ASSUME NEW t \in Tasks, TaskReturns(t) \/ ThreadEnds(t) PROVE Exact'
  <2>1. /\ UNCHANGED <<pool, maker, deleted, marked, phase, cursor>>
        /\ \A u \in Tasks : body[u] # "unborn" <=> body'[u] # "unborn"
    BY <1>6 DEF TaskReturns, ThreadEnds, handleVars, mainVars, IInv, TypeOK
  <2> QED  BY <1>1, <2>1 DEF ListedOnce, ListedTasks, DestroyedGoes, OnlyMarkedGo, InPool
<1>7. CASE SweepDestroys
  <2>1. cursor \in 1..Len(pool) /\ pool[cursor] \in marked
    BY <1>7 DEF SweepDestroys, IInv, Places
  <2>2. pool[cursor] \in Tasks /\ InPool(pool[cursor])
    BY <2>1, PoolEntries DEF IInv, InPool
  <2>3. /\ UNCHANGED <<pool, threadVars, marked, cursor>>
        /\ deleted' = deleted \cup {pool[cursor]} /\ phase = "destroy" /\ phase' = "erase"
    BY <1>7 DEF SweepDestroys, Destroy
  <2>4. DestroyedGoes'
    <3>1. \A i \in 1..Len(pool) : pool[i] \notin deleted
      BY <1>1, <2>3 DEF DestroyedGoes
    <3>2. \A i \in 1..Len(pool) : pool[i] = pool[cursor] <=> i = cursor
      BY <1>1, <2>1 DEF ListedOnce
    <3> QED  BY <2>3, <3>1, <3>2 DEF DestroyedGoes
  <2>5. ListedTasks'
    BY <1>1, <2>2, <2>3 DEF ListedTasks, InPool, threadVars
  <2> QED  BY <1>1, <2>1, <2>3, <2>4, <2>5 DEF ListedOnce, OnlyMarkedGo
<1>8. CASE SweepErases
  <2>1. cursor \in 1..Len(pool) /\ Len(pool) \in Nat
    BY <1>8, PoolEntries DEF SweepErases, IInv, Places
  <2>2. /\ UNCHANGED <<threadVars, deleted, marked>> /\ pool' = Erased(cursor)
        /\ phase = "erase" /\ phase' = "sweep"
    BY <1>8 DEF SweepErases, handleVars
  <2>3. /\ Len(pool') = Len(pool) - 1
        /\ \A k \in 1..(Len(pool) - 1) :
             pool'[k] = IF k < cursor THEN pool[k] ELSE pool[k + 1]
    BY <2>1, <2>2, ErasedEntries DEF IInv
  <2> DEFINE at(k) == IF k < cursor THEN k ELSE k + 1
  <2>4. \A k \in 1..Len(pool') : at(k) \in 1..Len(pool) \ {cursor} /\ pool'[k] = pool[at(k)]
    BY <2>1, <2>3
  <2>5. \A i, j \in 1..Len(pool') : at(i) = at(j) => i = j
    BY <2>1, <2>3
  <2> HIDE DEF at
  <2>6. ListedOnce'
    <3>1. ASSUME NEW i \in 1..Len(pool'), NEW j \in 1..Len(pool'), pool'[i] = pool'[j]
          PROVE  i = j
      <4>1. at(i) = at(j)
        BY <1>1, <2>4, <3>1 DEF ListedOnce
      <4> QED  BY <2>5, <4>1
    <3> QED  BY <3>1 DEF ListedOnce
  <2>7. \A u \in Tasks : InPool(u)' <=> InPool(u) /\ u # pool[cursor]
    <3>1. \A u \in Tasks : InPool(u)' <=> \E k \in 1..Len(pool) \ {cursor} : pool[k] = u
      BY <2>1, <2>2, InErased DEF IInv
    <3>2. \A k \in 1..Len(pool) : pool[k] = pool[cursor] <=> k = cursor
      BY <1>1, <2>1 DEF ListedOnce
    <3> QED  BY <2>1, <3>1, <3>2 DEF InPool
  <2>8. pool[cursor] \in deleted
    BY <1>1, <2>1, <2>2 DEF DestroyedGoes
  <2>9. ListedTasks'
    BY <1>1, <2>2, <2>7, <2>8 DEF ListedTasks, threadVars
  <2>10. DestroyedGoes'
    <3>1. \A k \in 1..Len(pool') : pool'[k] \notin deleted
      BY <1>1, <2>4 DEF DestroyedGoes
    <3> QED  BY <2>2, <3>1 DEF DestroyedGoes
  <2> QED  BY <1>1, <2>2, <2>6, <2>9, <2>10 DEF OnlyMarkedGo
<1>9. CASE AppMainReturns \/ BeginSweep \/ SweepSkip \/ SweepCancels \/ EndSweep
  <2>1. /\ UNCHANGED <<pool, threadVars, deleted, marked>>
        /\ phase # "erase" /\ phase' # "erase"
    BY <1>9 DEF AppMainReturns, BeginSweep, SweepSkip, SweepCancels, EndSweep, InSweep,
       handleVars
  <2> QED
    BY <1>1, <2>1 DEF ListedOnce, ListedTasks, DestroyedGoes, OnlyMarkedGo, InPool, threadVars
<1>10. CASE PressCtrlC
  BY <1>2, <1>10 DEF PressCtrlC, handleVars
<1>11. CASE BeginKill \/ KillCancels \/ KillDestroys \/ EndKill
  BY <1>11 DEF BeginKill, KillCancels, KillDestroys, EndKill, Scheduling
<1> QED
  BY <1>3, <1>4, <1>5, <1>6, <1>7, <1>8, <1>9, <1>10, <1>11 DEF Next, MainLoop

----------------------------------------------------------------------------
(* Calls that nothing disturbs.                                            *)

LEMMA OtherCallsKept ==
  ASSUME TypeOK, NEW a \in Actors,
         (\E t \in Actors : BeginDelete(a, t)) \/ BeginList(a) \/ PoolCall(a),
         NEW b \in Actors \ {a}
  PROVE  /\ call'[b] = call[b] /\ search'[b] = search[b] /\ listing'[b] = listing[b]
         /\ b \in disturbed' <=> b \in disturbed
         /\ b \in grown' <=> b \in grown
<1> USE DEF TypeOK, callVars, history
<1>1. CASE Returns(a)
  BY <1>1 DEF Returns, At
<1>2. ASSUME NEW t \in Actors, BeginDelete(a, t)
      PROVE  /\ call'[b] = call[b] /\ search'[b] = search[b] /\ listing'[b] = listing[b]
             /\ b \in disturbed' <=> b \in disturbed
             /\ b \in grown' <=> b \in grown
  BY <1>2 DEF BeginDelete, At, Undisturbed
<1>3. CASE BeginList(a)
  BY <1>3 DEF BeginList, At
<1>4. CASE SearchTests(a) \/ SearchMarks(a)
  BY <1>1, <1>4 DEF SearchTests, SearchMarks, At
<1>5. CASE SearchCompares(a)
  <2>1. search' = search \/ search' = [search EXCEPT ![a].at = search[a].at + 1]
    BY <1>5 DEF SearchCompares
  <2>2. search'[b] = search[b]
    BY <2>1
  <2>3. call'[b] = call[b]
    BY <1>5 DEF SearchCompares, At
  <2> QED  BY <1>5, <2>2, <2>3 DEF SearchCompares
<1>6. CASE ListCompares(a) \/ ListSizes(a)
  BY <1>6 DEF ListCompares, ListSizes, At, Undisturbed
<1>7. CASE ListEntry(a) \/ Aborts(a)
  BY <1>7 DEF ListEntry, Aborts
<1>8. CASE ListPrints(a)
  BY <1>1, <1>8 DEF ListPrints
<1> QED
  BY <1>2, <1>3, <1>4, <1>5, <1>6, <1>7, <1>8 DEF PoolCall, Search, List

\* A step of main() leaves the pool and its handles alone, or disturbs every call
\* that looks at the pool.
LEMMA MainKeeps ==
  ASSUME TypeOK, AppMainReturns \/ PressCtrlC \/ MainLoop
  PROVE  /\ UNCHANGED <<threadVars, callVars, grown>>
         /\ \/ UNCHANGED <<pool, deleted, disturbed>>
            \/ \A a \in Actors \ disturbed' : ~Looking(a)'
<1>1. UNCHANGED <<threadVars, callVars, grown>>
  BY MainFrame
<1>2. CASE SweepDestroys \/ SweepErases \/ KillDestroys
  <2>1. disturbed' = disturbed \cup {a \in Actors : call[a] \notin {"none", "state"}}
    BY <1>2 DEF SweepDestroys, SweepErases, KillDestroys, Disturbs
  <2> QED  BY <1>1, <2>1 DEF Looking, callVars
<1>3. CASE ~(SweepDestroys \/ SweepErases \/ KillDestroys)
  BY <1>1, <1>3 DEF AppMainReturns, PressCtrlC, MainLoop, BeginSweep, SweepSkip,
     SweepCancels, EndSweep, BeginKill, KillCancels, EndKill, history, handleVars
<1> QED  BY <1>1, <1>2, <1>3

\* Erasing and everything else but listing a task leaves the pool no longer.
LEMMA NextArrayGood == IInv /\ Next => ArrayGood'
<1> SUFFICES ASSUME IInv, Next PROVE ArrayGood'
  OBVIOUS
<1>1. ArrayGood /\ TypeOK /\ Len(pool) \in Nat
  BY PoolEntries DEF IInv
<1> DEFINE Good(b) == /\ call[b] = "value" => Len(pool) <= listing[b].array \/ b \in grown
                      /\ call[b] = "entry" => listing[b].max <= listing[b].array \/ b \in grown
<1>2. ASSUME Len(pool') \in Nat, Len(pool') <= Len(pool), UNCHANGED <<callVars, grown>>
      PROVE  ArrayGood'
  BY <1>1, <1>2 DEF ArrayGood, TypeOK, callVars
<1>3. ASSUME NEW a \in Actors,
             (\E t \in Actors : BeginDelete(a, t)) \/ BeginList(a) \/ PoolCall(a)
      PROVE  ArrayGood'
  <2>1. pool' = pool
    BY <1>3, CallFrame
  <2>2. ASSUME NEW b \in Actors \ {a} PROVE Good(b)'
    BY <1>1, <1>3, <2>1, <2>2, OtherCallsKept DEF ArrayGood
  <2>3. Good(a)'
    <3>1. CASE ListCompares(a)
      <4>1. /\ listing[a].array \in Nat
            /\ \/ call'[a] = "entry" /\ listing'[a].max = listing[a].array
                  /\ listing'[a].array = listing[a].array
               \/ call'[a] = "value" /\ listing' = listing /\ ~(listing[a].array < Len(pool))
        BY <1>1, <3>1 DEF ListCompares, At, TypeOK
      <4> QED  BY <1>1, <2>1, <4>1
    <3>2. CASE ListSizes(a)
      BY <1>1, <2>1, <3>2 DEF ListSizes, PoolSize, At, ArrayGood, TypeOK, history
    <3>3. CASE ListEntry(a)
      BY <1>1, <2>1, <3>3 DEF ListEntry, ArrayGood, TypeOK, history
    <3>4. CASE Aborts(a)
      BY <1>1, <2>1, <3>4 DEF Aborts, ArrayGood, callVars, history
    <3>5. ASSUME (\E t \in Actors : BeginDelete(a, t)) \/ BeginList(a) \/ Search(a)
                   \/ ListPrints(a)
          PROVE  call'[a] \notin {"value", "entry"}
      BY <1>1, <3>5 DEF BeginDelete, BeginList, Search, SearchTests, SearchCompares,
         SearchMarks, ListPrints, Returns, At, TypeOK
    <3> QED  BY <1>3, <3>1, <3>2, <3>3, <3>4, <3>5 DEF PoolCall, List
  <2> QED  BY <2>2, <2>3 DEF ArrayGood
<1>4. ASSUME NEW t \in Tasks, ListTask(t) PROVE ArrayGood'
  BY <1>1, <1>4 DEF ListTask, ArrayGood, callVars
<1>5. CASE \/ \E a \in Actors, t \in Tasks : StartThread(a, t)
           \/ \E t \in Tasks : TaskReturns(t) \/ ThreadEnds(t)
  BY <1>1, <1>2, <1>5 DEF StartThread, TaskReturns, ThreadEnds, history
<1>6. CASE AppMainReturns \/ PressCtrlC \/ MainLoop
  <2>1. UNCHANGED <<callVars, grown>>
    BY <1>1, <1>6, MainKeeps
  <2>2. Len(pool') \in Nat /\ Len(pool') <= Len(pool)
    <3>1. CASE SweepErases
      <4>1. cursor \in 1..Len(pool) /\ pool' = Erased(cursor)
        BY <3>1 DEF SweepErases, IInv, Places
      <4>2. Len(pool') = Len(pool) - 1 /\ Len(pool) > 0
        BY <1>1, <4>1, ErasedEntries
      <4> QED  BY <1>1, <4>2
    <3>2. CASE ~SweepErases
      BY <1>1, <1>6, <3>2 DEF AppMainReturns, PressCtrlC, MainLoop, BeginSweep, SweepSkip,
         SweepCancels, SweepDestroys, EndSweep, BeginKill, KillCancels, KillDestroys, EndKill
    <3> QED  BY <3>1, <3>2
  <2> QED  BY <1>2, <2>1, <2>2
<1> QED  BY <1>3, <1>4, <1>5, <1>6 DEF Next

LEMMA NextLive == IInv /\ Next => LiveUnderCalls'
<1> SUFFICES ASSUME IInv, Next PROVE LiveUnderCalls'
  OBVIOUS
<1>1. LiveUnderCalls /\ TypeOK /\ Len(pool) \in Nat
  BY PoolEntries DEF IInv
<1>2. ASSUME NEW a \in Actors,
             (\E t \in Actors : BeginDelete(a, t)) \/ BeginList(a) \/ PoolCall(a)
      PROVE  LiveUnderCalls'
  <2>1. PoolLive' <=> PoolLive
    BY <1>2, CallFrame DEF PoolLive
  <2>2. ASSUME NEW b \in Actors \ {a}, b \notin disturbed', Looking(b)' PROVE PoolLive
    BY <1>1, <1>2, <2>2, OtherCallsKept DEF LiveUnderCalls, Looking
  <2>3. ASSUME a \notin disturbed', Looking(a)' PROVE PoolLive
    <3>1. CASE (\E t \in Actors : BeginDelete(a, t)) \/ ListCompares(a)
      BY <2>3, <3>1 DEF BeginDelete, ListCompares, Undisturbed
    <3>2. CASE BeginList(a)
      BY <1>1, <2>3, <3>2 DEF BeginList, At, Looking, TypeOK
    <3>3. CASE SearchTests(a) \/ SearchCompares(a) \/ SearchMarks(a) \/ ListSizes(a)
                 \/ ListEntry(a) \/ ListPrints(a) \/ Aborts(a)
      <4>1. ~Returns(a)
        BY <1>1, <2>3 DEF Returns, At, Looking, TypeOK
      <4>2. a \notin disturbed
        BY <2>3, <3>3, <4>1 DEF SearchTests, SearchCompares, SearchMarks, ListSizes,
           ListEntry, ListPrints, Aborts, history
      <4>3. Looking(a)
        BY <2>3, <3>3, <4>1 DEF SearchTests, SearchCompares, SearchMarks, ListSizes,
           ListEntry, ListPrints, Aborts, Looking, callVars
      <4> QED  BY <1>1, <4>2, <4>3 DEF LiveUnderCalls
    <3> QED  BY <1>2, <3>1, <3>2, <3>3 DEF PoolCall, Search, List
  <2> QED  BY <2>1, <2>2, <2>3 DEF LiveUnderCalls
<1>3. CASE \/ \E a \in Actors, t \in Tasks : StartThread(a, t)
           \/ \E t \in Tasks : ListTask(t) \/ TaskReturns(t) \/ ThreadEnds(t)
  <2>1. UNCHANGED <<call, deleted, disturbed>>
    BY <1>3, TaskFrame DEF callVars, handleVars
  <2>2. PoolLive => PoolLive'
    <3>1. ASSUME NEW t \in Tasks, ListTask(t) PROVE PoolLive => PoolLive'
      <4>1. t \notin deleted
        BY <3>1 DEF ListTask, IInv, Born
      <4>2. /\ Len(pool') = Len(pool) + 1 /\ pool'[Len(pool) + 1] = t
            /\ \A i \in 1..Len(pool) : pool'[i] = pool[i]
        BY <1>1, <3>1, AppendedEntries DEF ListTask
      <4>3. \A i \in 1..Len(pool') : i \in 1..Len(pool) \/ i = Len(pool) + 1
        BY <1>1, <4>2
      <4> QED  BY <2>1, <4>1, <4>2, <4>3 DEF PoolLive
    <3>2. CASE UNCHANGED pool
      BY <2>1, <3>2 DEF PoolLive
    <3> QED  BY <1>3, <3>1, <3>2 DEF StartThread, TaskReturns, ThreadEnds
  <2> QED  BY <1>1, <2>1, <2>2 DEF LiveUnderCalls, Looking
<1>4. CASE AppMainReturns \/ PressCtrlC \/ MainLoop
  BY <1>1, <1>4, MainKeeps DEF LiveUnderCalls, Looking, PoolLive, callVars
<1> QED  BY <1>2, <1>3, <1>4 DEF Next

\* What is appended does not change the beginning.
LEMMA BeginningKept ==
  ASSUME TypeOK, NEW t \in Tasks, pool' = Append(pool, t), NEW n \in 0..Len(pool)
  PROVE  SubSeq(pool', 1, n) = SubSeq(pool, 1, n)
<1>1. /\ Len(pool) \in Nat /\ \A i \in 1..Len(pool) : pool[i] \in Tasks
      /\ \A i \in 1..Len(pool) : pool'[i] = pool[i]
  BY AppendedEntries, PoolEntries
<1>2. \A i \in 1..n : pool[i] \in Tasks /\ pool'[i] = pool[i]
  BY <1>1
<1>3. /\ SubSeq(pool, 1, n) \in Seq(Tasks)
      /\ Len(SubSeq(pool, 1, n)) = IF 1 <= n THEN n - 1 + 1 ELSE 0
      /\ \A i \in 1..(n - 1 + 1) : SubSeq(pool, 1, n)[i] = pool[1 + i - 1]
  BY <1>2, SubSeqProperties
<1>4. /\ SubSeq(pool', 1, n) \in Seq(Tasks)
      /\ Len(SubSeq(pool', 1, n)) = IF 1 <= n THEN n - 1 + 1 ELSE 0
      /\ \A i \in 1..(n - 1 + 1) : SubSeq(pool', 1, n)[i] = pool'[1 + i - 1]
  <2>1. \A i \in 1..n : pool'[i] \in Tasks
    BY <1>2
  <2> QED  BY <2>1, SubSeqProperties
<1>5. Len(SubSeq(pool, 1, n)) = n /\ Len(SubSeq(pool', 1, n)) = n
  BY <1>3, <1>4
<1>6. \A i \in 1..n : SubSeq(pool', 1, n)[i] = SubSeq(pool, 1, n)[i]
  <2>1. \A i \in 1..n : 1 + i - 1 = i /\ i \in 1..(n - 1 + 1)
    OBVIOUS
  <2> QED  BY <1>2, <1>3, <1>4, <2>1
<1> QED  BY <1>3, <1>4, <1>5, <1>6, SeqEqual

LEMMA NextNames == IInv /\ Next => NamesExact'
<1> SUFFICES ASSUME IInv, Next PROVE NamesExact'
  OBVIOUS
<1>1. NamesExact /\ TypeOK /\ Len(pool) \in Nat
  BY PoolEntries DEF IInv
<1>2. CASE UNCHANGED <<pool, callVars, disturbed>>
  BY <1>1, <1>2 DEF NamesExact, NamesGood, callVars
<1>3. ASSUME NEW a \in Actors,
             (\E t \in Actors : BeginDelete(a, t)) \/ BeginList(a) \/ PoolCall(a)
      PROVE  NamesExact'
  <2>1. pool' = pool
    BY <1>3, CallFrame
  <2>2. ASSUME NEW b \in Actors \ {a}, b \notin disturbed', call'[b] = "entry"
        PROVE  NamesGood(b)'
    BY <1>1, <1>3, <2>1, <2>2, OtherCallsKept DEF NamesExact, NamesGood
  <2>3. ASSUME a \notin disturbed', call'[a] = "entry" PROVE NamesGood(a)'
    <3>1. CASE ListCompares(a) \/ ListSizes(a)
      <4>1. listing'[a].names = listing[a].names /\ listing[a].names = <<>>
        BY <1>1, <3>1 DEF ListCompares, ListSizes, IInv, Places, TypeOK
      <4>2. listing'[a].max <= Len(pool)
        <5>1. CASE ListCompares(a)
          <6>1. /\ listing[a].array = 0 \/ listing[a].array < Len(pool)
                /\ listing'[a].max = listing[a].array
            BY <1>1, <2>3, <5>1 DEF ListCompares, At, TypeOK
          <6> QED  BY <1>1, <6>1 DEF TypeOK
        <5>2. CASE ListSizes(a)
          BY <1>1, <5>2 DEF ListSizes, PoolSize, TypeOK
        <5> QED  BY <3>1, <5>1, <5>2
      <4>3. SubSeq(pool, 1, 0) = <<>> /\ Len(<<>>) = 0
        BY SubSeqEmpty, EmptySeq
      <4> QED  BY <1>1, <2>1, <4>1, <4>2, <4>3 DEF NamesGood
    <3>2. CASE ListEntry(a)
      <4> DEFINE names == listing[a].names
                 n == Index(a)
      <4>1. /\ call[a] = "entry" /\ a \notin disturbed /\ n <= Len(pool)
            /\ listing'[a].max = listing[a].max
            /\ listing'[a].names = Append(names, pool[n])
        BY <1>1, <2>3, <3>2 DEF ListEntry, history, TypeOK
      <4>2. NamesGood(a)
        BY <1>1, <4>1 DEF NamesExact
      <4>3. names \in Seq(Tasks) /\ Len(names) \in Nat /\ n = Len(names) + 1
        BY <1>1, LenProperties DEF TypeOK, Index
      <4> HIDE DEF names, n
      <4>4. n \in 1..Len(pool) /\ n - 1 = Len(names) /\ 1 \in 1..Len(pool)
        BY <1>1, <4>1, <4>3
      <4>5. pool[n] \in Tasks
        BY <1>1, <4>4, PoolEntries
      <4>6. SubSeq(pool, 1, n) = SubSeq(pool, 1, n - 1) \o <<pool[n]>>
        BY <1>1, <4>4, SubSeqRecursiveSecond DEF TypeOK
      <4>7. names = SubSeq(pool, 1, n - 1)
        BY <4>2, <4>4 DEF NamesGood, names
      <4>8. Append(names, pool[n]) = names \o <<pool[n]>>
        BY <4>3, <4>5, AppendIsConcat
      <4>9. Len(Append(names, pool[n])) = n
        BY <4>3, <4>5, AppendProperties
      <4>10. Append(names, pool[n]) = SubSeq(pool, 1, n)
        BY <4>6, <4>7, <4>8
      <4>11. listing[a].max <= Len(pool)
        BY <4>2 DEF NamesGood
      <4> QED  BY <2>1, <4>1, <4>9, <4>10, <4>11 DEF NamesGood
    <3>3. CASE Aborts(a)
      BY <1>1, <1>2, <2>3, <3>3 DEF Aborts, history, NamesExact
    <3>4. ASSUME (\E t \in Actors : BeginDelete(a, t)) \/ BeginList(a) \/ Search(a)
                   \/ ListPrints(a)
          PROVE  call'[a] # "entry"
      BY <1>1, <3>4 DEF BeginDelete, BeginList, Search, SearchTests, SearchCompares,
         SearchMarks, ListPrints, Returns, At, TypeOK
    <3> QED  BY <1>3, <2>3, <3>1, <3>2, <3>3, <3>4 DEF PoolCall, List
  <2> QED  BY <2>2, <2>3 DEF NamesExact
<1>4. ASSUME NEW t \in Tasks, ListTask(t) PROVE NamesExact'
  <2>1. UNCHANGED <<callVars, disturbed>> /\ pool' = Append(pool, t)
    BY <1>4 DEF ListTask
  <2>2. Len(pool') = Len(pool) + 1
    BY <1>1, <2>1, AppendedEntries
  <2>3. ASSUME NEW b \in Actors, NamesGood(b) PROVE NamesGood(b)'
    <3>1. Len(listing[b].names) \in 0..Len(pool) /\ listing[b].max \in Nat
      <4>1. listing[b].names \in Seq(Tasks) /\ listing[b].max \in Nat
        BY <1>1 DEF TypeOK
      <4> QED  BY <1>1, <2>3, <4>1, LenProperties DEF NamesGood
    <3>2. SubSeq(pool', 1, Len(listing[b].names)) = SubSeq(pool, 1, Len(listing[b].names))
      BY <1>1, <2>1, <3>1, BeginningKept
    <3> QED  BY <1>1, <2>1, <2>2, <2>3, <3>1, <3>2 DEF NamesGood, callVars
  <2> QED  BY <1>1, <2>1, <2>3 DEF NamesExact, callVars
<1>5. CASE \/ \E a \in Actors, t \in Tasks : StartThread(a, t)
           \/ \E t \in Tasks : TaskReturns(t) \/ ThreadEnds(t)
  BY <1>2, <1>5 DEF StartThread, TaskReturns, ThreadEnds, history
<1>6. CASE AppMainReturns \/ PressCtrlC \/ MainLoop
  <2>1. CASE UNCHANGED <<pool, disturbed>>
    BY <1>1, <1>2, <1>6, <2>1, MainKeeps
  <2>2. CASE \A b \in Actors \ disturbed' : ~Looking(b)'
    BY <2>2 DEF NamesExact, Looking
  <2> QED  BY <1>1, <1>6, <2>1, <2>2, MainKeeps
<1> QED  BY <1>3, <1>4, <1>5, <1>6 DEF Next

LEMMA NextSearch == IInv /\ Next => SearchExact'
<1> SUFFICES ASSUME IInv, Next PROVE SearchExact'
  OBVIOUS
<1>1. SearchExact /\ TypeOK /\ Len(pool) \in Nat
  BY PoolEntries DEF IInv
<1>2. CASE UNCHANGED <<pool, id, callVars, disturbed>>
  BY <1>1, <1>2 DEF SearchExact, SearchGood, Searching, InRange, Match, Entry, callVars
<1>3. ASSUME NEW a \in Actors,
             (\E t \in Actors : BeginDelete(a, t)) \/ BeginList(a) \/ PoolCall(a)
      PROVE  SearchExact'
  <2>1. pool' = pool /\ id' = id
    BY <1>3, CallFrame DEF threadVars
  <2>2. ASSUME NEW b \in Actors \ {a}, b \notin disturbed', Searching(b)'
        PROVE  SearchGood(b)'
    <3>1. call'[b] = call[b] /\ search'[b] = search[b] /\ b \notin disturbed
      BY <1>1, <1>3, <2>2, OtherCallsKept
    <3>2. SearchGood(b)
      BY <1>1, <2>2, <3>1 DEF SearchExact, Searching
    <3> QED  BY <2>1, <3>1, <3>2 DEF SearchGood, InRange, Match, Entry
  <2>3. ASSUME a \notin disturbed', Searching(a)' PROVE SearchGood(a)'
    <3>1. ASSUME NEW t \in Actors, BeginDelete(a, t) PROVE SearchGood(a)'
      <4>1. search'[a].at = 1 /\ call'[a] = "size"
        BY <1>1, <3>1 DEF BeginDelete, At, TypeOK
      <4> QED  BY <1>1, <2>1, <4>1 DEF SearchGood
    <3>2. CASE SearchTests(a)
      <4>1. InRange(a) /\ call'[a] = "compare" /\ search' = search /\ disturbed' = disturbed
        BY <1>1, <2>3, <3>2 DEF SearchTests, Returns, At, Searching, TypeOK
      <4>2. SearchGood(a)
        BY <1>1, <2>3, <3>2, <4>1 DEF SearchTests, SearchExact, Searching
      <4> QED  BY <2>1, <4>1, <4>2 DEF SearchGood, InRange
    <3>3. CASE SearchCompares(a)
      <4>1. a \notin disturbed /\ call[a] = "compare" /\ InRange(a)
        BY <2>3, <3>3 DEF SearchCompares, history
      <4>2. SearchGood(a)
        BY <1>1, <4>1 DEF SearchExact, Searching
      <4>3. Entry(a) \notin deleted
        <5>1. PoolLive
          BY <4>1 DEF IInv, LiveUnderCalls, Looking
        <5>2. search[a].at \in 1..Len(pool)
          BY <1>1, <4>1 DEF IInv, Places, Searching, InRange, TypeOK
        <5> QED  BY <5>1, <5>2 DEF PoolLive, Entry
      <4>4. IF Match(a) THEN At(a, "mark") /\ UNCHANGED search
            ELSE At(a, "size") /\ search' = [search EXCEPT ![a].at = @ + 1]
        BY <3>3, <4>3 DEF SearchCompares
      <4>5. CASE Match(a)
        <5>1. call'[a] = "mark" /\ search' = search
          BY <1>1, <4>4, <4>5 DEF At, TypeOK
        <5> QED  BY <2>1, <4>1, <4>2, <4>5, <5>1 DEF SearchGood, InRange, Match, Entry
      <4>6. CASE ~Match(a)
        <5>1. call'[a] = "size" /\ search' = [search EXCEPT ![a].at = search[a].at + 1]
          BY <1>1, <4>4, <4>6 DEF At, TypeOK
        <5>2. search'[a].at = search[a].at + 1 /\ search'[a].id = search[a].id
          BY <1>1, <5>1 DEF TypeOK
        <5>3. search[a].at \in Nat /\ search[a].at <= Len(pool)
          BY <1>1, <4>1 DEF InRange, TypeOK
        <5>4. id[pool[search[a].at]] # search[a].id
          BY <4>6 DEF Match, Entry
        <5>5. \A k \in 1..search[a].at : id[pool[k]] # search[a].id
          <6>1. \A k \in 1..search[a].at : k \in 1..(search[a].at - 1) \/ k = search[a].at
            BY <5>3
          <6> QED  BY <4>2, <5>4, <6>1 DEF SearchGood
        <5>6. (search[a].at + 1) - 1 = search[a].at
          BY <5>3
        <5> QED  BY <2>1, <5>1, <5>2, <5>3, <5>5, <5>6 DEF SearchGood
      <4> QED  BY <4>5, <4>6
    <3>4. CASE Aborts(a)
      BY <1>1, <1>2, <2>1, <2>3, <3>4 DEF Aborts, history, SearchExact
    <3>5. CASE BeginList(a) \/ List(a) \/ SearchMarks(a)
      <4>1. call'[a] \notin {"size", "compare", "mark"}
        BY <1>1, <3>5 DEF BeginList, List, ListCompares, ListSizes, ListEntry,
           ListPrints, SearchMarks, Returns, At, TypeOK
      <4> QED  BY <2>3, <4>1 DEF Searching
    <3> QED  BY <1>3, <3>1, <3>2, <3>3, <3>4, <3>5 DEF PoolCall, Search
  <2> QED  BY <2>2, <2>3 DEF SearchExact
<1>4. ASSUME NEW a \in Actors, NEW t \in Tasks, StartThread(a, t) PROVE SearchExact'
  <2>1. UNCHANGED <<pool, callVars, history>>
    BY <1>4 DEF StartThread
  <2>2. \A k \in 1..Len(pool) : id'[pool[k]] = id[pool[k]]
    <3>1. \A k \in 1..Len(pool) : pool[k] \in Tasks /\ pool[k] # t
      BY <1>1, <1>4, PoolEntries DEF StartThread, IInv, Born, InPool
    <3>2. \A u \in Tasks \ {t} : id'[u] = id[u]
      BY <1>1, <1>4 DEF StartThread, TypeOK
    <3> QED  BY <3>1, <3>2
  <2>3. ASSUME NEW b \in Actors, Searching(b), SearchGood(b) PROVE SearchGood(b)'
    <3>1. search[b].at \in Nat \ {0}
      BY <1>1, <2>3 DEF IInv, Places, TypeOK
    <3>2. \A k \in 1..(search[b].at - 1) : k \in 1..Len(pool)
      BY <1>1, <2>3, <3>1 DEF SearchGood
    <3>3. \A k \in 1..(search[b].at - 1) : id'[pool[k]] # search[b].id
      BY <2>2, <2>3, <3>2 DEF SearchGood
    <3>4. call[b] = "mark" => Match(b)'
      BY <1>1, <2>1, <2>2, <2>3, <3>1 DEF SearchGood, InRange, Match, Entry, callVars
    <3> QED  BY <2>1, <2>3, <3>3, <3>4 DEF SearchGood, InRange, callVars
  <2> QED  BY <1>1, <2>1, <2>3 DEF SearchExact, Searching, callVars, history
<1>5. ASSUME NEW t \in Tasks, ListTask(t) PROVE SearchExact'
  <2>1. UNCHANGED <<id, callVars, disturbed>> /\ pool' = Append(pool, t)
    BY <1>5 DEF ListTask
  <2>2. Len(pool') = Len(pool) + 1 /\ \A k \in 1..Len(pool) : pool'[k] = pool[k]
    BY <1>1, <2>1, AppendedEntries
  <2>3. ASSUME NEW b \in Actors, Searching(b), SearchGood(b) PROVE SearchGood(b)'
    <3>1. search[b].at \in Nat \ {0} /\ search' = search /\ call' = call
      BY <1>1, <2>1, <2>3 DEF IInv, Places, TypeOK, callVars
    <3>2. \A k \in 1..(search[b].at - 1) : pool'[k] = pool[k]
      BY <1>1, <2>2, <2>3, <3>1 DEF SearchGood
    <3>3. \A k \in 1..(search[b].at - 1) : id[pool'[k]] # search[b].id
      BY <2>3, <3>2 DEF SearchGood
    <3>4. call[b] = "mark" => Match(b)'
      BY <1>1, <2>1, <2>2, <2>3, <3>1 DEF SearchGood, InRange, Match, Entry
    <3>5. call[b] \in {"compare", "mark"} => InRange(b)'
      BY <1>1, <2>2, <2>3, <3>1 DEF SearchGood, InRange
    <3>6. search[b].at - 1 <= Len(pool')
      BY <1>1, <2>2, <2>3, <3>1 DEF SearchGood
    <3> QED  BY <2>1, <3>1, <3>3, <3>4, <3>5, <3>6 DEF SearchGood
  <2> QED  BY <1>1, <2>1, <2>3 DEF SearchExact, Searching, callVars
<1>6. CASE \E t \in Tasks : TaskReturns(t) \/ ThreadEnds(t)
  BY <1>2, <1>6 DEF TaskReturns, ThreadEnds, history
<1>7. CASE AppMainReturns \/ PressCtrlC \/ MainLoop
  <2>1. CASE UNCHANGED <<pool, disturbed>>
    BY <1>1, <1>2, <1>7, <2>1, MainKeeps DEF threadVars
  <2>2. CASE \A b \in Actors \ disturbed' : ~Looking(b)'
    BY <2>2 DEF SearchExact, Searching, Looking
  <2> QED  BY <1>1, <1>7, <2>1, <2>2, MainKeeps
<1> QED  BY <1>3, <1>4, <1>5, <1>6, <1>7 DEF Next

----------------------------------------------------------------------------

LEMMA NextIInv == IInv /\ [Next]_vars => IInv'
<1> SUFFICES ASSUME IInv, [Next]_vars PROVE IInv'
  OBVIOUS
<1>1. CASE Next
  BY <1>1, NextTypes, NextPlaces, NextBorn, NextPoolExact, NextArrayGood, NextLive, NextNames,
     NextSearch DEF IInv
<1>2. CASE UNCHANGED vars
  <2>1. TypeOK' /\ Places' /\ Born' /\ PoolExact'
    BY <1>2 DEF vars, threadVars, callVars, history, handleVars, mainVars, IInv, TypeOK,
       Places, Searching, Born, PoolExact, InPool
  <2>2. ArrayGood' /\ LiveUnderCalls' /\ NamesExact' /\ SearchExact'
    BY <1>2 DEF vars, threadVars, callVars, history, handleVars, IInv, ArrayGood,
       LiveUnderCalls, Looking, PoolLive, NamesExact, NamesGood, SearchExact, SearchGood,
       Searching, InRange, Match, Entry
  <2> QED  BY <2>1, <2>2 DEF IInv
<1> QED  BY <1>1, <1>2

\* The names of an undisturbed listing are those of handles in the pool.
LEMMA ListingFollows == IInv => UndisturbedListing
<1> SUFFICES ASSUME IInv, NEW a \in Actors, call[a] = "entry", a \notin disturbed
             PROVE  /\ NamesGood(a)
                    /\ \A i \in 1..Len(listing[a].names) : listing[a].names[i] \notin deleted
  BY DEF UndisturbedListing, NamesGood, IInv, ArrayGood
<1> DEFINE n == Len(listing[a].names)
<1>1. NamesGood(a) /\ PoolLive
  BY DEF IInv, NamesExact, LiveUnderCalls, Looking
<1>2. listing[a].names \in Seq(Tasks) /\ n \in Nat
  BY LenProperties DEF IInv, TypeOK
<1>3. Len(pool) \in Nat /\ \A i \in 1..Len(pool) : pool[i] \in Tasks
  BY PoolEntries DEF IInv
<1>4. n <= Len(pool) /\ listing[a].names = SubSeq(pool, 1, n)
  BY <1>1 DEF NamesGood
<1> HIDE DEF n
<1>5. \A i \in 1..(n - 1 + 1) : SubSeq(pool, 1, n)[i] = pool[1 + i - 1]
  <2>1. \A i \in 1..n : pool[i] \in Tasks
    BY <1>2, <1>3, <1>4
  <2> QED  BY <1>2, <2>1, SubSeqProperties
<1>6. \A i \in 1..n : i \in 1..(n - 1 + 1) /\ 1 + i - 1 = i /\ i \in 1..Len(pool)
  BY <1>2, <1>3, <1>4
<1>7. \A i \in 1..n : listing[a].names[i] \notin deleted
  BY <1>1, <1>4, <1>5, <1>6 DEF PoolLive
<1> QED  BY <1>1, <1>7 DEF n

LEMMA Invariance == Spec => []IInv
  BY InitIInv, NextIInv, PTL DEF Spec

\* Types; and the kill loop stays within the pool, though tasks that are still
\* running go on listing new ones while it counts down.
THEOREM TypeCorrect == Spec => []TypeOK
  BY Invariance, PTL DEF IInv

\* Whatever the number of tasks and the order they are marked in, sweeping while
\* counting up loses no other entry, and keeps a destroyed handle only until it
\* erases that entry.
THEOREM PoolIsExact == Spec => []PoolExact
  BY Invariance, PTL DEF IInv

\* A listing under which nothing is erased or destroyed takes the oldest names in
\* order, from live handles, and stays within the pool; and any listing stays
\* within its array unless a task was listed between its two calls of size().
THEOREM ListingIsExact == Spec => []UndisturbedListing
  BY Invariance, ListingFollows, PTL

\* A call of vTaskDelete under which nothing is erased or destroyed does not throw
\* and reads no destroyed handle, marks only an entry with the id it seeks, and
\* gives up only when there is none.
THEOREM DeleteIsExact == Spec => UndisturbedDelete
<1> DEFINE Right(a) ==
      call[a] \in {"size", "compare", "mark"} =>
        /\ ~Aborts(a)
        /\ SearchMarks(a) => \A t \in marked' \ marked : id[t] = search[a].id
        /\ (SearchTests(a) /\ call'[a] = "none") =>
             \A t \in Tasks : InPool(t) => id[t] # search[a].id
<1>1. IInv => \A a \in Actors \ disturbed : Right(a)
  <2> SUFFICES ASSUME IInv, NEW a \in Actors \ disturbed,
                      call[a] \in {"size", "compare", "mark"}
               PROVE  Right(a)
    OBVIOUS
  <2>1. /\ SearchGood(a) /\ TypeOK /\ Len(pool) \in Nat /\ search[a].at \in Nat \ {0}
    <3>1. SearchGood(a) /\ TypeOK /\ search[a].at >= 1
      BY DEF IInv, SearchExact, Searching, Places
    <3>2. search[a].at \in Nat
      BY <3>1 DEF TypeOK
    <3> QED  BY <3>1, <3>2, PoolEntries
  <2>2. ~Aborts(a)
    <3>1. ~Throws(a)
      BY <2>1 DEF Throws, SearchGood
    <3>2. PoolLive
      BY DEF IInv, LiveUnderCalls, Looking
    <3>3. InRange(a) => Entry(a) \notin deleted
      BY <2>1, <3>2 DEF InRange, Entry, PoolLive
    <3>4. ~Undefined(a)
      BY <3>3 DEF Undefined
    <3> QED  BY <3>1, <3>4 DEF Aborts
  <2>3. ASSUME SearchMarks(a), NEW t \in marked' \ marked PROVE id[t] = search[a].id
    BY <2>1, <2>3 DEF SearchMarks, SearchGood, Match
  <2>4. ASSUME SearchTests(a), call'[a] = "none", NEW t \in Tasks, InPool(t)
        PROVE  id[t] # search[a].id
    <3>1. ~InRange(a)
      BY <2>1, <2>4 DEF SearchTests, At, TypeOK
    <3>2. \A k \in 1..Len(pool) : k \in 1..(search[a].at - 1)
      BY <2>1, <3>1 DEF InRange
    <3> QED  BY <2>1, <2>4, <3>2 DEF SearchGood, InPool
  <2> QED  BY <2>2, <2>3, <2>4
<1>2. IInv => [\A a \in Actors \ disturbed : Right(a)]_vars
  BY <1>1
<1> QED  BY <1>2, Invariance, PTL DEF UndisturbedDelete
=============================================================================
