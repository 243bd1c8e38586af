------------------------- MODULE WifiManagerProofs -------------------------
(***************************************************************************)
(* Proofs about WifiManager, for every choice of calls, hostnames, upsets  *)
(* and bounds.                                                             *)
(***************************************************************************)
EXTENDS WifiManager, TLAPS

----------------------------------------------------------------------------
(* The event queue.                                                        *)

\* Events that a post may add.
Posts == {<<>>, <<"STA_START">>, <<"STA_DISCONNECTED">>, <<"GOT_IP">>, <<"LOST_IP">>}

LEMMA PostsAreEvents == Posts \subseteq Seq(Events)
<1>1. <<>> \in Seq(Events)
  OBVIOUS
<1>2. \A e \in Events : <<e>> \in Seq(Events)
  OBVIOUS
<1> QED  BY <1>1, <1>2 DEF Posts, Events

\* A step leaves the queue as it is or posts.
QueueKept == UNCHANGED queue \/ \E es \in Posts : Post(es)

LEMMA QueueKeptType ==
  ASSUME TypeOK, QueueKept
  PROVE  queue' \in Seq(Events) /\ Len(queue') <= MaxQueue
<1>1. CASE UNCHANGED queue
  BY <1>1 DEF TypeOK
<1>2. ASSUME NEW es \in Posts, Post(es)
      PROVE  queue' \in Seq(Events) /\ Len(queue') <= MaxQueue
  <2>1. es \in Seq(Events)
    BY PostsAreEvents
  <2> QED  BY <1>2, <2>1 DEF TypeOK, Post
<1> QED  BY <1>1, <1>2 DEF QueueKept

\* Posting loses no event.
LEMMA QueueKeptPending ==
  ASSUME TypeOK, QueueKept, NEW e, Pending(e)
  PROVE  Pending(e)'
<1>1. CASE UNCHANGED queue
  BY <1>1 DEF Pending
<1>2. ASSUME NEW es \in Posts, Post(es)
      PROVE  Pending(e)'
  <2>1. es \in Seq(Events)
    BY PostsAreEvents
  <2>2. PICK i \in 1..Len(queue) : queue[i] = e
    BY DEF Pending
  <2>3. i \in 1..Len(queue') /\ queue'[i] = e
    BY <1>2, <2>1, <2>2 DEF TypeOK, Post
  <2> QED  BY <2>3 DEF Pending
<1> QED  BY <1>1, <1>2 DEF QueueKept

\* The last event posted is pending.
LEMMA PostedPending ==
  ASSUME TypeOK, NEW e \in Events, Post(<<e>>)
  PROVE  Pending(e)'
<1>1. queue' = queue \o <<e>> /\ <<e>> \in Seq(Events) /\ queue \in Seq(Events)
  BY DEF Post, TypeOK
<1>2. Len(queue') = Len(queue) + 1 /\ queue'[Len(queue) + 1] = e
  BY <1>1
<1>3. Len(queue) + 1 \in 1..Len(queue')
  BY <1>1, <1>2
<1> QED  BY <1>2, <1>3 DEF Pending

\* Dispatching takes no event but the oldest.
LEMMA DispatchPending ==
  ASSUME TypeOK, Dispatch, NEW e, Pending(e), Head(queue) # e
  PROVE  Pending(e)'
<1>1. queue \in Seq(Events) /\ queue # <<>> /\ queue' = Tail(queue)
  BY DEF TypeOK, Dispatch
<1>2. PICK i \in 1..Len(queue) : queue[i] = e
  BY DEF Pending
<1>3. i # 1
  BY <1>1, <1>2
<1>4. i - 1 \in 1..Len(queue') /\ queue'[i - 1] = e
  BY <1>1, <1>2, <1>3
<1> QED  BY <1>4 DEF Pending

\* What the driver does on the manager's behalf only posts events, keeps the
\* types of its state, and never makes a station join.
DriverStep ==
  /\ QueueKept
  /\ mode' \in Modes
  /\ started' \in BOOLEAN
  /\ link' \in {"down", "idle", "joining", "leased"}
  /\ link' \in {"joining", "leased"} => link' = link

LEMMA LinkEndPosts == LinkEnd \in Posts
  BY DEF LinkEnd, Posts

LEMMA SetWifiModeStep ==
  ASSUME TypeOK, NEW m \in Modes, SetWifiMode(m), UNCHANGED started
  PROVE  DriverStep
  BY LinkEndPosts DEF TypeOK, SetWifiMode, DriverSetMode, DriverStep, QueueKept, Posts

LEMMA DriverStartStep ==
  ASSUME TypeOK, DriverStart, UNCHANGED mode
  PROVE  DriverStep
  BY DEF TypeOK, DriverStart, DriverStep, QueueKept, Posts

LEMMA DriverStopStep ==
  ASSUME TypeOK, DriverStop, UNCHANGED mode
  PROVE  DriverStep
  BY LinkEndPosts DEF TypeOK, DriverStop, DriverStep, QueueKept, Posts

LEMMA DriverDisconnectStep ==
  ASSUME TypeOK, DriverDisconnect, UNCHANGED <<mode, started>>
  PROVE  DriverStep
  BY LinkEndPosts DEF TypeOK, DriverDisconnect, DriverStep, QueueKept, Posts

LEMMA NoDriverStep ==
  ASSUME TypeOK, UNCHANGED <<mode, started, link, queue>>
  PROVE  DriverStep
  BY DEF TypeOK, DriverStep, QueueKept

\* The modes the calls ask for are modes.
LEMMA AskedModes ==
  ASSUME TypeOK, NEW first, NEW second
  PROVE  /\ StationMode(first, second) \in Modes
         /\ ApMode(first, second) \in Modes
         /\ ModeWithoutAp(first, second) \in Modes
  BY DEF TypeOK, StationMode, ApMode, ModeWithoutAp, Modes

\* The calls that begin with a reading of the mode, whatever it answers.
ConnectStationCall ==
  \E first, second \in WifiModeAnswers : \E h \in Hostnames : ConnectStation(h, first, second)
StartAPCall == \E first, second \in WifiModeAnswers : StartAP(first, second)
StopAPCall == \E first, second \in WifiModeAnswers : StopAP(first, second)

\* The steps of the application task, but for the one that asks to join.
CallStep ==
  \/ ConnectStationCall
  \/ ConnectStationRegister \/ ConnectStationStart \/ ConnectStationSetHostname
  \/ ConnectStationTick \/ ConnectStationLeave \/ ConnectStationVerdict
  \/ DisconnectStation
  \/ StartAPCall \/ StartAPStart \/ StopAPCall
  \/ StopWIFI
  \/ \E m \in Modes : CallSetWifiMode(m)

\* The steps of the network.
NetStep == Lease \/ Refuse \/ Drop \/ LoseIp

LEMMA NextSteps == Next => CallStep \/ ConnectStationDial \/ NetStep \/ Dispatch
  BY DEF Next, StationStep, ConnectStationSucceeds, ConnectStationFails, CallStep, NetStep,
     ConnectStationCall, StartAPCall, StopAPCall

LEMMA CallDriverStep ==
  ASSUME TypeOK, CallStep
  PROVE  DriverStep
<1>1. CASE ConnectStationCall
  BY <1>1, AskedModes, SetWifiModeStep DEF ConnectStationCall, ConnectStation
<1>2. CASE \/ ConnectStationRegister \/ ConnectStationSetHostname
           \/ ConnectStationTick \/ ConnectStationLeave \/ ConnectStationVerdict
  BY <1>2, NoDriverStep DEF ConnectStationRegister, ConnectStationSetHostname,
     ConnectStationTick, ConnectStationLeave, ConnectStationVerdict, driverVars
<1>3. CASE ConnectStationStart
  BY <1>3, DriverStartStep, NoDriverStep DEF ConnectStationStart
<1>4. CASE DisconnectStation
  BY <1>4, DriverDisconnectStep, NoDriverStep DEF DisconnectStation
<1>5. CASE StartAPCall
  BY <1>5, AskedModes, SetWifiModeStep DEF StartAPCall, StartAP
<1>6. CASE StartAPStart
  BY <1>6, DriverStartStep, NoDriverStep DEF StartAPStart
<1>7. CASE StopAPCall
  BY <1>7, AskedModes, SetWifiModeStep DEF StopAPCall, StopAP
<1>8. CASE StopWIFI
  BY <1>8, DriverStopStep, NoDriverStep DEF StopWIFI
<1>9. ASSUME NEW m \in Modes, CallSetWifiMode(m) PROVE DriverStep
  BY <1>9, SetWifiModeStep DEF CallSetWifiMode
<1> QED
  BY <1>1, <1>2, <1>3, <1>4, <1>5, <1>6, <1>7, <1>8, <1>9 DEF CallStep

LEMMA NetQueueKept ==
  ASSUME TypeOK, NetStep
  PROVE  QueueKept
  BY DEF NetStep, Lease, Refuse, Drop, LoseIp, QueueKept, Posts

----------------------------------------------------------------------------
(* Type correctness.                                                       *)

LEMMA TypeInit == Init => TypeOK
<1> SUFFICES ASSUME Init PROVE TypeOK
  OBVIOUS
<1>1. initialized \in BOOLEAN /\ mode \in Modes
  BY DEF Init, InitInterfaces, Modes
<1>2. queue \in Seq(Events) /\ Len(queue) <= MaxQueue
  BY WifiAssumption DEF Init
<1>3. registered \subseteq Events
  BY DEF Init
<1>4. left \in 0..MaxTimeout
  BY WifiAssumption DEF Init
<1>5. pc \in Pcs /\ host \in Hostnames \cup {"none"}
  BY DEF Init, Pcs
<1>6. unheard \in BOOLEAN /\ meddled \in {"never", "before", "since"}
  BY DEF Init
<1>7. /\ staIfReady \in BOOLEAN /\ staConnected \in BOOLEAN /\ apReady \in BOOLEAN
      /\ started \in BOOLEAN
      /\ link \in {"down", "idle", "joining", "leased"}
  BY DEF Init
<1> QED  BY <1>1, <1>2, <1>3, <1>4, <1>5, <1>6, <1>7 DEF TypeOK

\* The part of TypeOK about the manager and the task that calls it.
LEMMA CallType ==
  ASSUME TypeOK, CallStep, DriverStep
  PROVE  TypeOK'
<1>1. queue' \in Seq(Events) /\ Len(queue') <= MaxQueue
  BY QueueKeptType DEF DriverStep
<1> USE <1>1, WifiAssumption DEF TypeOK, DriverStep, Return, Pcs, history
<1>2. CASE ConnectStationCall
  BY <1>2 DEF ConnectStationCall, ConnectStation, flagVars
<1>3. CASE ConnectStationRegister
  <2>1. registered' \subseteq Events /\ unheard' \in BOOLEAN
    BY <1>3 DEF ConnectStationRegister, RegisteredEvents, Events
  <2> QED  BY <1>3, <2>1 DEF ConnectStationRegister, driverVars
<1>4. CASE ConnectStationStart
  BY <1>4 DEF ConnectStationStart, flagVars
<1>5. CASE ConnectStationSetHostname \/ ConnectStationTick \/ ConnectStationLeave
  BY <1>5 DEF ConnectStationSetHostname, ConnectStationTick, ConnectStationLeave,
     InTime, SecondGone, flagVars, driverVars
<1>6. CASE ConnectStationVerdict
  BY <1>6 DEF ConnectStationVerdict, flagVars, driverVars
<1>7. CASE DisconnectStation
  BY <1>7 DEF DisconnectStation
<1>8. CASE StartAPCall
  BY <1>8 DEF StartAPCall, StartAP
<1>9. CASE StartAPStart
  BY <1>9 DEF StartAPStart
<1>10. CASE StopAPCall
  BY <1>10 DEF StopAPCall, StopAP
<1>11. CASE StopWIFI
  BY <1>11 DEF StopWIFI
<1>12. ASSUME NEW m \in Modes, CallSetWifiMode(m) PROVE TypeOK'
  BY <1>12 DEF CallSetWifiMode, flagVars
<1> QED
  BY <1>2, <1>3, <1>4, <1>5, <1>6, <1>7, <1>8, <1>9, <1>10, <1>11, <1>12 DEF CallStep

LEMMA TypeNext == TypeOK /\ [Next]_vars => TypeOK'
<1> SUFFICES ASSUME TypeOK, [Next]_vars PROVE TypeOK'
  OBVIOUS
<1>1. CASE CallStep
  BY <1>1, CallDriverStep, CallType
<1>2. CASE ConnectStationDial
  BY <1>2 DEF TypeOK, ConnectStationDial, flagVars, Pcs, history
<1>3. CASE NetStep
  <2>1. queue' \in Seq(Events) /\ Len(queue') <= MaxQueue
    BY <1>3, NetQueueKept, QueueKeptType
  <2> QED
    BY <1>3, <2>1 DEF TypeOK, NetStep, Lease, Refuse, Drop, LoseIp, flagVars, taskVars, history
<1>4. CASE Dispatch
  <2>1. queue' \in Seq(Events) /\ Len(queue') <= MaxQueue
    BY <1>4, WifiAssumption DEF TypeOK, Dispatch
  <2>2. staConnected' \in BOOLEAN /\ staIfReady' \in BOOLEAN
    BY <1>4 DEF TypeOK, Dispatch, WiFiEventHandler
  <2> QED  BY <1>4, <2>1, <2>2 DEF TypeOK, Dispatch, taskVars, driverVars, history
<1>5. CASE UNCHANGED vars
  BY <1>5 DEF TypeOK, vars, flagVars, taskVars, driverVars, history
<1> QED  BY <1>1, <1>2, <1>3, <1>4, <1>5, NextSteps

\* Flags, driver state and queue keep their types and stay within the bounds.
THEOREM TypeCorrect == Spec => []TypeOK
  BY TypeInit, TypeNext, PTL DEF Spec

----------------------------------------------------------------------------
(* No lease is missed.  The invariant adds to LeaseIsSeen why it is so: the *)
(* GOT_IP handler is registered, or known not to be, before the station is  *)
(* asked to join, it is never removed, and the two events that would clear  *)
(* the flag are never handled.                                              *)

\* ConnectStation has registered its handlers.
Dialling == {"start", "awaitIf", "dial", "awaitIp", "verdict"}

Listening == "GOT_IP" \in registered \/ unheard

LeaseInv ==
  /\ LeaseIsSeen
  /\ link \in {"joining", "leased"} => Listening
  /\ pc \in Dialling => Listening
  /\ registered \subseteq RegisteredEvents

LEMMA LeaseInit == Init => LeaseInv
  BY DEF Init, LeaseInv, LeaseIsSeen, Dialling

\* ConnectStation registers some of its handlers and notes a missing one.
LEMMA RegisterHandlers ==
  ASSUME ConnectStationRegister
  PROVE  /\ registered \subseteq registered'
         /\ registered' \subseteq registered \cup RegisteredEvents
         /\ unheard => unheard'
         /\ Listening'
  BY DEF ConnectStationRegister, RegisteredEvents, Listening

LEMMA CallHandlers ==
  ASSUME CallStep
  PROVE  ConnectStationRegister \/ UNCHANGED registered
  BY DEF CallStep, ConnectStationCall, StartAPCall, StopAPCall, ConnectStation,
     ConnectStationStart, ConnectStationSetHostname,
     ConnectStationTick, ConnectStationLeave, ConnectStationVerdict,
     DisconnectStation, StartAP, StartAPStart, StopAP, StopWIFI, CallSetWifiMode

\* ConnectStation passes through its registrations.
LEMMA CallDialling ==
  ASSUME CallStep, pc' \in Dialling
  PROVE  ConnectStationRegister \/ (pc \in Dialling /\ UNCHANGED unheard)
  BY DEF CallStep, ConnectStationCall, StartAPCall, StopAPCall, ConnectStation,
     ConnectStationStart, ConnectStationSetHostname,
     ConnectStationTick, ConnectStationLeave, ConnectStationVerdict,
     DisconnectStation, StartAP, StartAPStart, StopAP, StopWIFI, CallSetWifiMode,
     Return, Dialling, history

\* Only DisconnectStation clears STA_CONNECTED; it ends the link as well, or
\* the failure to do so is on record.
LEMMA CallConnected ==
  ASSUME TypeOK, CallStep
  PROVE  \/ UNCHANGED <<staConnected, unheard>>
         \/ link' \notin {"joining", "leased"}
         \/ unheard'
<1>1. CASE DisconnectStation
  BY <1>1 DEF DisconnectStation, DriverDisconnect
<1>2. CASE ConnectStationRegister
  BY <1>2 DEF ConnectStationRegister, TypeOK
<1>3. CASE ~DisconnectStation /\ ~ConnectStationRegister
  BY <1>3 DEF CallStep, ConnectStationCall, StartAPCall, StopAPCall, ConnectStation,
     ConnectStationStart, ConnectStationSetHostname, ConnectStationTick,
     ConnectStationLeave, ConnectStationVerdict, StartAP,
     StartAPStart, StopAP, StopWIFI, CallSetWifiMode, flagVars, history
<1> QED  BY <1>1, <1>2, <1>3

LEMMA LeaseCall ==
  ASSUME TypeOK, LeaseInv, CallStep
  PROVE  LeaseInv'
<1>1. DriverStep
  BY CallDriverStep
<1>2. LeaseIsSeen'
  <2> SUFFICES ASSUME link' = "leased", ~staConnected', ~unheard'
               PROVE  Pending("GOT_IP")'
    BY DEF LeaseIsSeen
  <2>1. link = "leased" /\ ~staConnected /\ ~unheard
    BY <1>1, CallConnected DEF DriverStep
  <2> QED  BY <1>1, <2>1, QueueKeptPending DEF LeaseInv, LeaseIsSeen, DriverStep
<1>3. link' \in {"joining", "leased"} => Listening'
  <2> SUFFICES ASSUME link' \in {"joining", "leased"} PROVE Listening'
    OBVIOUS
  <2>1. Listening
    BY <1>1 DEF LeaseInv, DriverStep
  <2> QED  BY <2>1, CallConnected, CallHandlers, RegisterHandlers DEF Listening
<1>4. pc' \in Dialling => Listening'
  BY CallDialling, CallHandlers, RegisterHandlers DEF LeaseInv, Listening
<1>5. registered' \subseteq RegisteredEvents
  BY CallHandlers, RegisterHandlers DEF LeaseInv
<1> QED  BY <1>2, <1>3, <1>4, <1>5 DEF LeaseInv

LEMMA LeaseNet ==
  ASSUME TypeOK, LeaseInv, NetStep
  PROVE  LeaseInv'
<1>1. UNCHANGED <<registered, pc, staConnected>>
  BY DEF NetStep, Lease, Refuse, Drop, LoseIp, flagVars, taskVars
<1>2. link' \in {"joining", "leased"} => link \in {"joining", "leased"}
  BY DEF NetStep, Lease, Refuse, Drop, LoseIp
<1>3. Listening => Listening'
  BY <1>1 DEF NetStep, Lease, Refuse, Drop, LoseIp, history, Listening
<1>4. LeaseIsSeen'
  <2>1. CASE Lease
    <3>1. Pending("GOT_IP")'
      BY <2>1, PostedPending DEF Lease, Events
    <3> QED  BY <3>1 DEF LeaseIsSeen
  <2>2. CASE ~Lease
    BY <2>2 DEF LeaseIsSeen, NetStep, Refuse, Drop, LoseIp
  <2> QED  BY <2>1, <2>2
<1> QED  BY <1>1, <1>2, <1>3, <1>4 DEF LeaseInv, RegisteredEvents

LEMMA LeaseDispatch ==
  ASSUME TypeOK, LeaseInv, Dispatch
  PROVE  LeaseInv'
<1>1. UNCHANGED <<registered, pc, link, unheard>>
  BY DEF Dispatch, taskVars, driverVars, history
<1>2. LeaseIsSeen'
  <2> SUFFICES ASSUME link = "leased", ~unheard
               PROVE  staConnected' \/ Pending("GOT_IP")'
    BY <1>1 DEF LeaseIsSeen
  <2>1. "GOT_IP" \in registered
    BY DEF LeaseInv, Listening
  <2>2. CASE Head(queue) = "GOT_IP"
    BY <2>1, <2>2 DEF Dispatch, WiFiEventHandler
  <2>3. CASE Head(queue) # "GOT_IP"
    <3>1. ASSUME staConnected PROVE staConnected'
      <4>1. CASE Head(queue) \in registered
        <5>1. Head(queue) \notin {"STA_DISCONNECTED", "LOST_IP"}
          BY <4>1 DEF LeaseInv, RegisteredEvents
        <5>2. WiFiEventHandler(Head(queue))
          BY <4>1 DEF Dispatch
        <5> QED  BY <3>1, <5>1, <5>2, Zenon DEF WiFiEventHandler
      <4>2. CASE Head(queue) \notin registered
        BY <3>1, <4>2, Zenon DEF Dispatch
      <4> QED  BY <4>1, <4>2
    <3>2. Pending("GOT_IP") => Pending("GOT_IP")'
      BY <2>3, DispatchPending
    <3> QED  BY <3>1, <3>2 DEF LeaseInv, LeaseIsSeen
  <2> QED  BY <2>2, <2>3
<1> QED  BY <1>1, <1>2 DEF LeaseInv, Listening, RegisteredEvents

LEMMA LeaseNext == TypeOK /\ LeaseInv /\ [Next]_vars => LeaseInv'
<1> SUFFICES ASSUME TypeOK, LeaseInv, [Next]_vars PROVE LeaseInv'
  OBVIOUS
<1>1. CASE CallStep
  BY <1>1, LeaseCall
<1>2. CASE ConnectStationDial
  BY <1>2 DEF ConnectStationDial, LeaseInv, LeaseIsSeen, Listening, Dialling, Pending,
     flagVars, history, RegisteredEvents
<1>3. CASE NetStep
  BY <1>3, LeaseNet
<1>4. CASE Dispatch
  BY <1>4, LeaseDispatch
<1>5. CASE UNCHANGED vars
  BY <1>5 DEF LeaseInv, LeaseIsSeen, Listening, Pending, vars, flagVars, taskVars,
     driverVars, history, RegisteredEvents
<1> QED  BY <1>1, <1>2, <1>3, <1>4, <1>5, NextSteps

\* While the station holds an address, IsConnected says so or the event that
\* will make it say so is on its way, unless DisconnectStation failed to give
\* the address up or the GOT_IP handler could not be registered.
THEOREM LeaseSeen == Spec => []LeaseIsSeen
<1>1. LeaseInv => LeaseIsSeen
  BY DEF LeaseInv
<1> QED  BY <1>1, LeaseInit, LeaseNext, TypeCorrect, PTL DEF Spec

----------------------------------------------------------------------------
(* An access point that is reported ready is served.                       *)

ServedInv ==
  /\ ApReadyIsServed
  /\ pc = "apStart" => HasAp(mode)

LEMMA ServedInit == Init => ServedInv
  BY DEF Init, ServedInv, ApReadyIsServed

\* A ConnectStation that reads the mode right keeps the access point in it.
LEMMA StationKeepsAp ==
  ASSUME NEW first, NEW second, ~Misread(first, second), HasAp(mode),
         SetWifiMode(StationMode(first, second))
  PROVE  HasAp(mode')
<1>1. first = mode /\ second = mode
  BY DEF Misread
<1> QED  BY <1>1 DEF SetWifiMode, DriverSetMode, StationMode, HasAp

LEMMA ServedNext == ServedInv /\ [Next]_vars => ServedInv'
<1> SUFFICES ASSUME ServedInv, [Next]_vars PROVE ServedInv'
  OBVIOUS
<1> USE DEF ServedInv, ApReadyIsServed
<1>1. ASSUME NEW h, NEW first, NEW second, ConnectStation(h, first, second)
      PROVE  ServedInv'
  <2>1. UNCHANGED <<apReady, started>> /\ pc' # "apStart"
    BY <1>1 DEF ConnectStation, Return, flagVars
  <2>2. CASE Misread(first, second)
    BY <1>1, <2>1, <2>2 DEF ConnectStation
  <2>3. CASE ~Misread(first, second)
    BY <1>1, <2>1, <2>3, StationKeepsAp DEF ConnectStation
  <2> QED  BY <2>2, <2>3
<1>2. CASE \/ ConnectStationRegister \/ ConnectStationSetHostname
           \/ ConnectStationTick \/ ConnectStationLeave \/ ConnectStationVerdict
           \/ ConnectStationDial
  BY <1>2 DEF ConnectStationRegister, ConnectStationSetHostname, ConnectStationTick,
     ConnectStationLeave, ConnectStationVerdict, ConnectStationDial, Return,
     driverVars, flagVars, history
<1>3. CASE ConnectStationStart
  BY <1>3 DEF ConnectStationStart, DriverStart, Return, flagVars, history
<1>4. CASE DisconnectStation
  BY <1>4 DEF DisconnectStation, Return
<1>5. ASSUME NEW first, NEW second, StartAP(first, second) PROVE ServedInv'
  <2>1. apReady' = FALSE
    BY <1>5 DEF StartAP
  <2>2. pc' = "apStart" => HasAp(mode')
    BY <1>5 DEF StartAP, Return
  <2> QED  BY <2>1, <2>2
<1>6. CASE StartAPStart
  BY <1>6 DEF StartAPStart, DriverStart, Return, history
<1>7. ASSUME NEW first, NEW second, StopAP(first, second) PROVE ServedInv'
  BY <1>7 DEF StopAP, Return
<1>8. ASSUME StopWIFI \/ \E m \in Modes : CallSetWifiMode(m)
      PROVE  ServedInv'
  BY <1>8 DEF StopWIFI, CallSetWifiMode, Return
<1>9. CASE NetStep \/ Dispatch \/ UNCHANGED vars
  BY <1>9 DEF NetStep, Lease, Refuse, Drop, LoseIp, Dispatch, vars, flagVars,
     taskVars, driverVars, history
<1> QED
  BY <1>1, <1>2, <1>3, <1>4, <1>5, <1>6, <1>7, <1>8, <1>9, NextSteps
     DEF CallStep, ConnectStationCall, StartAPCall, StopAPCall

\* IsAPReady is true only while the driver serves the access point, unless the
\* application has called StopWIFI or SetWifiMode since StartAP, or a
\* ConnectStation has acted on a failed GetWifiMode.
THEOREM ApServed == Spec => []ApReadyIsServed
<1>1. ServedInv => ApReadyIsServed
  BY DEF ServedInv
<1> QED  BY <1>1, ServedInit, ServedNext, PTL DEF Spec

----------------------------------------------------------------------------
(* The access point calls leave a connected station alone: a link only      *)
(* exists on a started driver whose mode has the station.                   *)

LinkInv == link # "down" => started /\ HasSta(mode)

LEMMA LinkInit == Init => LinkInv
  BY DEF Init, LinkInv

\* Neither a change of mode nor a start gives a link to a driver without the
\* station.
LEMMA LinkSetMode ==
  ASSUME LinkInv, NEW m, SetWifiMode(m), UNCHANGED started
  PROVE  LinkInv'
  BY DEF LinkInv, SetWifiMode, DriverSetMode

LEMMA LinkStart ==
  ASSUME LinkInv, DriverStart, UNCHANGED mode
  PROVE  LinkInv'
  BY DEF LinkInv, DriverStart

LEMMA LinkNext == LinkInv /\ [Next]_vars => LinkInv'
<1> SUFFICES ASSUME LinkInv, [Next]_vars PROVE LinkInv'
  OBVIOUS
\* A step that leaves the driver alone.
<1>1. ASSUME UNCHANGED driverVars PROVE LinkInv'
  BY <1>1 DEF LinkInv, driverVars
<1>2. CASE ConnectStationCall
  BY <1>2, LinkSetMode DEF ConnectStationCall, ConnectStation
<1>3. CASE ConnectStationStart
  BY <1>3, <1>1, LinkStart DEF ConnectStationStart, driverVars
<1>4. CASE ConnectStationDial
  BY <1>4 DEF ConnectStationDial, LinkInv
<1>5. CASE StartAPCall \/ StopAPCall \/ \E m \in Modes : CallSetWifiMode(m)
  BY <1>5, LinkSetMode DEF StartAPCall, StopAPCall, StartAP, StopAP, CallSetWifiMode
<1>6. CASE StartAPStart
  BY <1>6, <1>1, LinkStart DEF StartAPStart, driverVars
<1>7. CASE DisconnectStation
  BY <1>7 DEF DisconnectStation, DriverDisconnect, LinkInv
<1>8. CASE StopWIFI
  BY <1>8 DEF StopWIFI, DriverStop, LinkInv
<1>9. CASE NetStep
  BY <1>9 DEF NetStep, Lease, Refuse, Drop, LoseIp, LinkInv
<1>10. CASE \/ ConnectStationRegister \/ ConnectStationSetHostname
            \/ ConnectStationTick \/ ConnectStationLeave \/ ConnectStationVerdict
            \/ Dispatch \/ UNCHANGED vars
  BY <1>10, <1>1 DEF ConnectStationRegister, ConnectStationSetHostname,
     ConnectStationTick, ConnectStationLeave, ConnectStationVerdict, Dispatch, vars
<1> QED
  BY <1>2, <1>3, <1>4, <1>5, <1>6, <1>7, <1>8, <1>9, <1>10, NextSteps DEF CallStep

\* A StartAP that reads the mode right, and StopAP whatever it reads, never cut a
\* connected station off, whatever came before.
THEOREM ApKeepsStation == Spec => ApCallsKeepStation
<1>1. ASSUME LinkInv, link = "leased",
             \/ StartAP(mode, mode)
             \/ StartAPStart
             \/ \E first, second \in WifiModeAnswers : StopAP(first, second)
      PROVE  link' = "leased"
  <2>1. started /\ HasSta(mode)
    BY <1>1 DEF LinkInv
  <2>2. CASE StartAP(mode, mode)
    BY <1>1, <2>1, <2>2 DEF StartAP, SetWifiMode, DriverSetMode, ApMode, HasSta
  <2>3. CASE StartAPStart
    BY <1>1, <2>1, <2>3 DEF StartAPStart, DriverStart
  <2>4. ASSUME NEW first \in WifiModeAnswers, NEW second \in WifiModeAnswers,
               StopAP(first, second)
        PROVE  link' = "leased"
    <3>1. HasSta(ModeWithoutAp(first, second))
      BY <2>1 DEF ModeWithoutAp, WifiModeAnswers, HasSta
    <3> QED  BY <1>1, <2>1, <2>4, <3>1 DEF StopAP, SetWifiMode, DriverSetMode
  <2> QED  BY <1>1, <2>2, <2>3, <2>4
<1>2. LinkInv
        => [\/ StartAP(mode, mode)
            \/ StartAPStart
            \/ \E first, second \in WifiModeAnswers : StopAP(first, second)
            => (link = "leased" => link' = "leased")]_vars
  BY <1>1
<1> QED  BY <1>2, LinkInit, LinkNext, PTL DEF Spec, ApCallsKeepStation

----------------------------------------------------------------------------
(* The hostname is set after the start of the interface.  As long as nobody *)
(* meddles a station that is up stays up, so that it is announced once: an  *)
(* announcement that was handled leaves none to come.                       *)

OneStart ==
  \A i, j \in 1..Len(queue) : queue[i] = "STA_START" /\ queue[j] = "STA_START" => i = j

\* What is known while only this module's calls have driven the driver.
StationUp == started /\ HasSta(mode)

Unmeddled ==
  /\ ~StationUp => ~Pending("STA_START") /\ ~staIfReady
  /\ staIfReady => ~Pending("STA_START")
  /\ OneStart

StartInv ==
  /\ pc \in {"register", "start", "awaitIf"} => HasSta(mode)
  /\ pc = "awaitIf" => started
  /\ meddled = "never" => Unmeddled

LEMMA StartInit == Init => StartInv
  BY DEF Init, StartInv, Unmeddled, StationUp, OneStart, Pending, HasSta

\* A step that posts at most events of another kind.
QueueQuiet ==
  UNCHANGED queue \/ \E e \in Events \ {"STA_START"} : Post(<<e>>)

LEMMA NoPost == ASSUME TypeOK, Post(<<>>) PROVE UNCHANGED queue
  BY DEF TypeOK, Post

LEMMA LinkEndQuiet == ASSUME TypeOK, Post(LinkEnd) PROVE QueueQuiet
<1>1. LinkEnd = <<>> \/ LinkEnd = <<"STA_DISCONNECTED">>
  BY DEF LinkEnd
<1> QED  BY <1>1, NoPost DEF QueueQuiet, Events

LEMMA QuietStarts ==
  ASSUME TypeOK, QueueQuiet
  PROVE  /\ Pending("STA_START")' => Pending("STA_START")
         /\ OneStart => OneStart'
<1>1. CASE UNCHANGED queue
  BY <1>1 DEF Pending, OneStart
<1>2. ASSUME NEW e \in Events \ {"STA_START"}, Post(<<e>>)
      PROVE  /\ Pending("STA_START")' => Pending("STA_START")
             /\ OneStart => OneStart'
  <2>1. /\ queue' = queue \o <<e>> /\ <<e>> \in Seq(Events) /\ queue \in Seq(Events)
        /\ Len(queue) \in Nat
    BY <1>2 DEF Post, TypeOK
  <2>2. /\ Len(queue') = Len(queue) + 1 /\ queue'[Len(queue) + 1] = e
        /\ \A i \in 1..Len(queue) : queue'[i] = queue[i]
    BY <2>1
  <2>3. \A i \in 1..Len(queue') :
          queue'[i] = "STA_START" => i \in 1..Len(queue) /\ queue[i] = "STA_START"
    BY <2>1, <2>2
  <2> QED  BY <2>3 DEF Pending, OneStart
<1> QED  BY <1>1, <1>2 DEF QueueQuiet

LEMMA FirstStart ==
  ASSUME TypeOK, ~Pending("STA_START"), Post(<<"STA_START">>)
  PROVE  OneStart'
<1>1. /\ queue' = queue \o <<"STA_START">> /\ <<"STA_START">> \in Seq(Events)
      /\ queue \in Seq(Events) /\ Len(queue) \in Nat
  BY DEF Post, TypeOK, Events
<1>2. /\ Len(queue') = Len(queue) + 1
      /\ \A i \in 1..Len(queue) : queue'[i] = queue[i]
  BY <1>1
<1>3. \A i \in 1..Len(queue') : queue'[i] = "STA_START" => i = Len(queue) + 1
  BY <1>1, <1>2 DEF Pending
<1> QED  BY <1>3 DEF OneStart

\* Dispatching takes the oldest event and adds none.
LEMMA DispatchStarts ==
  ASSUME TypeOK, Dispatch, OneStart
  PROVE  /\ OneStart'
         /\ Pending("STA_START")' => Pending("STA_START") /\ Head(queue) # "STA_START"
<1>1. queue \in Seq(Events) /\ queue # <<>> /\ queue' = Tail(queue) /\ Len(queue) \in Nat
  BY DEF TypeOK, Dispatch
<1>2. /\ Len(queue') = Len(queue) - 1 /\ Head(queue) = queue[1]
      /\ \A i \in 1..Len(queue') : queue'[i] = queue[i + 1]
  BY <1>1
<1>3. \A i \in 1..Len(queue') : i + 1 \in 1..Len(queue) /\ i + 1 # 1
  BY <1>1, <1>2
<1>4. OneStart'
  BY <1>1, <1>2, <1>3 DEF OneStart
<1>5. ASSUME Pending("STA_START")' PROVE Pending("STA_START") /\ Head(queue) # "STA_START"
  <2>1. PICK i \in 1..Len(queue') : queue'[i] = "STA_START"
    BY <1>5 DEF Pending
  <2>2. i + 1 \in 1..Len(queue) /\ queue[i + 1] = "STA_START" /\ i + 1 # 1
    BY <1>2, <1>3, <2>1
  <2>3. 1 \in 1..Len(queue)
    BY <1>1, <2>2
  <2> QED  BY <1>2, <2>2, <2>3 DEF Pending, OneStart
<1> QED  BY <1>4, <1>5

\* A step that announces no start and takes no station down.
LEMMA QuietUnmeddled ==
  ASSUME TypeOK, Unmeddled, QueueQuiet, StationUp => StationUp', staIfReady' => staIfReady
  PROVE  Unmeddled'
  BY QuietStarts DEF Unmeddled

\* A step that brings the station up announces it.
LEMMA UpUnmeddled ==
  ASSUME TypeOK, Unmeddled, Post(<<"STA_START">>), ~StationUp, StationUp',
         UNCHANGED staIfReady
  PROVE  Unmeddled'
<1>1. ~Pending("STA_START") /\ ~staIfReady
  BY DEF Unmeddled
<1>2. OneStart'
  BY <1>1, FirstStart
<1> QED  BY <1>1, <1>2 DEF Unmeddled

\* A change to a mode that keeps the station.
LEMMA ModeUnmeddled ==
  ASSUME TypeOK, Unmeddled, NEW m, HasSta(mode) => HasSta(m), SetWifiMode(m),
         UNCHANGED <<started, staIfReady>>
  PROVE  Unmeddled'
<1>1. CASE UNCHANGED queue
  <2>1. StationUp => StationUp'
    BY DEF StationUp, SetWifiMode, DriverSetMode
  <2> QED  BY <1>1, <2>1, QuietUnmeddled DEF QueueQuiet
<1>2. CASE ~UNCHANGED queue
  <2>1. Post(<<"STA_START">>) /\ ~StationUp /\ StationUp'
    BY <1>2 DEF StationUp, SetWifiMode, DriverSetMode
  <2> QED  BY <2>1, UpUnmeddled
<1> QED  BY <1>1, <1>2

LEMMA StartUnmeddled ==
  ASSUME TypeOK, Unmeddled, DriverStart, UNCHANGED <<mode, staIfReady>>
  PROVE  Unmeddled'
<1>1. CASE ~started /\ HasSta(mode)
  <2>1. Post(<<"STA_START">>) /\ ~StationUp /\ StationUp'
    BY <1>1 DEF DriverStart, StationUp
  <2> QED  BY <2>1, UpUnmeddled
<1>2. CASE started \/ ~HasSta(mode)
  <2>1. UNCHANGED queue /\ (StationUp => StationUp')
    BY <1>2 DEF DriverStart, StationUp
  <2> QED  BY <2>1, QuietUnmeddled DEF QueueQuiet
<1> QED  BY <1>1, <1>2

LEMMA NextUnmeddled ==
  ASSUME TypeOK, Unmeddled, Next, meddled' = "never"
  PROVE  Unmeddled'
<1>1. ASSUME NEW h, NEW first, NEW second, ConnectStation(h, first, second)
      PROVE  Unmeddled'
  <2>1. HasSta(StationMode(first, second))
    BY DEF StationMode, HasSta
  <2> QED  BY <1>1, <2>1, ModeUnmeddled DEF ConnectStation, flagVars
<1>2. CASE \/ ConnectStationRegister \/ ConnectStationSetHostname
           \/ ConnectStationTick \/ ConnectStationLeave \/ ConnectStationVerdict
           \/ ConnectStationDial
  <2>1. /\ UNCHANGED <<started, mode, queue>>
        /\ staIfReady' => staIfReady
    BY <1>2 DEF ConnectStationRegister, ConnectStationSetHostname, ConnectStationTick,
       ConnectStationLeave, ConnectStationVerdict, ConnectStationDial, flagVars, driverVars
  <2> QED  BY <2>1, QuietUnmeddled DEF QueueQuiet, StationUp
<1>3. CASE ConnectStationStart
  BY <1>3, StartUnmeddled, QuietUnmeddled
     DEF ConnectStationStart, flagVars, QueueQuiet, StationUp
<1>4. CASE DisconnectStation
  <2>1. QueueQuiet
    BY <1>4, LinkEndQuiet DEF DisconnectStation, DriverDisconnect, QueueQuiet
  <2> QED  BY <1>4, <2>1, QuietUnmeddled DEF DisconnectStation, StationUp
<1>5. ASSUME NEW first, NEW second, StartAP(first, second) PROVE Unmeddled'
  <2>1. first = mode /\ second = mode
    BY <1>5 DEF StartAP, Misread
  <2>2. HasSta(mode) => HasSta(ApMode(first, second))
    BY <2>1 DEF ApMode, HasSta
  <2> QED  BY <1>5, <2>2, ModeUnmeddled DEF StartAP
<1>6. CASE StartAPStart
  BY <1>6, StartUnmeddled, QuietUnmeddled DEF StartAPStart, QueueQuiet, StationUp
<1>7. ASSUME NEW first \in WifiModeAnswers, NEW second \in WifiModeAnswers,
             StopAP(first, second)
      PROVE  Unmeddled'
  <2>1. HasSta(mode) => HasSta(ModeWithoutAp(first, second))
    BY DEF ModeWithoutAp, WifiModeAnswers, HasSta
  <2> QED  BY <1>7, <2>1, ModeUnmeddled DEF StopAP
<1>8. ASSUME StopWIFI \/ \E m \in Modes : CallSetWifiMode(m)
      PROVE  FALSE
  BY <1>8 DEF StopWIFI, CallSetWifiMode
<1>9. CASE NetStep
  <2>1. QueueQuiet
    BY <1>9 DEF NetStep, Lease, Refuse, Drop, LoseIp, QueueQuiet, Events
  <2>2. UNCHANGED <<started, mode, staIfReady>>
    BY <1>9 DEF NetStep, Lease, Refuse, Drop, LoseIp, flagVars
  <2> QED  BY <2>1, <2>2, QuietUnmeddled DEF StationUp
<1>10. CASE Dispatch
  <2>1. StationUp' = StationUp
    BY <1>10 DEF Dispatch, driverVars, StationUp
  <2>2. /\ OneStart'
        /\ Pending("STA_START")' => Pending("STA_START") /\ Head(queue) # "STA_START"
    BY <1>10, DispatchStarts DEF Unmeddled
  <2>3. staIfReady' => staIfReady \/ Head(queue) = "STA_START"
    BY <1>10 DEF Dispatch, WiFiEventHandler
  <2>4. Head(queue) = "STA_START" => Pending("STA_START")
    <3>1. 1 \in 1..Len(queue) /\ Head(queue) = queue[1]
      BY <1>10 DEF Dispatch, TypeOK
    <3> QED  BY <3>1 DEF Pending
  <2> QED  BY <2>1, <2>2, <2>3, <2>4 DEF Unmeddled
<1> QED
  BY <1>1, <1>2, <1>3, <1>4, <1>5, <1>6, <1>7, <1>8, <1>9, <1>10, NextSteps
     DEF CallStep, ConnectStationCall, StartAPCall, StopAPCall

\* No step that is not a meddling one makes the application's past clean.
LEMMA NeverStays == Next /\ meddled' = "never" => meddled = "never"
  BY DEF Next, StationStep, ConnectStation, ConnectStationRegister, ConnectStationStart,
     ConnectStationSetHostname, ConnectStationDial, ConnectStationTick,
     ConnectStationLeave, ConnectStationVerdict, ConnectStationSucceeds,
     ConnectStationFails, DisconnectStation, StartAP, StartAPStart, StopAP, StopWIFI,
     CallSetWifiMode, Lease, Refuse, Drop, LoseIp, Dispatch, history

\* On its way to the hostname ConnectStation has the station in the mode, and
\* then the driver started.
LEMMA NextOnTheWay ==
  ASSUME StartInv, Next
  PROVE  /\ pc' \in {"register", "start", "awaitIf"} => HasSta(mode')
         /\ pc' = "awaitIf" => started'
<1> USE DEF StartInv, Return
<1>1. CASE ConnectStationCall
  <2>1. (pc' = "register" /\ HasSta(mode')) \/ pc' = "idle"
    BY <1>1 DEF ConnectStationCall, ConnectStation
  <2> QED  BY <2>1
<1>2. CASE ConnectStationStart
  BY <1>2 DEF ConnectStationStart, DriverStart
<1>3. CASE ConnectStationRegister
  BY <1>3 DEF ConnectStationRegister, driverVars
<1>4. CASE \/ ConnectStationSetHostname \/ ConnectStationTick \/ ConnectStationLeave
           \/ ConnectStationVerdict \/ ConnectStationDial
  BY <1>4 DEF ConnectStationSetHostname, ConnectStationTick, ConnectStationLeave,
     ConnectStationVerdict, ConnectStationDial
<1>5. CASE \/ DisconnectStation \/ StartAPCall \/ StartAPStart \/ StopAPCall \/ StopWIFI
           \/ \E m \in Modes : CallSetWifiMode(m)
  BY <1>5 DEF DisconnectStation, StartAPCall, StopAPCall, StartAP, StartAPStart, StopAP,
     StopWIFI, CallSetWifiMode
<1>6. CASE NetStep \/ Dispatch
  BY <1>6 DEF NetStep, Lease, Refuse, Drop, LoseIp, Dispatch, taskVars, driverVars
<1> QED  BY <1>1, <1>2, <1>3, <1>4, <1>5, <1>6, NextSteps DEF CallStep

LEMMA StartNext == TypeOK /\ StartInv /\ [Next]_vars => StartInv'
<1> SUFFICES ASSUME TypeOK, StartInv, [Next]_vars PROVE StartInv'
  OBVIOUS
<1>1. CASE Next
  BY <1>1, NextOnTheWay, NextUnmeddled, NeverStays DEF StartInv
<1>2. CASE UNCHANGED vars
  BY <1>2 DEF StartInv, Unmeddled, StationUp, OneStart, Pending, vars, flagVars, taskVars, driverVars,
     history
<1> QED  BY <1>1, <1>2

\* Whatever the order of calls and events, ConnectStation sets the hostname on a
\* station interface that is up, and not on the word of an older event.
THEOREM HostnameInTime == Spec => HostnameAfterStart
<1>1. StartInv
        => [ConnectStationSetHostname =>
              started /\ HasSta(mode) /\ (Pending("STA_START") => meddled # "never")]_vars
  BY DEF StartInv, Unmeddled, ConnectStationSetHostname, InterfaceReady
<1> QED  BY <1>1, StartInit, StartNext, TypeCorrect, PTL DEF Spec, HostnameAfterStart
=============================================================================
