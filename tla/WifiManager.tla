---------------------------- MODULE WifiManager ----------------------------
(***************************************************************************)
(* The Wi-Fi manager singleton on its ESP build: the station and access    *)
(* point calls of one application task, the default event loop task that   *)
(* runs WiFiEventHandler, and the Wi-Fi driver underneath.                 *)
(*                                                                         *)
(* ConnectStation is split where it blocks or where the event loop can     *)
(* change a flag it reads: mode and configuration, registration of the     *)
(* handlers, start of the driver, wait for the interface, dial, wait for   *)
(* the address, verdict.  The other calls touch nothing the event loop     *)
(* touches between two of their steps and are one action, or two (StartAP, *)
(* which makes two calls that can post events).                            *)
(***************************************************************************)
EXTENDS Integers, Sequences

CONSTANTS Calls,        \* the public methods the application uses
          Hostnames,    \* kinds of ovverrideHostname it passes
          Upsets,       \* what the driver and the network may do to it
          MaxTimeout,   \* bound: largest timeoutSeconds
          MaxQueue      \* bound: events the loop's queue holds

AllCalls == {"ConnectStation", "DisconnectStation", "StartAP", "StopAP",
             "StopWIFI", "SetWifiMode"}
AllUpsets == {"error", "disconnectError", "refuse", "drop", "lostIp"}

ASSUME WifiAssumption ==
  /\ Calls \subseteq AllCalls
  /\ Hostnames \subseteq {"none", "valid", "long"}
  /\ Upsets \subseteq AllUpsets
  /\ MaxTimeout \in Nat
  /\ MaxQueue \in Nat

Modes == {"NULL", "STA", "AP", "APSTA"}
HasSta(m) == m \in {"STA", "APSTA"}
HasAp(m) == m \in {"AP", "APSTA"}

Events == {"STA_START", "GOT_IP", "STA_DISCONNECTED", "LOST_IP"}

VARIABLES
  initialized,   \* INITIALIZED
  staIfReady,    \* STA_IF_READY
  staConnected,  \* STA_CONNECTED
  apReady,       \* AP_READY
  registered,    \* events WiFiEventHandler is registered for
  pc,            \* where the application task is
  host,          \* kind of hostname given to the ConnectStation in progress
  left,          \* seconds before the ConnectStation in progress gives up
  mode,          \* driver: Wi-Fi mode
  started,       \* driver: esp_wifi_start has taken effect
  link,          \* driver: station link
  queue,         \* event loop: events posted and not yet dispatched
  unheard,       \* history: DisconnectStation failed to end the link, or the
                 \* GOT_IP handler could not be registered, and no address was
                 \* granted to a listening handler since
  meddled        \* history: whether the mode or the driver was changed behind the
                 \* calls' back (StopWIFI, SetWifiMode, or a call that acted on
                 \* a failed GetWifiMode), and whether StartAP came after

flagVars == <<initialized, staIfReady, staConnected, apReady>>
taskVars == <<pc, host, left>>
driverVars == <<mode, started, link>>
history == <<unheard, meddled>>
vars == <<flagVars, registered, taskVars, driverVars, queue, history>>

Pcs == {"idle", "register", "start", "awaitIf", "dial", "awaitIp", "verdict",
        "apStart"}

----------------------------------------------------------------------------
(* The driver and the event loop, as the manager's calls rely on them.     *)

CanFail == "error" \in Upsets

\* Events are posted in order; a full queue blocks whoever posts.
Post(events) ==
  /\ Len(queue) + Len(events) <= MaxQueue
  /\ queue' = queue \o events

\* What the loop is told when the station interface goes away.
LinkEnd == IF link \in {"joining", "leased"} THEN <<"STA_DISCONNECTED">> ELSE <<>>

\* esp_wifi_set_mode: a started driver adds or removes the station at once.
DriverSetMode(m) ==
  /\ initialized
  /\ mode' = m
  /\ \/ /\ started /\ HasSta(m) /\ ~HasSta(mode)
        /\ link' = "idle"
        /\ Post(<<"STA_START">>)
     \/ /\ started /\ HasSta(mode) /\ ~HasSta(m)
        /\ link' = "down"
        /\ Post(LinkEnd)
     \/ /\ started => (HasSta(mode) <=> HasSta(m))
        /\ UNCHANGED <<link, queue>>

\* esp_wifi_start: only a stopped driver starts, and announces the station.
DriverStart ==
  /\ started' = TRUE
  /\ IF ~started /\ HasSta(mode)
     THEN link' = "idle" /\ Post(<<"STA_START">>)
     ELSE UNCHANGED <<link, queue>>

\* esp_wifi_stop
DriverStop ==
  /\ started' = FALSE
  /\ link' = "down"
  /\ Post(LinkEnd)

\* esp_wifi_disconnect
DriverDisconnect ==
  /\ link' = IF link = "down" THEN "down" ELSE "idle"
  /\ Post(LinkEnd)

\* The network grants an address to a station that asked to join.
Lease ==
  /\ link = "joining"
  /\ link' = "leased"
  /\ Post(<<"GOT_IP">>)
  /\ unheard' = (unheard /\ "GOT_IP" \notin registered)
  /\ UNCHANGED <<flagVars, registered, taskVars, mode, started, meddled>>

Refuse ==
  /\ "refuse" \in Upsets
  /\ link = "joining"
  /\ link' = "idle"
  /\ Post(<<"STA_DISCONNECTED">>)
  /\ UNCHANGED <<flagVars, registered, taskVars, mode, started, history>>

Drop ==
  /\ "drop" \in Upsets
  /\ link = "leased"
  /\ link' = "idle"
  /\ Post(<<"STA_DISCONNECTED">>)
  /\ UNCHANGED <<flagVars, registered, taskVars, mode, started, history>>

LoseIp ==
  /\ "lostIp" \in Upsets
  /\ link = "leased"
  /\ link' = "joining"
  /\ Post(<<"LOST_IP">>)
  /\ UNCHANGED <<flagVars, registered, taskVars, mode, started, history>>

----------------------------------------------------------------------------
(* The manager's event handler, run by the event loop task.                *)

WiFiEventHandler(e) ==
  /\ staConnected' = \/ e = "GOT_IP"
                     \/ staConnected /\ e \notin {"STA_DISCONNECTED", "LOST_IP"}
  /\ staIfReady' = (staIfReady \/ e = "STA_START")

\* The loop takes the oldest event; without a registration it is discarded.
Dispatch ==
  /\ queue # <<>>
  /\ queue' = Tail(queue)
  /\ IF Head(queue) \in registered
     THEN WiFiEventHandler(Head(queue))
     ELSE UNCHANGED <<staConnected, staIfReady>>
  /\ UNCHANGED <<initialized, apReady, registered, taskVars, driverVars, history>>

----------------------------------------------------------------------------
(* The manager's calls.                                                    *)

\* The call in progress returns; what it answers is left out.
Return == pc' = "idle"

\* SetWifiMode: an error of the driver is printed and otherwise ignored.
SetWifiMode(m) ==
  \/ DriverSetMode(m)
  \/ /\ CanFail \/ ~initialized
     /\ UNCHANGED <<mode, link, queue>>

CallSetWifiMode(m) ==
  /\ "SetWifiMode" \in Calls /\ pc = "idle"
  /\ SetWifiMode(m)
  /\ Return
  /\ meddled' = "since"
  /\ UNCHANGED <<flagVars, registered, host, left, started, unheard>>

\* esp_wifi_set_config works only on an interface the mode enables.
ConfigFails(enabled) == CanFail \/ ~enabled

\* GetWifiMode: an error of the driver leaves WIFI_MODE_NULL as the answer.
WifiModeAnswers == IF CanFail THEN {mode, "NULL"} ELSE {mode}

Misread(first, second) == {first, second} # {mode}

\* Mutant: ConnectStation forgets the access point.
StationModeForgetsAp(first, second) == "STA"

\* The mode is read at most twice, and set unless the second answer is APSTA;
\* to set the mode the driver is in comes to the same.
StationMode(first, second) ==
  IF first = "AP" \/ second = "APSTA" THEN "APSTA" ELSE "STA"

ConnectStation(h, first, second) ==
  /\ "ConnectStation" \in Calls /\ pc = "idle"
  /\ first = "AP" => second = first    \* no second reading
  /\ SetWifiMode(StationMode(first, second))
  /\ meddled' = IF Misread(first, second) THEN "since" ELSE meddled
  /\ host' = h
  /\ \/ /\ initialized /\ HasSta(mode')
        /\ pc' = "register"
     \/ /\ ~initialized \/ ConfigFails(HasSta(mode'))
        /\ Return
  /\ UNCHANGED <<flagVars, registered, left, started, unheard>>

\* Mutant: the GOT_IP handler is not registered before esp_wifi_connect.
RegisteredWithoutIp == {"STA_START"}

RegisteredEvents == {"GOT_IP", "STA_START"}

\* Whether a registration succeeded is not looked at, and none is ever removed:
\* the two unregister calls name another event or pass the address of the
\* registration instead of the registration.
ConnectStationRegister ==
  /\ pc = "register"
  /\ \E failed \in SUBSET IF CanFail THEN RegisteredEvents ELSE {} :
       /\ registered' = registered \cup (RegisteredEvents \ failed)
       /\ unheard' = (unheard \/ "GOT_IP" \in failed \ registered)
  /\ staIfReady' = FALSE
  /\ pc' = "start"
  /\ UNCHANGED <<initialized, staConnected, apReady, host, left,
                 driverVars, queue, meddled>>

ConnectStationStart ==
  /\ pc = "start"
  /\ \/ /\ DriverStart
        /\ \/ host = "long" /\ Return
           \/ host = "valid" /\ pc' = "awaitIf"
           \/ host = "none" /\ pc' = "dial"
     \/ /\ CanFail
        /\ Return
        /\ UNCHANGED <<started, link, queue>>
  /\ UNCHANGED <<flagVars, registered, host, left, mode, history>>

\* Mutant: no wait for the interface.
InterfaceAssumedReady == TRUE

InterfaceReady == staIfReady

\* The loop on STA_IF_READY ends, and the hostname is set.
ConnectStationSetHostname ==
  /\ pc = "awaitIf" /\ InterfaceReady
  /\ pc' = "dial"
  /\ UNCHANGED <<flagVars, registered, host, left, driverVars, queue, history>>

ConnectStationDial ==
  /\ pc = "dial"
  /\ left' \in 0..MaxTimeout
  /\ \/ link' = IF link = "idle" THEN "joining" ELSE link
     \/ CanFail /\ UNCHANGED link
  /\ pc' = "awaitIp"
  /\ UNCHANGED <<flagVars, registered, host, mode, started, queue, history>>

\* Mutant: the deadline itself still counts as in time.
InTimeAtDeadline == left >= 0

InTime == left > 0

\* Mutant: the clock is not read again in the loop.
ClockNotRead == left

SecondGone == left - 1

\* One turn of the wait loop: the clock is read and the task sleeps a second.
ConnectStationTick ==
  /\ pc = "awaitIp" /\ ~staConnected /\ InTime
  /\ left' = SecondGone
  /\ UNCHANGED <<flagVars, registered, pc, host, driverVars, queue, history>>

ConnectStationLeave ==
  /\ pc = "awaitIp" /\ (staConnected \/ ~InTime)
  /\ pc' = "verdict"
  /\ UNCHANGED <<flagVars, registered, host, left, driverVars, queue, history>>

\* STA_CONNECTED is read again after the loop; an address that cannot be
\* read back also makes the call fail.
ConnectStationVerdict ==
  /\ pc = "verdict"
  /\ Return
  /\ UNCHANGED <<flagVars, registered, host, left, driverVars, queue, history>>

ConnectStationSucceeds == staConnected /\ ConnectStationVerdict

ConnectStationFails == (~staConnected \/ CanFail) /\ ConnectStationVerdict

DisconnectStation ==
  /\ "DisconnectStation" \in Calls /\ pc = "idle"
  /\ \/ DriverDisconnect /\ unheard' = FALSE
     \/ "disconnectError" \in Upsets /\ unheard' = TRUE /\ UNCHANGED <<link, queue>>
  /\ staConnected' = FALSE
  /\ Return
  /\ UNCHANGED <<initialized, staIfReady, apReady, registered, host, left, mode,
                 started, meddled>>

ApMode(first, second) ==
  IF first = "STA" \/ second = "APSTA" THEN "APSTA" ELSE "AP"

StartAP(first, second) ==
  /\ "StartAP" \in Calls /\ pc = "idle"
  /\ first = "STA" => second = first
  /\ SetWifiMode(ApMode(first, second))
  /\ apReady' = FALSE
  /\ meddled' = IF meddled = "never" /\ ~Misread(first, second) THEN "never" ELSE "before"
  /\ \/ /\ initialized /\ HasAp(mode')
        /\ pc' = "apStart"
     \/ /\ ~initialized \/ ConfigFails(HasAp(mode'))
        /\ Return
  /\ UNCHANGED <<initialized, staIfReady, staConnected, registered, host, left,
                 started, unheard>>

StartAPStart ==
  /\ pc = "apStart"
  /\ \/ /\ DriverStart
        /\ apReady' = TRUE
        /\ Return
     \/ /\ CanFail
        /\ Return
        /\ UNCHANGED <<apReady, started, link, queue>>
  /\ UNCHANGED <<initialized, staIfReady, staConnected, registered, host,
                 left, mode, history>>

\* Mutant: StopAP turns the radio off for the station too.
NoMode(first, second) == "NULL"

\* APSTA becomes STA and AP becomes NULL; otherwise the mode is not set.
ModeWithoutAp(first, second) ==
  IF first = "APSTA" THEN "STA" ELSE IF second = "AP" THEN "NULL" ELSE mode

StopAP(first, second) ==
  /\ "StopAP" \in Calls /\ pc = "idle"
  /\ first = "APSTA" => second = first
  /\ SetWifiMode(ModeWithoutAp(first, second))
  /\ apReady' = FALSE
  /\ Return
  /\ UNCHANGED <<initialized, staIfReady, staConnected, registered, host, left,
                 started, history>>

StopWIFI ==
  /\ "StopWIFI" \in Calls /\ pc = "idle"
  /\ \/ DriverStop
     \/ CanFail /\ UNCHANGED <<started, link, queue>>
  /\ Return
  /\ meddled' = "since"
  /\ UNCHANGED <<initialized, staIfReady, staConnected, apReady, registered, host,
                 left, mode, unheard>>

----------------------------------------------------------------------------

\* InitInterfaces may fail at each of its steps; an error is only printed.
InitInterfaces == initialized \in IF CanFail THEN BOOLEAN ELSE {TRUE}

\* The state GetInstance leaves: the constructor has run InitInterfaces and
\* SetWifiMode(WIFI_MODE_APSTA); when that failed, the driver is in the mode it
\* came up with.
Init ==
  /\ InitInterfaces
  /\ mode \in IF ~initialized THEN {"NULL"} ELSE IF CanFail THEN Modes ELSE {"APSTA"}
  /\ staIfReady = FALSE /\ staConnected = FALSE /\ apReady = FALSE
  /\ registered = {}
  /\ pc = "idle" /\ host = "none" /\ left = 0
  /\ started = FALSE /\ link = "down" /\ queue = <<>>
  /\ unheard = FALSE /\ meddled = "never"

StationStep ==
  \/ ConnectStationRegister \/ ConnectStationStart \/ ConnectStationSetHostname
  \/ ConnectStationDial \/ ConnectStationTick \/ ConnectStationLeave
  \/ ConnectStationSucceeds \/ ConnectStationFails

Next ==
  \/ \E first, second \in WifiModeAnswers :
       \/ \E h \in Hostnames : ConnectStation(h, first, second)
       \/ StartAP(first, second)
       \/ StopAP(first, second)
  \/ StationStep
  \/ StartAPStart
  \/ DisconnectStation
  \/ StopWIFI
  \/ \E m \in Modes : CallSetWifiMode(m)
  \/ Lease \/ Refuse \/ Drop \/ LoseIp
  \/ Dispatch

\* A call that has begun keeps running and the event loop keeps dispatching;
\* the application need not call anything and the network owes nothing.
Fairness == WF_vars(StationStep) /\ WF_vars(StartAPStart) /\ WF_vars(Dispatch)

Spec == Init /\ [][Next]_vars /\ Fairness

----------------------------------------------------------------------------
(* Properties.                                                             *)

Pending(e) == \E i \in 1..Len(queue) : queue[i] = e

\* Types, and the bounds on time and events.
TypeOK ==
  /\ initialized \in BOOLEAN /\ staIfReady \in BOOLEAN
  /\ staConnected \in BOOLEAN /\ apReady \in BOOLEAN
  /\ started \in BOOLEAN /\ unheard \in BOOLEAN
  /\ registered \subseteq Events
  /\ pc \in Pcs /\ host \in Hostnames \cup {"none"} /\ left \in 0..MaxTimeout
  /\ meddled \in {"never", "before", "since"}
  /\ mode \in Modes /\ link \in {"down", "idle", "joining", "leased"}
  /\ queue \in Seq(Events) /\ Len(queue) <= MaxQueue

\* No lease is missed: while the station holds an address IsConnected says so,
\* but for the moment the GOT_IP event is still on its way, and but for an
\* address that DisconnectStation failed to give up or that came when the
\* handler could not be registered.  It needs the handler registered before
\* esp_wifi_connect and kept by everything after.
LeaseIsSeen == link = "leased" => staConnected \/ Pending("GOT_IP") \/ unheard

\* IsAPReady is true only while the driver runs with the access point in its
\* mode, whatever ConnectStation and StopAP did to the mode since StartAP.  What
\* makes it untrue is StopWIFI and SetWifiMode called by the application, and a
\* ConnectStation whose GetWifiMode failed: it asks for the station alone.
ApReadyIsServed == apReady => (started /\ HasAp(mode)) \/ meddled = "since"

\* A StartAP that reads the mode right, and StopAP whatever it reads, never cut
\* a connected station off.  (A StartAP whose GetWifiMode failed asks for the
\* access point alone, and does.)
ApCallsKeepStation ==
  [][\/ StartAP(mode, mode)
     \/ StartAPStart
     \/ \E first, second \in WifiModeAnswers : StopAP(first, second)
     => (link = "leased" => link' = "leased")]_vars

\* The hostname is set on a station interface that is up ("must be called after
\* EVENT"), and not on the word of an older event: no announcement of a start is
\* left to come, unless the driver was stopped or its mode changed behind the
\* calls' back before.
HostnameAfterStart ==
  [][ConnectStationSetHostname =>
       started /\ HasSta(mode) /\ (Pending("STA_START") => meddled # "never")]_vars

\* Every call answers, whatever the driver and the network do, but a
\* ConnectStation with a hostname that has not yet seen the interface start.
CallsReturn ==
  (pc # "idle" /\ ~(host = "valid" /\ pc \in {"register", "start", "awaitIf"}))
    ~> (pc = "idle")

----------------------------------------------------------------------------
(* What the comments of the code say and the code does not do.             *)

\* "@returns true if STA connected": the station holds an address, or the
\* event that ends the connection is still on its way.
IsConnectedIsTrue ==
  staConnected => link = "leased" \/ Pending("STA_DISCONNECTED") \/ Pending("LOST_IP")

\* "@return true if success, false if fails or timeout": ConnectStation with a
\* hostname answers as well.
ConnectStationAnswers == pc # "idle" ~> pc = "idle"
=============================================================================
