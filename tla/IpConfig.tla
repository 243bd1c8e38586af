------------------------------ MODULE IpConfig ------------------------------
(***************************************************************************)
(* The addresses and DHCP services of the Wi-Fi manager's two interfaces:  *)
(* SetApIPv4, SetApDHCPServer, SetStaIPv4 and SetStaIPv4DHCPClient, called *)
(* by tasks that share the manager, which has no lock.  A step is one      *)
(* esp_netif call.  The statuses are those of the Linux port, one of the   *)
(* DHCP server and one of the client whatever the interface; there no call *)
(* fails, on the ESP any may.                                              *)
(***************************************************************************)
EXTENDS Integers

CONSTANTS Callers,    \* the tasks that use the manager
          Addresses,  \* the addresses they ask for
          CanFail     \* whether an esp_netif call may fail

Unset == "unset"

ASSUME IpAssumption ==
  /\ Unset \notin Addresses
  /\ CanFail \in BOOLEAN

VARIABLES
  server,    \* status of the DHCP server
  client,    \* status of the DHCP client
  apIp,      \* address of the access point
  staIp,     \* address of the station
  pc,        \* where each caller is
  dhcp,      \* the status each call has read
  address,   \* the address each call was given
  disabled,  \* history: some SetApDHCPServer(false) was made
  asked,     \* history: status the last SetApDHCPServer asked for
  failed,    \* history: some esp_netif call failed
  mixed      \* history: a task took a step within another's call

statuses == <<server, client>>
switched == <<disabled, asked>>
callVars == <<pc, dhcp, address>>
vars == <<statuses, apIp, staIp, callVars, switched, failed, mixed>>

Statuses == {"STARTED", "STOPPED"}
Pcs == {"idle", "apStop", "apSet", "apStart", "staStop", "staSet"}

\* Mutant: the flag is cast to the status type.
StatusCast(enabled) == IF enabled THEN "STARTED" ELSE "INIT"

Status(enabled) == IF enabled THEN "STARTED" ELSE "STOPPED"

\* The esp_netif call of this step succeeds and the call goes on.
Goto(t, label) ==
  /\ pc' = [pc EXCEPT ![t] = label]
  /\ UNCHANGED failed

\* It fails: the call returns false, leaving what it has done so far.
Fails(t) ==
  /\ CanFail
  /\ pc' = [pc EXCEPT ![t] = "idle"]
  /\ failed' = TRUE

----------------------------------------------------------------------------
(* SetApIPv4.                                                              *)

SetApIPv4(t, a) ==
  /\ pc[t] = "idle"
  /\ \/ /\ dhcp' = [dhcp EXCEPT ![t] = server]
        /\ address' = [address EXCEPT ![t] = a]
        /\ Goto(t, "apStop")
     \/ Fails(t) /\ UNCHANGED <<dhcp, address>>
  /\ UNCHANGED <<statuses, apIp, staIp, switched>>

\* Mutant: the server found running is taken for stopped.
TakenForStopped(t) == FALSE

WasOn(t) == dhcp[t] # "STOPPED"

ApStopServer(t) ==
  /\ pc[t] = "apStop"
  /\ \/ /\ server' = IF WasOn(t) THEN "STOPPED" ELSE server
        /\ Goto(t, "apSet")
     \/ WasOn(t) /\ Fails(t) /\ UNCHANGED server
  /\ UNCHANGED <<client, apIp, staIp, dhcp, address, switched>>

ApSetAddress(t) ==
  /\ pc[t] = "apSet"
  /\ \/ /\ apIp' = address[t]
        /\ Goto(t, "apStart")
     \/ Fails(t) /\ UNCHANGED apIp
  /\ UNCHANGED <<statuses, staIp, dhcp, address, switched>>

\* Mutant: the server is started again whether it was running or not.
AlwaysRestored(t) == "STARTED"

\* Mutant: it is not started again.
NeverRestored(t) == server

Restored(t) == IF WasOn(t) THEN "STARTED" ELSE server

ApStartServer(t) ==
  /\ pc[t] = "apStart"
  /\ \/ server' = Restored(t) /\ Goto(t, "idle")
     \/ WasOn(t) /\ Fails(t) /\ UNCHANGED server
  /\ UNCHANGED <<client, apIp, staIp, dhcp, address, switched>>

----------------------------------------------------------------------------
(* SetStaIPv4, and the two switches.                                       *)

\* The status read is the one of the DHCP server.
SetStaIPv4(t, a) ==
  /\ pc[t] = "idle"
  /\ \/ /\ dhcp' = [dhcp EXCEPT ![t] = server]
        /\ address' = [address EXCEPT ![t] = a]
        /\ Goto(t, "staStop")
     \/ Fails(t) /\ UNCHANGED <<dhcp, address>>
  /\ UNCHANGED <<statuses, apIp, staIp, switched>>

StaStopClient(t) ==
  /\ pc[t] = "staStop"
  /\ \/ /\ client' = IF WasOn(t) THEN "STOPPED" ELSE client
        /\ Goto(t, "staSet")
     \/ WasOn(t) /\ Fails(t) /\ UNCHANGED client
  /\ UNCHANGED <<server, apIp, staIp, dhcp, address, switched>>

StaSetAddress(t) ==
  /\ pc[t] = "staSet"
  /\ \/ /\ staIp' = address[t]
        /\ Goto(t, "idle")
     \/ Fails(t) /\ UNCHANGED staIp
  /\ UNCHANGED <<statuses, apIp, dhcp, address, switched>>

SetApDHCPServer(t, enabled) ==
  /\ pc[t] = "idle"
  /\ asked' = Status(enabled)
  /\ disabled' = (disabled \/ ~enabled)
  /\ \/ server' = Status(enabled) /\ Goto(t, "idle")
     \/ Fails(t) /\ UNCHANGED server
  /\ UNCHANGED <<client, apIp, staIp, dhcp, address>>

SetStaIPv4DHCPClient(t, enabled) ==
  /\ pc[t] = "idle"
  /\ \/ client' = Status(enabled) /\ Goto(t, "idle")
     \/ Fails(t) /\ UNCHANGED client
  /\ UNCHANGED <<server, apIp, staIp, dhcp, address, switched>>

----------------------------------------------------------------------------

Init ==
  /\ server = "STARTED" /\ client = "STARTED"
  /\ apIp = Unset /\ staIp = Unset
  /\ pc = [t \in Callers |-> "idle"]
  /\ dhcp = [t \in Callers |-> "STOPPED"]
  /\ address = [t \in Callers |-> Unset]
  /\ disabled = FALSE /\ asked = "STARTED" /\ failed = FALSE /\ mixed = FALSE

CallerNext(t) ==
  \/ \E a \in Addresses : SetApIPv4(t, a) \/ SetStaIPv4(t, a)
  \/ ApStopServer(t) \/ ApSetAddress(t) \/ ApStartServer(t)
  \/ StaStopClient(t) \/ StaSetAddress(t)
  \/ \E enabled \in BOOLEAN : SetApDHCPServer(t, enabled) \/ SetStaIPv4DHCPClient(t, enabled)

\* Some other task is in the middle of a call.
Within(t) == \E u \in Callers \ {t} : pc[u] # "idle"

Next == \E t \in Callers : CallerNext(t) /\ mixed' = (mixed \/ Within(t))

Spec == Init /\ [][Next]_vars

----------------------------------------------------------------------------
(* Properties.                                                             *)

\* Types of the statuses, the addresses and the calls in progress.
TypeOK ==
  /\ server \in Statuses /\ client \in Statuses /\ asked \in Statuses
  /\ apIp \in Addresses \cup {Unset} /\ staIp \in Addresses \cup {Unset}
  /\ pc \in [Callers -> Pcs]
  /\ dhcp \in [Callers -> Statuses]
  /\ address \in [Callers -> Addresses \cup {Unset}]
  /\ disabled \in BOOLEAN /\ failed \in BOOLEAN /\ mixed \in BOOLEAN

Quiet == \A t \in Callers : pc[t] = "idle"

\* "Dhcp server will be stopped and restarted": however many callers change the
\* access point's address at once, the DHCP server they stop and start runs
\* again when all have returned, unless someone switched it off: the one that
\* found it running restores it.  (A call that fails half way does not.)
ServerComesBack == Quiet /\ ~disabled /\ ~failed => server = "STARTED"

\* As long as no two calls overlap, SetApIPv4 leaves the server as the
\* application last asked, on or off.
ServerAsAsked == Quiet /\ ~failed /\ ~mixed => server = asked

\* As long as no two calls overlap, the access point's address only changes
\* while the DHCP server, which leases addresses of the old network, is
\* stopped, whatever fails.
AddressWhileStopped == [][apIp' # apIp /\ ~mixed' => server = "STOPPED"]_vars
=============================================================================
