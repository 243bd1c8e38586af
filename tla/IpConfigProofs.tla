--------------------------- MODULE IpConfigProofs ---------------------------
(***************************************************************************)
(* Proofs about IpConfig, for any number of callers and addresses.         *)
(***************************************************************************)
EXTENDS IpConfig, TLAPS

\* The types, with every place of a call and every status it has read.
LEMMA TypeInit == Init => TypeOK
  BY DEF Init, TypeOK, Statuses, Pcs

LEMMA StatusType == ASSUME NEW enabled \in BOOLEAN PROVE Status(enabled) \in Statuses
  BY DEF Status, Statuses

\* Every step ends an esp_netif call, with success or without.
LEMMA FailedType ==
  ASSUME TypeOK, NEW t \in Callers, CallerNext(t)
  PROVE  failed' \in BOOLEAN
  BY DEF TypeOK, CallerNext, SetApIPv4, SetStaIPv4, ApStopServer, ApSetAddress,
     ApStartServer, StaStopClient, StaSetAddress, SetApDHCPServer,
     SetStaIPv4DHCPClient, Goto, Fails

LEMMA TypeNext == TypeOK /\ [Next]_vars => TypeOK'
<1> SUFFICES ASSUME TypeOK, [Next]_vars PROVE TypeOK'
  OBVIOUS
<1>1. ASSUME NEW t \in Callers, CallerNext(t), mixed' = (mixed \/ Within(t))
      PROVE  TypeOK'
  <2>1. failed' \in BOOLEAN /\ mixed' \in BOOLEAN
    BY <1>1, FailedType DEF TypeOK, Within
  <2> USE <2>1 DEF TypeOK, Goto, Fails, Pcs
  <2>2. ASSUME NEW a \in Addresses, SetApIPv4(t, a) \/ SetStaIPv4(t, a) PROVE TypeOK'
    BY <2>2 DEF SetApIPv4, SetStaIPv4, statuses, switched
  <2>3. CASE ApStopServer(t)
    BY <2>3 DEF ApStopServer, switched, Statuses
  <2>4. CASE ApSetAddress(t)
    BY <2>4 DEF ApSetAddress, statuses, switched
  <2>5. CASE ApStartServer(t)
    BY <2>5 DEF ApStartServer, Restored, switched, Statuses
  <2>6. CASE StaStopClient(t)
    BY <2>6 DEF StaStopClient, switched, Statuses
  <2>7. CASE StaSetAddress(t)
    BY <2>7 DEF StaSetAddress, statuses, switched
  <2>8. ASSUME NEW enabled \in BOOLEAN, SetApDHCPServer(t, enabled) PROVE TypeOK'
    <3>1. disabled' \in BOOLEAN
      BY <2>8 DEF SetApDHCPServer
    <3>2. asked' \in Statuses /\ server' \in Statuses
      BY <2>8, StatusType DEF SetApDHCPServer
    <3> QED  BY <2>8, <3>1, <3>2 DEF SetApDHCPServer
  <2>9. ASSUME NEW enabled \in BOOLEAN, SetStaIPv4DHCPClient(t, enabled) PROVE TypeOK'
    <3>1. client' \in Statuses
      BY <2>9, StatusType DEF SetStaIPv4DHCPClient
    <3> QED  BY <2>9, <3>1 DEF SetStaIPv4DHCPClient, switched
  <2> QED
    BY <1>1, <2>2, <2>3, <2>4, <2>5, <2>6, <2>7, <2>8, <2>9 DEF CallerNext
<1>2. CASE UNCHANGED vars
  BY <1>2 DEF TypeOK, vars, statuses, callVars, switched
<1> QED  BY <1>1, <1>2 DEF Next

\* Statuses, addresses and calls in progress keep their types.
THEOREM TypeCorrect == Spec => []TypeOK
  BY TypeInit, TypeNext, PTL DEF Spec

----------------------------------------------------------------------------
(* The DHCP server comes back.  Of any number of callers that stop and      *)
(* start it, one that found it running has yet to start it while it is off. *)

WillRestore(t) == pc[t] \in {"apSet", "apStart"} /\ WasOn(t)

ServerInv ==
  disabled \/ failed \/ server = "STARTED" \/ \E t \in Callers : WillRestore(t)

LEMMA ServerInit == Init => ServerInv
  BY DEF Init, ServerInv

\* A step that leaves the server and the pledges alone keeps the invariant.
LEMMA PledgesKept ==
  ASSUME ServerInv, disabled => disabled', failed => failed', UNCHANGED server,
         \A t \in Callers : WillRestore(t) => WillRestore(t)'
  PROVE  ServerInv'
  BY DEF ServerInv

LEMMA ServerStep ==
  ASSUME TypeOK, ServerInv, NEW t \in Callers, CallerNext(t), ~failed'
  PROVE  ServerInv'
<1> USE DEF Goto, Fails
<1>1. ASSUME NEW a \in Addresses, SetApIPv4(t, a) \/ SetStaIPv4(t, a)
      PROVE  ServerInv'
  <2>1. UNCHANGED <<server, disabled, failed>>
    BY <1>1 DEF SetApIPv4, SetStaIPv4, statuses, switched
  <2>2. \A u \in Callers : WillRestore(u) => WillRestore(u)'
    BY <1>1 DEF SetApIPv4, SetStaIPv4, WillRestore, WasOn, TypeOK
  <2> QED  BY <2>1, <2>2, PledgesKept
<1>2. CASE ApStopServer(t)
  <2>1. UNCHANGED <<disabled, failed, dhcp>> /\ pc' = [pc EXCEPT ![t] = "apSet"]
    BY <1>2 DEF ApStopServer, switched
  <2>2. \A u \in Callers : WillRestore(u) => WillRestore(u)'
    BY <1>2, <2>1 DEF ApStopServer, WillRestore, WasOn, TypeOK
  <2>3. CASE WasOn(t)
    <3>1. WillRestore(t)'
      BY <2>1, <2>3 DEF WillRestore, WasOn, TypeOK
    <3> QED  BY <3>1 DEF ServerInv
  <2>4. CASE ~WasOn(t)
    BY <1>2, <2>1, <2>2, <2>4, PledgesKept DEF ApStopServer
  <2> QED  BY <2>3, <2>4
<1>3. CASE ApSetAddress(t)
  <2>1. UNCHANGED <<server, disabled, failed>>
    BY <1>3 DEF ApSetAddress, statuses, switched
  <2>2. \A u \in Callers : WillRestore(u) => WillRestore(u)'
    BY <1>3 DEF ApSetAddress, WillRestore, WasOn, TypeOK
  <2> QED  BY <2>1, <2>2, PledgesKept
<1>4. CASE ApStartServer(t)
  <2>1. /\ UNCHANGED <<disabled, failed, dhcp>> /\ pc' = [pc EXCEPT ![t] = "idle"]
        /\ server' = Restored(t)
    BY <1>4 DEF ApStartServer, switched
  <2>2. CASE WasOn(t)
    BY <2>1, <2>2 DEF Restored, ServerInv
  <2>3. CASE ~WasOn(t)
    <3>1. \A u \in Callers : WillRestore(u) => WillRestore(u)'
      BY <2>1, <2>3 DEF WillRestore, WasOn, TypeOK
    <3> QED  BY <2>1, <2>3, <3>1, PledgesKept DEF Restored
  <2> QED  BY <2>2, <2>3
<1>5. CASE StaStopClient(t) \/ StaSetAddress(t)
  <2>1. UNCHANGED <<server, disabled, failed>>
    BY <1>5 DEF StaStopClient, StaSetAddress, statuses, switched
  <2>2. \A u \in Callers : WillRestore(u) => WillRestore(u)'
    BY <1>5 DEF StaStopClient, StaSetAddress, WillRestore, WasOn, TypeOK
  <2> QED  BY <2>1, <2>2, PledgesKept
<1>6. ASSUME NEW enabled \in BOOLEAN, SetApDHCPServer(t, enabled) PROVE ServerInv'
  BY <1>6 DEF SetApDHCPServer, Status, ServerInv
<1>7. ASSUME NEW enabled \in BOOLEAN, SetStaIPv4DHCPClient(t, enabled) PROVE ServerInv'
  <2>1. UNCHANGED <<server, disabled, failed>>
    BY <1>7 DEF SetStaIPv4DHCPClient, switched
  <2>2. \A u \in Callers : WillRestore(u) => WillRestore(u)'
    BY <1>7 DEF SetStaIPv4DHCPClient, WillRestore, WasOn, TypeOK
  <2> QED  BY <2>1, <2>2, PledgesKept
<1> QED  BY <1>1, <1>2, <1>3, <1>4, <1>5, <1>6, <1>7 DEF CallerNext

LEMMA ServerNext == TypeOK /\ ServerInv /\ [Next]_vars => ServerInv'
<1> SUFFICES ASSUME TypeOK, ServerInv, [Next]_vars PROVE ServerInv'
  OBVIOUS
<1>1. ASSUME NEW t \in Callers, CallerNext(t) PROVE ServerInv'
  <2>1. CASE failed'
    BY <2>1 DEF ServerInv
  <2>2. CASE ~failed'
    BY <1>1, <2>2, ServerStep
  <2> QED  BY <2>1, <2>2
<1>2. CASE UNCHANGED vars
  BY <1>2, PledgesKept DEF vars, statuses, callVars, switched, WillRestore, WasOn
<1> QED  BY <1>1, <1>2 DEF Next

\* As long as no esp_netif call has failed, the DHCP server runs whenever no
\* call is in progress, unless it was switched off, for any number of callers
\* that change the addresses at once.
THEOREM ServerReturns == Spec => []ServerComesBack
<1>1. ServerInv => ServerComesBack
  BY DEF ServerInv, ServerComesBack, Quiet, WillRestore
<1> QED  BY <1>1, ServerInit, ServerNext, TypeCorrect, PTL DEF Spec

----------------------------------------------------------------------------
(* As long as no two calls overlap.                                         *)

\* t is between stopping the server, if it was on, and starting it again.
Paused(t) == pc[t] \in {"apSet", "apStart"}

\* There is one call at a time, the server is as that call found or left it,
\* and what the call will restore is what the application last asked for.
ApartInv ==
  ~mixed =>
    /\ \A t, u \in Callers : pc[t] # "idle" /\ pc[u] # "idle" => t = u
    /\ \A t \in Callers : /\ pc[t] = "apStop" => dhcp[t] = server
                          /\ Paused(t) => server = "STOPPED"
                          /\ Paused(t) /\ ~failed => dhcp[t] = asked
    /\ failed \/ server = asked \/ \E t \in Callers : Paused(t)

LEMMA ApartInit == Init => ApartInv
  BY DEF Init, ApartInv, Paused

\* A step of the only call there is.
LEMMA ApartStep ==
  ASSUME TypeOK, ApartInv, NEW t \in Callers, CallerNext(t),
         ~mixed, \A u \in Callers \ {t} : pc[u] = "idle"
  PROVE  ApartInv'
<1> USE DEF TypeOK, ApartInv, Paused, Goto, Fails
<1>1. ASSUME NEW a \in Addresses, SetApIPv4(t, a) \/ SetStaIPv4(t, a) PROVE ApartInv'
  BY <1>1 DEF SetApIPv4, SetStaIPv4, statuses, switched
<1>2. CASE ApStopServer(t)
  BY <1>2 DEF ApStopServer, WasOn, switched
<1>3. CASE ApSetAddress(t)
  BY <1>3 DEF ApSetAddress, statuses, switched
<1>4. CASE ApStartServer(t)
  BY <1>4 DEF ApStartServer, Restored, WasOn, switched, Statuses
<1>5. CASE StaStopClient(t) \/ StaSetAddress(t)
  BY <1>5 DEF StaStopClient, StaSetAddress, statuses, switched
<1>6. ASSUME NEW enabled \in BOOLEAN, SetApDHCPServer(t, enabled) PROVE ApartInv'
  BY <1>6 DEF SetApDHCPServer
<1>7. ASSUME NEW enabled \in BOOLEAN, SetStaIPv4DHCPClient(t, enabled) PROVE ApartInv'
  BY <1>7 DEF SetStaIPv4DHCPClient, switched
<1> QED  BY <1>1, <1>2, <1>3, <1>4, <1>5, <1>6, <1>7 DEF CallerNext

LEMMA ApartNext == TypeOK /\ ApartInv /\ [Next]_vars => ApartInv'
<1> SUFFICES ASSUME TypeOK, ApartInv, [Next]_vars PROVE ApartInv'
  OBVIOUS
<1>1. ASSUME NEW t \in Callers, CallerNext(t), mixed' = (mixed \/ Within(t))
      PROVE  ApartInv'
  <2>1. CASE mixed \/ Within(t)
    BY <1>1, <2>1 DEF ApartInv
  <2>2. CASE ~(mixed \/ Within(t))
    BY <1>1, <2>2, ApartStep DEF Within
  <2> QED  BY <2>1, <2>2
<1>2. CASE UNCHANGED vars
  BY <1>2 DEF vars, statuses, callVars, switched, ApartInv, Paused
<1> QED  BY <1>1, <1>2 DEF Next

LEMMA Apart == Spec => []ApartInv
  BY ApartInit, ApartNext, TypeCorrect, PTL DEF Spec

\* Calls that do not overlap leave the DHCP server as the application last
\* asked, on or off, for any number of tasks that take turns.
THEOREM ServerLeftAsAsked == Spec => []ServerAsAsked
<1>1. ApartInv => ServerAsAsked
  BY DEF ApartInv, ServerAsAsked, Quiet, Paused
<1> QED  BY <1>1, Apart, PTL

\* Only the step that sets it changes the access point's address, and that one
\* is taken with the server stopped.
LEMMA AddressStep ==
  TypeOK /\ ApartInv /\ [Next]_vars => (apIp' # apIp /\ ~mixed' => server = "STOPPED")
<1> SUFFICES ASSUME ApartInv, [Next]_vars, apIp' # apIp, ~mixed'
             PROVE  server = "STOPPED"
  OBVIOUS
<1>1. PICK t \in Callers : CallerNext(t) /\ mixed' = (mixed \/ Within(t))
  BY DEF Next, vars
<1>2. ApSetAddress(t)
  BY <1>1 DEF CallerNext, SetApIPv4, SetStaIPv4, ApStopServer, ApStartServer,
     StaStopClient, StaSetAddress, SetApDHCPServer, SetStaIPv4DHCPClient
<1> QED  BY <1>1, <1>2 DEF ApSetAddress, ApartInv, Paused

\* While calls do not overlap, the access point's address never changes under
\* a DHCP server that runs, whichever calls fail.
THEOREM AddressChangesWhileStopped == Spec => AddressWhileStopped
  BY AddressStep, TypeCorrect, Apart, PTL DEF Spec, AddressWhileStopped
=============================================================================
