------------------------- MODULE SocketClientProofs -------------------------
(***************************************************************************)
(* Proofs about SocketClient, for any set of objects and of descriptors.   *)
(***************************************************************************)
EXTENDS SocketClient, TLAPS

\* Who relies on a descriptor is stated by pc and CONNECTED together; the two
\* are related as follows.
FlagsAgree ==
  \A c \in Clients : /\ connected[c] => pc[c] \in {"idle", "hangup"}
                     /\ Relies(c) => socket[c] \in Fds

IInv == TypeOK /\ FlagsAgree /\ OwnsWhatItUses

LEMMA InitIInv == Init => IInv
  BY ClientAssumption DEF Init, IInv, TypeOK, FlagsAgree, OwnsWhatItUses, Relies,
     NoSocket, Pcs, Free

\* Entering Disconnect, wherever it is called from, keeps the invariant.
LEMMA DisconnectIInv ==
  ASSUME IInv, NEW c \in Clients, pc[c] = "idle",
         NEW label \in {"idle", "lookup", "open", "dead"}, Disconnect(c, label)
  PROVE  IInv'
<1>1. CASE connected[c]
  <2>1. TypeOK'
    BY <1>1 DEF IInv, TypeOK, Disconnect, Close, Goto, Pcs
  <2>2. FlagsAgree'
    BY <1>1 DEF IInv, TypeOK, FlagsAgree, Relies, Disconnect, Close, Goto, Pcs
  <2>3. owner[socket[c]] = c /\ socket[c] \in Fds
    BY <1>1 DEF IInv, FlagsAgree, OwnsWhatItUses, Relies
  <2>4. OwnsWhatItUses'
    BY <1>1, <2>3, ClientAssumption
       DEF IInv, TypeOK, FlagsAgree, OwnsWhatItUses, Relies, Disconnect, Close, Goto,
           Pcs, Free
  <2> QED  BY <2>1, <2>2, <2>4 DEF IInv
<1>2. CASE ~connected[c]
  BY <1>2 DEF IInv, TypeOK, FlagsAgree, OwnsWhatItUses, Relies, Disconnect, Goto, Pcs
<1> QED  BY <1>1, <1>2

\* Each step of an object keeps the invariant.
LEMMA ClientIInv ==
  ASSUME IInv, NEW c \in Clients, ClientNext(c)
  PROVE  IInv'
<1> USE ClientAssumption DEF Free, NoSocket
<1>1. CASE CallDisconnect(c)
  BY <1>1, DisconnectIInv DEF CallDisconnect
<1>2. CASE DisconnectDone(c)
  BY <1>2 DEF IInv, TypeOK, FlagsAgree, OwnsWhatItUses, Relies, DisconnectDone,
     Disconnected, Goto, Pcs
<1>3. CASE CallConnect(c, "lookup") \/ CallConnect(c, "open")
  BY <1>3, DisconnectIInv DEF CallConnect
<1>4. CASE Lookup(c)
  BY <1>4 DEF IInv, TypeOK, FlagsAgree, OwnsWhatItUses, Relies, Lookup, Goto, Pcs
<1>5. CASE Open(c)
  <2>1. CASE UNCHANGED owner
    BY <1>5, <2>1 DEF IInv, TypeOK, FlagsAgree, OwnsWhatItUses, Relies, Open, Goto, Pcs
  <2>2. CASE \E f \in Fds : /\ IsLowestFree(f)
                            /\ owner' = [owner EXCEPT ![f] = c]
                            /\ socket' = [socket EXCEPT ![c] = f]
                            /\ Goto(c, "dial")
    BY <1>5, <2>2 DEF IInv, TypeOK, FlagsAgree, OwnsWhatItUses, Relies, Open, Goto, Pcs,
       IsLowestFree
  <2> QED  BY <1>5, <2>1, <2>2 DEF Open
<1>6. CASE DialSucceeds(c)
  BY <1>6 DEF IInv, TypeOK, FlagsAgree, OwnsWhatItUses, Relies, DialSucceeds, Connected,
     Goto, Pcs
<1>7. CASE DialFails(c)
  BY <1>7 DEF IInv, TypeOK, FlagsAgree, OwnsWhatItUses, Relies, DialFails, Goto, Pcs
<1>8. CASE Abandon(c)
  BY <1>8 DEF IInv, TypeOK, FlagsAgree, OwnsWhatItUses, Relies, Abandon, Close, Goto, Pcs
<1>9. CASE Destroy(c)
  BY <1>9, DisconnectIInv DEF Destroy
<1>10. CASE Construct(c)
  BY <1>10 DEF IInv, TypeOK, FlagsAgree, OwnsWhatItUses, Relies, Construct, Goto, Pcs
<1> QED
  BY <1>1, <1>2, <1>3, <1>4, <1>5, <1>6, <1>7, <1>8, <1>9, <1>10 DEF ClientNext

LEMMA NextIInv == IInv /\ [Next]_vars => IInv'
<1> SUFFICES ASSUME IInv, [Next]_vars PROVE IInv'
  OBVIOUS
<1>1. ASSUME NEW c \in Clients, ClientNext(c) PROVE IInv'
  BY <1>1, ClientIInv
<1>2. CASE OtherOpens
  BY <1>2, ClientAssumption DEF IInv, TypeOK, FlagsAgree, OwnsWhatItUses, Relies,
     OtherOpens, IsLowestFree, Free
<1>3. CASE OtherCloses
  BY <1>3, ClientAssumption DEF IInv, TypeOK, FlagsAgree, OwnsWhatItUses, Relies,
     OtherCloses, Free
<1>4. CASE UNCHANGED vars
  BY <1>4 DEF vars, IInv, TypeOK, FlagsAgree, OwnsWhatItUses, Relies
<1> QED  BY <1>1, <1>2, <1>3, <1>4 DEF Next

LEMMA Invariance == Spec => []IInv
  BY InitIInv, NextIInv, PTL DEF Spec

\* The objects' fields and the descriptor table keep their types.
THEOREM TypeCorrect == Spec => []TypeOK
  BY Invariance, PTL DEF IInv

\* Whatever the number of objects and descriptors, an object has open exactly
\* the descriptor it is about to use.
THEOREM Ownership == Spec => []OwnsWhatItUses
  BY Invariance, PTL DEF IInv

----------------------------------------------------------------------------
(* The objects keep to the descriptor lease: opening takes a lease, the    *)
(* close in Disconnect or after a failed connect gives it back, and every  *)
(* other step of an object is a stutter.                                   *)

LEMMA LeaseInit == Init => L!LeaseInit
  BY DEF Init, L!LeaseInit, L!Free, L!None, lease, Relies, NoSocket, Free

\* What close does to the table and to the lease of the object that calls it.
LEMMA CloseGives ==
  ASSUME IInv, NEW c \in Clients, Relies(c), Close(socket[c]),
         lease' = [lease EXCEPT ![c] = NoSocket]
  PROVE  L!Give(c)
<1>1. lease[c] = socket[c] /\ socket[c] \in Fds
  BY DEF IInv, FlagsAgree, lease
<1>2. owner' = [owner EXCEPT ![socket[c]] = Free]
  BY <1>1 DEF IInv, TypeOK, Close
<1> QED  BY <1>1, <1>2 DEF L!Give, L!Free, L!None, Free, NoSocket

LEMMA DisconnectLease ==
  ASSUME IInv, NEW c \in Clients, pc[c] = "idle",
         NEW label \in {"idle", "lookup", "open", "dead"}, Disconnect(c, label)
  PROVE  L!Give(c) \/ UNCHANGED L!leaseVars
<1>1. CASE connected[c]
  <2>1. Relies(c) /\ Close(socket[c])
    BY <1>1 DEF Relies, Disconnect
  <2>2. lease' = [lease EXCEPT ![c] = NoSocket]
    BY <1>1 DEF IInv, TypeOK, FlagsAgree, lease, Relies, Disconnect, Goto, Pcs
  <2> QED  BY <2>1, <2>2, CloseGives
<1>2. CASE ~connected[c]
  BY <1>2 DEF IInv, TypeOK, FlagsAgree, lease, Relies, Disconnect, Goto, Pcs, L!leaseVars
<1> QED  BY <1>1, <1>2

LEMMA ClientLease ==
  ASSUME IInv, NEW c \in Clients, ClientNext(c)
  PROVE  L!LeaseNext \/ UNCHANGED L!leaseVars
<1>1. ASSUME NEW label \in {"idle", "lookup", "open", "dead"}, pc[c] = "idle",
             Disconnect(c, label)
      PROVE  L!LeaseNext \/ UNCHANGED L!leaseVars
  BY <1>1, DisconnectLease DEF L!LeaseNext
<1>2. CASE DisconnectDone(c)
  BY <1>2 DEF IInv, TypeOK, FlagsAgree, lease, Relies, DisconnectDone, Disconnected,
     Goto, Pcs, L!leaseVars
<1>3. CASE Lookup(c)
  BY <1>3 DEF IInv, TypeOK, FlagsAgree, lease, Relies, Lookup, Goto, Pcs, L!leaseVars
<1>4. CASE Open(c)
  <2>1. CASE UNCHANGED owner /\ Goto(c, "idle")
    BY <1>4, <2>1 DEF IInv, TypeOK, FlagsAgree, lease, Relies, Open, Goto, Pcs,
       L!leaseVars
  <2>2. ASSUME NEW f \in Fds, IsLowestFree(f), owner' = [owner EXCEPT ![f] = c],
               socket' = [socket EXCEPT ![c] = f], Goto(c, "dial")
        PROVE  L!Take(c, f)
    <3>1. ~Relies(c) /\ lease[c] = NoSocket
      BY <1>4 DEF IInv, FlagsAgree, lease, Relies, Open
    <3>2. lease' = [lease EXCEPT ![c] = f]
      BY <1>4, <2>2 DEF IInv, TypeOK, FlagsAgree, lease, Relies, Open, Goto, Pcs
    <3> QED  BY <2>2, <3>1, <3>2 DEF L!Take, L!None, L!Free, NoSocket, Free, IsLowestFree
  <2> QED  BY <1>4, <2>1, <2>2 DEF Open, L!LeaseNext
<1>5. CASE DialSucceeds(c)
  BY <1>5 DEF IInv, TypeOK, FlagsAgree, lease, Relies, DialSucceeds, Connected, Goto,
     Pcs, L!leaseVars
<1>6. CASE DialFails(c)
  BY <1>6 DEF IInv, TypeOK, FlagsAgree, lease, Relies, DialFails, Goto, Pcs, L!leaseVars
<1>7. CASE Abandon(c)
  <2>1. Relies(c) /\ Close(socket[c])
    BY <1>7 DEF Relies, Abandon
  <2>2. lease' = [lease EXCEPT ![c] = NoSocket]
    BY <1>7 DEF IInv, TypeOK, FlagsAgree, lease, Relies, Abandon, Goto, Pcs
  <2> QED  BY <2>1, <2>2, CloseGives DEF L!LeaseNext
<1>8. CASE Construct(c)
  BY <1>8 DEF IInv, TypeOK, FlagsAgree, lease, Relies, Construct, Goto, Pcs, L!leaseVars
<1> QED
  BY <1>1, <1>2, <1>3, <1>4, <1>5, <1>6, <1>7, <1>8
     DEF ClientNext, CallDisconnect, CallConnect, Destroy

LEMMA NextLease == IInv /\ [Next]_vars => [L!LeaseNext]_(L!leaseVars)
<1> SUFFICES ASSUME IInv, [Next]_vars
             PROVE  L!LeaseNext \/ UNCHANGED L!leaseVars
  OBVIOUS
<1>1. ASSUME NEW c \in Clients, ClientNext(c)
      PROVE  L!LeaseNext \/ UNCHANGED L!leaseVars
  BY <1>1, ClientLease
<1>2. CASE OtherOpens
  BY <1>2 DEF OtherOpens, IsLowestFree, lease, Relies, Free, L!LeaseNext,
     L!OtherTake, L!Free
<1>3. CASE OtherCloses
  BY <1>3 DEF OtherCloses, lease, Relies, Free, L!LeaseNext, L!OtherGive,
     L!Free
<1>4. CASE UNCHANGED vars
  BY <1>4 DEF vars, lease, Relies, L!leaseVars
<1> QED  BY <1>1, <1>2, <1>3, <1>4 DEF Next

\* Any number of plain clients implement the descriptor lease.
THEOREM ImplementsLease == Spec => LeaseKept
<1>1. Init => L!LeaseInit
  BY LeaseInit
<1>2. IInv /\ [Next]_vars => [L!LeaseNext]_(L!leaseVars)
  BY NextLease
<1> QED  BY <1>1, <1>2, Invariance, PTL DEF Spec, LeaseKept, L!LeaseSpec
=============================================================================
