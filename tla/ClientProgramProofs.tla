------------------------ MODULE ClientProgramProofs ------------------------
(***************************************************************************)
(* Proofs about ClientProgram, and about the TLS clients in it: for any    *)
(* number of clients of the two kinds and of descriptors.                  *)
(***************************************************************************)
EXTENDS ClientProgram, SocketClientProofs

LEMMA ProgramConstants ==
  /\ Fds \subseteq Nat /\ -1 \notin Fds
  /\ "free" \notin Clients \cup Others /\ Clients \cap TlsClients = {}
  /\ TlsClients \subseteq Others
  BY ClientAssumption, ProgramAssumption

----------------------------------------------------------------------------
(* What the methods of a TLS client do to its fields.                      *)

LEMMA ObjectFields ==
  ASSUME NEW o \in Tls!Objects
  PROVE  /\ o.ready \in BOOLEAN /\ o.loaded \in BOOLEAN /\ o.failed \in BOOLEAN
         /\ o.connected \in BOOLEAN /\ o.chain \in BOOLEAN /\ o.verify \in BOOLEAN
         /\ o.contexts \in {"none", "init", "setup"}
         /\ o.fd \in Fds \cup {-1} /\ o.socket \in Fds \cup {-1}
  BY DEF Tls!Objects

\* ReleaseResources on an object that is not connected.
LEMMA ClearedFields ==
  ASSUME NEW o \in Tls!Objects
  PROVE  LET r == Tls!Cleared(o)
         IN  /\ r \in Tls!Objects
             /\ r.connected = o.connected /\ r.ready = FALSE
             /\ r.loaded = FALSE /\ r.failed = TRUE /\ r.socket = -1
             /\ o.ready => r.contexts = "none" /\ r.chain = FALSE /\ r.fd = -1
             /\ ~o.ready => r.contexts = o.contexts /\ r.chain = o.chain /\ r.fd = o.fd
<1>1. CASE o.ready
  BY <1>1 DEF Tls!Objects, Tls!Cleared, Tls!Freed, Tls!Forgotten, Tls!NoFd
<1>2. CASE ~o.ready
  BY <1>2 DEF Tls!Objects, Tls!Cleared, Tls!Freed, Tls!Forgotten, Tls!NoFd
<1> QED  BY <1>1, <1>2

LEMMA HungFields ==
  ASSUME NEW o \in Tls!Objects
  PROVE  LET r == Tls!Hung(o)
         IN  /\ r \in Tls!Objects
             /\ r.connected = FALSE /\ r.ready = o.ready
             /\ r.contexts = o.contexts /\ r.chain = o.chain /\ r.fd = o.fd
  BY DEF Tls!Objects, Tls!Hung, Tls!NoFd

\* Disconnect and ReleaseResources, nested or not: whether there was anything
\* to free depends on the flag alone.
LEMMA ReleasedFields ==
  ASSUME NEW o \in Tls!Objects,
         NEW r \in {Tls!Disconnected(o), Tls!Released(o)}
  PROVE  /\ r \in Tls!Objects
         /\ r.connected = FALSE /\ r.ready = FALSE
         /\ r.loaded = FALSE /\ r.failed = TRUE /\ r.socket = -1
         /\ o.ready => r.contexts = "none" /\ r.chain = FALSE /\ r.fd = -1
         /\ ~o.ready => r.contexts = o.contexts /\ r.chain = o.chain /\ r.fd = o.fd
<1> DEFINE h == Tls!Hung(o)
           d == Tls!Cleared(h)
<1>1. /\ h \in Tls!Objects /\ h.connected = FALSE /\ h.ready = o.ready
      /\ h.contexts = o.contexts /\ h.chain = o.chain /\ h.fd = o.fd
  BY HungFields
<1>2. /\ d \in Tls!Objects /\ d.connected = FALSE /\ d.ready = FALSE
      /\ d.loaded = FALSE /\ d.failed = TRUE /\ d.socket = -1
      /\ o.ready => d.contexts = "none" /\ d.chain = FALSE /\ d.fd = -1
      /\ ~o.ready => d.contexts = o.contexts /\ d.chain = o.chain /\ d.fd = o.fd
  <2> HIDE DEF h
  <2> QED  BY <1>1, ClearedFields
<1>3. CASE r = Tls!Disconnected(o)
  BY <1>2, <1>3 DEF Tls!Disconnected
<1>4. CASE r = Tls!Released(o) /\ o.connected
  <2>1. r = Tls!Cleared(d)
    BY <1>4 DEF Tls!Released, Tls!Disconnected
  <2> HIDE DEF d
  <2> QED  BY <1>2, <2>1, ClearedFields
<1>5. CASE r = Tls!Released(o) /\ ~o.connected
  <2>1. r = Tls!Cleared(o)
    BY <1>5 DEF Tls!Released
  <2>2. o.connected = FALSE
    BY <1>5, ObjectFields
  <2> QED  BY <2>1, <2>2, ClearedFields
<1> QED  BY <1>3, <1>4, <1>5

\* SetupResources, when the generator is seeded and when it is not.
LEMMA SetupsFields ==
  ASSUME NEW o \in Tls!Objects, NEW s \in Tls!Setups(o)
  PROVE  /\ s \in Tls!Objects
         /\ s.contexts = "init" /\ s.fd = -1 /\ s.chain = FALSE
         /\ \/ /\ s.ready = TRUE /\ s.connected = o.connected /\ s.socket = o.socket
               /\ s.loaded = o.loaded /\ s.failed = o.failed
            \/ SeedMayFail /\ s.ready = FALSE /\ s.connected = FALSE
<1> DEFINE i == Tls!Initialised(o)
<1>1. /\ i \in Tls!Objects /\ i.ready = FALSE /\ i.contexts = "init"
      /\ i.chain = FALSE /\ i.fd = -1
  BY DEF Tls!Objects, Tls!Initialised, Tls!NoFd
<1>2. CASE s = [Tls!Initialised(o) EXCEPT !.ready = TRUE]
  BY <1>2 DEF Tls!Objects, Tls!Initialised, Tls!NoFd
<1>3. CASE SeedMayFail /\ s = Tls!Released(i)
  <2> HIDE DEF i
  <2> QED  BY <1>1, <1>3, ReleasedFields
<1> QED  BY <1>2, <1>3, ProgramAssumption DEF Tls!Setups

----------------------------------------------------------------------------
(* A TLS client's descriptor is its own, whether or not its resources were *)
(* set up: this much holds even when seeding fails and descriptors leak.   *)

FdIsOwn == \A c \in TlsClients : obj[c].fd \in Fds => owner[obj[c].fd] = c

TlsIInv == Tls!TypeOK /\ FdIsOwn

LEMMA TlsInitIInv == Tls!Init => TlsIInv
  BY ProgramConstants
     DEF Tls!Init, Tls!Blank, Tls!NoFd, Tls!Free, TlsIInv, Tls!TypeOK, Tls!Objects,
         Tls!Pcs, FdIsOwn

\* The step leaves the descriptor table alone.
LEMMA KeepOwn ==
  ASSUME TlsIInv, NEW c \in TlsClients, NEW o \in Tls!Objects, Tls!Become(c, o),
         UNCHANGED owner, o.fd \in {-1, obj[c].fd}
  PROVE  obj' \in [TlsClients -> Tls!Objects] /\ FdIsOwn'
<1>1. obj \in [TlsClients -> Tls!Objects] /\ obj' = [obj EXCEPT ![c] = o]
  BY DEF TlsIInv, Tls!TypeOK, Tls!Become
<1>2. obj' \in [TlsClients -> Tls!Objects]
  BY <1>1
<1>3. ASSUME NEW d \in TlsClients, obj'[d].fd \in Fds PROVE owner[obj'[d].fd] = d
  <2>1. CASE d = c
    BY <1>1, <1>3, <2>1, ProgramConstants DEF TlsIInv, FdIsOwn
  <2>2. CASE d # c
    BY <1>1, <1>3, <2>2 DEF TlsIInv, FdIsOwn
  <2> QED  BY <2>1, <2>2
<1> QED  BY <1>2, <1>3 DEF FdIsOwn

\* The step ends in mbedtls_net_free.
LEMMA CloseOwn ==
  ASSUME TlsIInv, NEW c \in TlsClients, NEW o \in Tls!Objects, Tls!Become(c, o),
         Tls!CloseOf(obj[c]),
         obj[c].ready => o.fd = -1, o.fd \in {-1, obj[c].fd}
  PROVE  /\ obj' \in [TlsClients -> Tls!Objects] /\ FdIsOwn'
         /\ owner' \in [Fds -> Clients \cup Others \cup {"free"}]
         /\ \/ UNCHANGED owner
            \/ \E f \in Fds : owner[f] = c /\ owner' = [owner EXCEPT ![f] = "free"]
<1>1. /\ obj \in [TlsClients -> Tls!Objects] /\ obj' = [obj EXCEPT ![c] = o]
      /\ owner \in [Fds -> Clients \cup Others \cup {"free"}]
  BY ProgramConstants DEF TlsIInv, Tls!TypeOK, Tls!Become, Tls!Free
<1>2. owner' = [f \in Fds |-> IF obj[c].ready /\ f = obj[c].fd THEN "free" ELSE owner[f]]
  BY DEF Tls!CloseOf, Tls!Free
<1>3. CASE ~obj[c].ready \/ obj[c].fd \notin Fds
  <2>1. UNCHANGED owner
    BY <1>1, <1>2, <1>3
  <2> QED  BY <1>1, <2>1, KeepOwn
<1>4. CASE obj[c].ready /\ obj[c].fd \in Fds
  <2>1. owner[obj[c].fd] = c /\ owner' = [owner EXCEPT ![obj[c].fd] = "free"]
    BY <1>1, <1>2, <1>4 DEF TlsIInv, FdIsOwn
  <2>2. ASSUME NEW d \in TlsClients, obj'[d].fd \in Fds PROVE owner'[obj'[d].fd] = d
    <3>1. d # c
      BY <1>1, <1>4, <2>2, ProgramConstants
    <3>2. obj'[d].fd = obj[d].fd /\ owner[obj[d].fd] = d
      BY <1>1, <2>2, <3>1 DEF TlsIInv, FdIsOwn
    <3> QED  BY <1>1, <2>1, <2>2, <3>1, <3>2
  <2> QED  BY <1>1, <1>4, <2>1, <2>2 DEF FdIsOwn
<1> QED  BY <1>3, <1>4

\* What a step of a TLS client may do to the descriptor table: nothing, close
\* a descriptor of its own, or take the lowest free one.
OwnStep(c) ==
  \/ UNCHANGED owner
  \/ \E f \in Fds : owner[f] = c /\ owner' = [owner EXCEPT ![f] = "free"]
  \/ \E f \in Fds : IsLowestFree(f) /\ owner' = [owner EXCEPT ![f] = c]

LEMMA TlsRelease ==
  ASSUME TlsIInv, NEW c \in TlsClients, NEW label \in Tls!Pcs, Tls!Release(c, label),
         given' \in [TlsClients -> {"no", "given", "failed"}]
  PROVE  TlsIInv' /\ OwnStep(c)
<1>1. obj[c] \in Tls!Objects
  BY DEF TlsIInv, Tls!TypeOK
<1>2. /\ Tls!Released(obj[c]) \in Tls!Objects
      /\ obj[c].ready => Tls!Released(obj[c]).fd = -1
      /\ Tls!Released(obj[c]).fd \in {-1, obj[c].fd}
  BY <1>1, ReleasedFields
<1>3. /\ obj' \in [TlsClients -> Tls!Objects] /\ FdIsOwn'
      /\ owner' \in [Fds -> Clients \cup Others \cup {"free"}]
      /\ OwnStep(c)
  BY <1>2, CloseOwn DEF Tls!Release, OwnStep
<1>4. tlsPc' \in [TlsClients -> Tls!Pcs]
  BY DEF TlsIInv, Tls!TypeOK, Tls!Release, Tls!Goto
<1> QED  BY <1>3, <1>4, ProgramConstants DEF TlsIInv, Tls!TypeOK, Tls!Free

LEMMA TlsClientIInv ==
  ASSUME TlsIInv, NEW c \in TlsClients, Tls!ClientNext(c)
  PROVE  TlsIInv' /\ OwnStep(c)
<1>1. /\ obj \in [TlsClients -> Tls!Objects] /\ obj[c] \in Tls!Objects
      /\ tlsPc \in [TlsClients -> Tls!Pcs]
      /\ given \in [TlsClients -> {"no", "given", "failed"}]
      /\ owner \in [Fds -> Clients \cup Others \cup {"free"}]
  BY ProgramConstants DEF TlsIInv, Tls!TypeOK, Tls!Free
<1>2. \A label \in {"idle", "dead"} : label \in Tls!Pcs
  BY DEF Tls!Pcs
<1>3. ASSUME NEW o \in Tls!Objects, NEW r \in Tls!Readied(o)
      PROVE  r \in Tls!Objects /\ r.fd \in {-1, o.fd} /\ (~o.ready => r.fd = -1)
  BY <1>3, SetupsFields DEF Tls!Readied
<1>4. ASSUME NEW o \in Tls!Objects, Tls!Become(c, o), UNCHANGED owner,
             o.fd \in {-1, obj[c].fd}, tlsPc' \in [TlsClients -> Tls!Pcs],
             given' \in [TlsClients -> {"no", "given", "failed"}]
      PROVE  TlsIInv' /\ OwnStep(c)
  BY <1>1, <1>4, KeepOwn, ProgramConstants DEF TlsIInv, Tls!TypeOK, Tls!Free, OwnStep
<1>5. CASE Tls!Construct(c)
  <2>1. Tls!Blank \in Tls!Objects
    BY DEF Tls!Blank, Tls!Objects, Tls!NoFd
  <2>2. PICK s \in Tls!Setups(Tls!Blank) : Tls!Become(c, s)
    BY <1>5 DEF Tls!Construct
  <2>3. tlsPc' \in [TlsClients -> Tls!Pcs] /\ given' = given /\ owner' = owner
    BY <1>1, <1>2, <1>5 DEF Tls!Construct, Tls!Goto
  <2> QED  BY <1>1, <1>4, <2>1, <2>2, <2>3, SetupsFields
<1>6. ASSUME NEW parsed \in BOOLEAN, Tls!SetCACertificate(c, parsed)
      PROVE  TlsIInv' /\ OwnStep(c)
  <2>1. PICK r \in Tls!Readied(obj[c]) : Tls!Become(c, Tls!Certified(r, parsed))
    BY <1>6 DEF Tls!SetCACertificate
  <2>2. r \in Tls!Objects /\ r.fd \in {-1, obj[c].fd}
    BY <1>1, <1>3
  <2>3. Tls!Certified(r, parsed) \in Tls!Objects /\ Tls!Certified(r, parsed).fd = r.fd
    BY <2>2 DEF Tls!Certified, Tls!Objects
  <2>4. given' \in [TlsClients -> {"no", "given", "failed"}] /\ tlsPc' = tlsPc /\ owner' = owner
    BY <1>1, <1>6 DEF Tls!SetCACertificate
  <2> QED  BY <1>1, <1>4, <2>1, <2>2, <2>3, <2>4
<1>7. CASE Tls!RefuseChain(c)
  BY <1>1, <1>2, <1>7, TlsRelease DEF Tls!RefuseChain
<1>8. CASE Tls!RefuseAddress(c)
  <2>1. CASE obj[c].ready
    BY <1>1, <1>2, <1>8, <2>1, TlsRelease DEF Tls!RefuseAddress
  <2>2. CASE ~obj[c].ready
    BY <1>8, <2>2 DEF Tls!RefuseAddress, TlsIInv, Tls!TypeOK, FdIsOwn, OwnStep
  <2> QED  BY <2>1, <2>2
<1>9. CASE Tls!Connect(c)
  <2>1. PICK r \in Tls!Readied(Tls!AtConnect(c)) : Tls!Become(c, r)
    BY <1>9 DEF Tls!Connect
  <2>2. tlsPc' \in [TlsClients -> Tls!Pcs] /\ given' = given
    BY <1>1, <1>9 DEF Tls!Connect, Tls!Goto, Tls!Pcs
  <2>3. CASE obj[c].connected
    <3>1. Tls!AtConnect(c) = Tls!Disconnected(obj[c]) /\ Tls!CloseOf(obj[c])
      BY <1>9, <2>3 DEF Tls!AtConnect, Tls!Connect, Tls!Hangup
    <3>2. Tls!AtConnect(c) \in Tls!Objects /\ ~Tls!AtConnect(c).ready
      BY <1>1, <3>1, ReleasedFields
    <3>3. r \in Tls!Objects /\ r.fd = -1
      BY <1>3, <3>2
    <3>4. /\ obj' \in [TlsClients -> Tls!Objects] /\ FdIsOwn'
          /\ owner' \in [Fds -> Clients \cup Others \cup {"free"}]
          /\ OwnStep(c)
      BY <2>1, <3>1, <3>3, CloseOwn DEF OwnStep
    <3> QED  BY <1>1, <2>2, <3>4, ProgramConstants DEF TlsIInv, Tls!TypeOK, Tls!Free
  <2>4. CASE ~obj[c].connected
    <3>1. Tls!AtConnect(c) = obj[c] /\ UNCHANGED owner
      BY <1>9, <2>4 DEF Tls!AtConnect, Tls!Connect, Tls!Hangup
    <3>2. r \in Tls!Objects /\ r.fd \in {-1, obj[c].fd}
      BY <1>1, <1>3, <3>1
    <3> QED  BY <1>1, <1>4, <2>1, <2>2, <3>1, <3>2
  <2> QED  BY <2>3, <2>4
<1>10. CASE Tls!NetConnect(c)
  <2>1. PICK f \in Fds : /\ Tls!IsLowestFree(f)
                         /\ owner' = [owner EXCEPT ![f] = c]
                         /\ Tls!Become(c, [obj[c] EXCEPT !.fd = f])
    BY <1>10 DEF Tls!NetConnect
  <2>2. obj' \in [TlsClients -> Tls!Objects] /\ obj'[c].fd = f
    BY <1>1, <2>1 DEF Tls!Become, Tls!Objects
  <2>3. FdIsOwn'
    <3>1. owner[f] = "free"
      BY <2>1 DEF Tls!IsLowestFree, Tls!Free
    <3>2. ASSUME NEW d \in TlsClients, d # c, obj'[d].fd \in Fds
          PROVE  owner'[obj'[d].fd] = d
      <4>1. obj'[d] = obj[d]
        BY <1>1, <2>1, <3>2 DEF Tls!Become
      <4>2. owner[obj[d].fd] = d
        BY <3>2, <4>1 DEF TlsIInv, FdIsOwn
      <4> QED  BY <1>1, <2>1, <3>1, <3>2, <4>1, <4>2, ProgramConstants
    <3>3. owner'[f] = c
      BY <1>1, <2>1
    <3> QED  BY <2>2, <3>2, <3>3 DEF FdIsOwn
  <2>4. /\ tlsPc' \in [TlsClients -> Tls!Pcs] /\ given' = given
        /\ owner' \in [Fds -> Clients \cup Others \cup {"free"}]
    BY <1>1, <1>10, <2>1, ProgramConstants DEF Tls!NetConnect, Tls!Goto, Tls!Pcs
  <2>5. OwnStep(c)
    BY <2>1 DEF OwnStep, Tls!IsLowestFree, IsLowestFree, Tls!Free, Free
  <2> QED
    BY <1>1, <2>2, <2>3, <2>4, <2>5, ProgramConstants DEF TlsIInv, Tls!TypeOK, Tls!Free
<1>11. CASE Tls!Configure(c) \/ Tls!Handshake(c)
  <2>1. PICK o \in Tls!Objects : Tls!Become(c, o) /\ o.fd = obj[c].fd
    <3>1. CASE Tls!Configure(c)
      <4> DEFINE v == Tls!MustVerify(obj[c])
                 n == [obj[c] EXCEPT !.contexts = "setup", !.verify = v]
      <4>1. Tls!Become(c, n)
        BY <3>1 DEF Tls!Configure
      <4>2. v \in BOOLEAN
        BY Zenon DEF Tls!MustVerify
      <4>3. n \in Tls!Objects /\ n.fd = obj[c].fd
        <5> HIDE DEF v
        <5> QED  BY <1>1, <4>2 DEF Tls!Objects
      <4> HIDE DEF n
      <4> QED  BY <4>1, <4>3 DEF Tls!Become
    <3>2. CASE Tls!Handshake(c)
      <4> DEFINE n == [obj[c] EXCEPT !.connected = TRUE, !.socket = obj[c].fd]
      <4>1. Tls!Become(c, n)
        BY <3>2 DEF Tls!Handshake
      <4>2. n \in Tls!Objects /\ n.fd = obj[c].fd
        BY <1>1 DEF Tls!Objects
      <4> HIDE DEF n
      <4> QED  BY <4>1, <4>2 DEF Tls!Become
    <3> QED  BY <1>11, <3>1, <3>2
  <2>2. tlsPc' \in [TlsClients -> Tls!Pcs] /\ given' = given /\ owner' = owner
    BY <1>1, <1>11 DEF Tls!Configure, Tls!Handshake, Tls!Goto, Tls!Pcs
  <2> QED  BY <1>1, <1>4, <2>1, <2>2
<1>12. CASE Tls!ConnectFails(c) \/ Tls!TransferFails(c)
  BY <1>1, <1>2, <1>12, TlsRelease DEF Tls!ConnectFails, Tls!TransferFails
<1>13. CASE Tls!Disconnect(c) \/ Tls!Destroy(c)
  <2>1. given' \in [TlsClients -> {"no", "given", "failed"}]
    BY <1>1, <1>13 DEF Tls!Disconnect, Tls!Destroy
  <2> QED  BY <1>2, <1>13, <2>1, TlsRelease DEF Tls!Disconnect, Tls!Destroy
<1> QED
  BY <1>5, <1>6, <1>7, <1>8, <1>9, <1>10, <1>11, <1>12, <1>13 DEF Tls!ClientNext

LEMMA TlsNextIInv == TlsIInv /\ [Tls!Next]_(Tls!vars) => TlsIInv'
<1> SUFFICES ASSUME TlsIInv, [Tls!Next]_(Tls!vars) PROVE TlsIInv'
  OBVIOUS
<1>1. ASSUME NEW c \in TlsClients, Tls!ClientNext(c) PROVE TlsIInv'
  BY <1>1, TlsClientIInv
<1>2. CASE Tls!OtherOpens
  BY <1>2, ProgramConstants
     DEF Tls!OtherOpens, Tls!IsLowestFree, Tls!Free, TlsIInv, Tls!TypeOK, FdIsOwn
<1>3. CASE Tls!OtherCloses
  BY <1>3, ProgramConstants DEF Tls!OtherCloses, Tls!Free, TlsIInv, Tls!TypeOK, FdIsOwn
<1>4. CASE UNCHANGED Tls!vars
  BY <1>4 DEF Tls!vars, TlsIInv, Tls!TypeOK, FdIsOwn
<1> QED  BY <1>1, <1>2, <1>3, <1>4 DEF Tls!Next

----------------------------------------------------------------------------
(* Neither kind of client sees more of the other than the rest of a        *)
(* program may show: descriptors that are opened and closed again.         *)

\* A plain client too opens and closes only descriptors of its own.
LEMMA PlainOwnStep ==
  ASSUME IInv, NEW c \in Clients, ClientNext(c)
  PROVE  OwnStep(c)
<1>1. ASSUME Relies(c), Close(socket[c]) PROVE OwnStep(c)
  <2>1. socket[c] \in Fds /\ owner[socket[c]] = c
    BY <1>1 DEF IInv, FlagsAgree, OwnsWhatItUses
  <2>2. owner' = [owner EXCEPT ![socket[c]] = "free"]
    BY <1>1, <2>1 DEF IInv, TypeOK, Close, Free
  <2> QED  BY <2>1, <2>2 DEF OwnStep
<1>2. ASSUME NEW label, pc[c] = "idle", Disconnect(c, label) PROVE OwnStep(c)
  BY <1>1, <1>2 DEF Disconnect, Relies, OwnStep
<1>3. CASE Open(c)
  BY <1>3 DEF Open, OwnStep
<1>4. CASE Abandon(c)
  BY <1>1, <1>4 DEF Abandon, Relies
<1>5. CASE DisconnectDone(c) \/ Lookup(c) \/ DialSucceeds(c) \/ DialFails(c) \/ Construct(c)
  BY <1>5 DEF DisconnectDone, Lookup, DialSucceeds, DialFails, Construct, OwnStep
<1> QED
  BY <1>2, <1>3, <1>4, <1>5 DEF ClientNext, CallDisconnect, CallConnect, Destroy

\* The step of a TLS client, as the plain ones see it.
LEMMA TlsStepSeen ==
  ASSUME NEW c \in TlsClients, OwnStep(c), UNCHANGED plainVars
  PROVE  OtherOpens \/ OtherCloses \/ UNCHANGED vars
<1>1. c \in Others
  BY ProgramConstants
<1> QED  BY <1>1 DEF OwnStep, OtherOpens, OtherCloses, plainVars, vars, Free

\* The step of a plain client, as the TLS ones see it.
LEMMA PlainStepSeen ==
  ASSUME NEW c \in Clients, OwnStep(c), UNCHANGED tlsVars
  PROVE  Tls!OtherOpens \/ Tls!OtherCloses \/ UNCHANGED Tls!vars
<1>1. c \in (Others \ TlsClients) \cup Clients
  OBVIOUS
<1> QED
  BY <1>1 DEF OwnStep, Tls!OtherOpens, Tls!OtherCloses, tlsVars, Tls!vars, Tls!Free,
     IsLowestFree, Tls!IsLowestFree, Free

LEMMA ApartNext ==
  IInv /\ TlsIInv /\ [ProgramNext]_programVars => [Next]_vars /\ [Tls!Next]_(Tls!vars)
<1> SUFFICES ASSUME IInv, TlsIInv, [ProgramNext]_programVars
             PROVE  /\ Next \/ UNCHANGED vars
                    /\ Tls!Next \/ UNCHANGED Tls!vars
  OBVIOUS
<1>1. ASSUME NEW c \in Clients, ClientNext(c), UNCHANGED tlsVars
      PROVE  Next /\ (Tls!Next \/ UNCHANGED Tls!vars)
  <2>1. Next
    BY <1>1 DEF Next
  <2>2. Tls!Next \/ UNCHANGED Tls!vars
    BY <1>1, PlainOwnStep, PlainStepSeen DEF Tls!Next
  <2> QED  BY <2>1, <2>2
<1>2. ASSUME NEW c \in TlsClients, Tls!ClientNext(c), UNCHANGED plainVars
      PROVE  (Next \/ UNCHANGED vars) /\ Tls!Next
  <2>1. Next \/ UNCHANGED vars
    BY <1>2, TlsClientIInv, TlsStepSeen DEF Next
  <2>2. Tls!Next
    BY <1>2 DEF Tls!Next
  <2> QED  BY <2>1, <2>2
<1>3. CASE Rest!OtherOpens /\ UNCHANGED tlsVars
  BY <1>3 DEF Rest!OtherOpens, Rest!IsLowestFree, Rest!Free, tlsVars, Next, OtherOpens,
     IsLowestFree, Free, Tls!Next, Tls!OtherOpens, Tls!IsLowestFree, Tls!Free
<1>4. CASE Rest!OtherCloses /\ UNCHANGED tlsVars
  BY <1>4 DEF Rest!OtherCloses, Rest!Free, tlsVars, Next, OtherCloses, Free, Tls!Next,
     Tls!OtherCloses, Tls!Free
<1>5. CASE UNCHANGED programVars
  BY <1>5 DEF programVars, plainVars, tlsVars, vars, Tls!vars
<1> QED  BY <1>1, <1>2, <1>3, <1>4, <1>5 DEF ProgramNext

LEMMA ProgramIInv == ProgramSpec => [](IInv /\ TlsIInv)
<1>1. ProgramInit => IInv /\ TlsIInv
  BY InitIInv, TlsInitIInv DEF ProgramInit
<1>2. IInv /\ TlsIInv /\ [ProgramNext]_programVars => IInv' /\ TlsIInv'
  BY ApartNext, NextIInv, TlsNextIInv
<1> QED  BY <1>1, <1>2, PTL DEF ProgramSpec

\* Whatever the TLS clients do, the plain ones behave as SocketClient says.
THEOREM PlainUndisturbed == ProgramSpec => PlainAlone
<1>1. ProgramInit => Init
  BY DEF ProgramInit
<1>2. IInv /\ TlsIInv /\ [ProgramNext]_programVars => [Next]_vars
  BY ApartNext
<1> QED  BY <1>1, <1>2, ProgramIInv, PTL DEF ProgramSpec, PlainAlone, Spec

\* And whatever the plain clients do, the TLS ones behave as TlsClient says.
THEOREM TlsUndisturbed == ProgramSpec => TlsAlone
<1>1. ProgramInit => Tls!Init
  BY DEF ProgramInit
<1>2. IInv /\ TlsIInv /\ [ProgramNext]_programVars => [Tls!Next]_(Tls!vars)
  BY ApartNext
<1> QED  BY <1>1, <1>2, ProgramIInv, PTL DEF ProgramSpec, TlsAlone, Tls!Spec

\* The fields, places and chains of the TLS clients keep their types.
THEOREM TlsTypeCorrect == ProgramSpec => []TlsTypeOK
<1>1. TlsIInv => TlsTypeOK
  BY DEF TlsIInv, TlsTypeOK
<1> QED  BY <1>1, ProgramIInv, PTL

\* What is proved of the plain clients by themselves holds in the program that
\* uses TLS clients too: each owns what it uses,
THEOREM PlainOwnership == ProgramSpec => []OwnsWhatItUses
  BY PlainUndisturbed, Ownership, PTL DEF PlainAlone

\* and they keep to the descriptor lease.
THEOREM PlainKeepsLease == ProgramSpec => LeaseKept
  BY PlainUndisturbed, ImplementsLease, PTL DEF PlainAlone

----------------------------------------------------------------------------
(* When the generator can be seeded, the flag resourcesReady is true to    *)
(* the contexts, and nothing of a TLS session outlives it.                 *)

\* What the fields of an object say together when its task is at place.
Whole(o, place) ==
  /\ o.ready <=> o.contexts # "none"
  /\ o.chain => o.ready
  /\ Tls!MustVerify(o) => o.chain
  /\ place = "dead" => ~o.ready
  /\ place \in {"connect", "configure", "handshake"} => o.ready /\ ~o.connected
  /\ o.connected => o.ready /\ place = "idle"
  /\ o.contexts = "setup" => o.connected \/ place = "handshake"
  /\ o.fd \in Fds <=> o.connected \/ place \in {"configure", "handshake"}
  /\ o.socket # -1 => o.connected

\* And every descriptor of a client is the one in its field, none is left over.
FdKept == \A c \in TlsClients, f \in Fds : owner[f] = c => obj[c].fd = f

SeededInv == (\A c \in TlsClients : Whole(obj[c], tlsPc[c])) /\ FdKept

LEMMA SeededInit == Tls!Init => SeededInv
  BY ProgramConstants
     DEF Tls!Init, Tls!Blank, Tls!NoFd, Tls!Free, SeededInv, Whole, FdKept, Tls!MustVerify

\* A step that changes one client only.
LEMMA LocalStep ==
  ASSUME TlsIInv, SeededInv, NEW c \in TlsClients, NEW o, NEW place,
         Tls!Become(c, o), tlsPc' = [tlsPc EXCEPT ![c] = place], Whole(o, place),
         \A f \in Fds : owner'[f] = c => o.fd = f,
         \A f \in Fds, d \in TlsClients \ {c} : owner'[f] = d => owner[f] = d
  PROVE  SeededInv'
<1>1. /\ obj' = [obj EXCEPT ![c] = o]
      /\ obj \in [TlsClients -> Tls!Objects] /\ tlsPc \in [TlsClients -> Tls!Pcs]
  BY DEF TlsIInv, Tls!TypeOK, Tls!Become
<1>2. obj'[c] = o /\ tlsPc'[c] = place
  BY <1>1
<1>3. \A d \in TlsClients \ {c} : obj'[d] = obj[d] /\ tlsPc'[d] = tlsPc[d]
  BY <1>1
<1>4. ASSUME NEW d \in TlsClients PROVE Whole(obj'[d], tlsPc'[d])
  <2>1. CASE d = c
    BY <1>2, <2>1
  <2>2. CASE d # c
    BY <1>3, <2>2 DEF SeededInv
  <2> QED  BY <2>1, <2>2
<1>5. FdKept'
  BY <1>2, <1>3 DEF FdKept, SeededInv
<1> QED  BY <1>4, <1>5 DEF SeededInv

\* ReleaseResources leaves nothing behind, wherever it is called.
LEMMA ReleasedWhole ==
  ASSUME NEW o \in Tls!Objects, NEW place, Whole(o, place),
         NEW r \in {Tls!Disconnected(o), Tls!Released(o)}
  PROVE  /\ Whole(r, "idle") /\ Whole(r, "dead")
         /\ r.contexts = "none" /\ r.fd = -1 /\ r.chain = FALSE /\ r.ready = FALSE
<1>1. /\ r \in Tls!Objects
      /\ r.connected = FALSE /\ r.ready = FALSE
      /\ r.loaded = FALSE /\ r.failed = TRUE /\ r.socket = -1
  BY ReleasedFields
<1>2. r.contexts = "none" /\ r.chain = FALSE /\ r.fd = -1
  <2>1. CASE o.ready
    BY <2>1, ReleasedFields
  <2>2. CASE ~o.ready
    <3>1. o.contexts = "none" /\ o.chain = FALSE /\ o.fd = -1
      BY <2>2, ObjectFields DEF Whole
    <3> QED  BY <2>2, <3>1, ReleasedFields
  <2> QED  BY <2>1, <2>2
<1> QED  BY <1>1, <1>2, ProgramConstants DEF Whole, Tls!MustVerify

\* SetupResources on an object with nothing to lose.
LEMMA SetupsWhole ==
  ASSUME ~SeedMayFail, NEW o \in Tls!Objects, ~o.ready, o.contexts = "none",
         o.chain = FALSE, ~Tls!MustVerify(o), o.connected = FALSE, o.socket = -1,
         NEW s \in Tls!Setups(o)
  PROVE  Whole(s, "idle") /\ Whole(s, "connect") /\ s \in Tls!Objects /\ s.ready = TRUE
<1>1. /\ s \in Tls!Objects /\ s.contexts = "init" /\ s.fd = -1 /\ s.chain = FALSE
      /\ s.ready = TRUE /\ s.connected = o.connected /\ s.socket = o.socket
      /\ s.loaded = o.loaded /\ s.failed = o.failed
  BY SetupsFields
<1> QED  BY <1>1, ProgramConstants DEF Whole, Tls!MustVerify

\* Before a connection is tried, an object is ready or has nothing to lose.
LEMMA ReadiedWhole ==
  ASSUME ~SeedMayFail, NEW o \in Tls!Objects, Whole(o, "idle"), NEW r \in Tls!Readied(o)
  PROVE  /\ r \in Tls!Objects /\ r.ready = TRUE /\ Whole(r, "idle")
         /\ ~o.connected => Whole(r, "connect")
<1>1. CASE o.ready
  <2>1. r = o
    BY <1>1 DEF Tls!Readied
  <2>2. o.ready = TRUE
    BY <1>1, ObjectFields
  <2> QED  BY <2>1, <2>2 DEF Whole
<1>2. CASE ~o.ready
  <2>1. /\ o.contexts = "none" /\ o.chain = FALSE /\ o.connected = FALSE
        /\ o.socket = -1 /\ ~Tls!MustVerify(o)
    BY <1>2, ObjectFields DEF Whole
  <2>2. r \in Tls!Setups(o)
    BY <1>2 DEF Tls!Readied
  <2> QED  BY <1>2, <2>1, <2>2, SetupsWhole
<1> QED  BY <1>1, <1>2

LEMMA ReleaseSeeded ==
  ASSUME TlsIInv, SeededInv, NEW c \in TlsClients, NEW label \in {"idle", "dead"},
         Tls!Release(c, label)
  PROVE  SeededInv'
<1> DEFINE r == Tls!Released(obj[c])
<1>1. obj[c] \in Tls!Objects /\ Whole(obj[c], tlsPc[c])
  BY DEF TlsIInv, Tls!TypeOK, SeededInv
<1>2. Whole(r, label)
  BY <1>1, ReleasedWhole
<1>3. \A f \in Fds : owner'[f] = IF obj[c].ready /\ f = obj[c].fd THEN "free" ELSE owner[f]
  BY DEF Tls!Release, Tls!CloseOf, Tls!Free
<1>4. \A f \in Fds : owner'[f] # c
  <2>1. ASSUME NEW f \in Fds, owner[f] = c PROVE obj[c].ready /\ f = obj[c].fd
    BY <1>1, <2>1 DEF SeededInv, FdKept, Whole
  <2> QED  BY <1>3, <2>1, ProgramConstants
<1>5. \A f \in Fds, d \in TlsClients \ {c} : owner'[f] = d => owner[f] = d
  BY <1>3, ProgramConstants
<1>6. Tls!Become(c, r) /\ tlsPc' = [tlsPc EXCEPT ![c] = label]
  BY DEF Tls!Release, Tls!Goto
<1> HIDE DEF r
<1> QED  BY <1>2, <1>4, <1>5, <1>6, LocalStep

\* A step that leaves the descriptor table alone.
LEMMA QuietSeeded ==
  ASSUME TlsIInv, SeededInv, NEW c \in TlsClients, NEW o, NEW place,
         Tls!Become(c, o), tlsPc' = [tlsPc EXCEPT ![c] = place], Whole(o, place),
         UNCHANGED owner, o.fd = obj[c].fd \/ obj[c].fd \notin Fds
  PROVE  SeededInv'
<1>1. \A f \in Fds : owner'[f] = c => o.fd = f
  BY DEF SeededInv, FdKept
<1> QED  BY <1>1, LocalStep

LEMMA ClientSeeded ==
  ASSUME ~SeedMayFail, TlsIInv, SeededInv, NEW c \in TlsClients, Tls!ClientNext(c)
  PROVE  SeededInv'
<1>1. /\ obj[c] \in Tls!Objects /\ Whole(obj[c], tlsPc[c])
      /\ tlsPc \in [TlsClients -> Tls!Pcs]
  BY DEF TlsIInv, Tls!TypeOK, SeededInv
<1>2. CASE Tls!Construct(c)
  <2>1. /\ Tls!Blank \in Tls!Objects /\ ~Tls!Blank.ready /\ Tls!Blank.contexts = "none"
        /\ Tls!Blank.chain = FALSE /\ Tls!Blank.connected = FALSE
        /\ Tls!Blank.socket = -1 /\ ~Tls!MustVerify(Tls!Blank)
    BY DEF Tls!Blank, Tls!Objects, Tls!NoFd, Tls!MustVerify
  <2>2. PICK s \in Tls!Setups(Tls!Blank) : Tls!Become(c, s)
    BY <1>2 DEF Tls!Construct
  <2>3. Whole(s, "idle")
    BY <2>1, SetupsWhole
  <2>4. obj[c].fd \notin Fds
    BY <1>1, <1>2 DEF Whole, Tls!Construct
  <2>5. tlsPc' = [tlsPc EXCEPT ![c] = "idle"] /\ UNCHANGED owner
    BY <1>2 DEF Tls!Construct, Tls!Goto
  <2> QED  BY <2>2, <2>3, <2>4, <2>5, QuietSeeded
<1>3. ASSUME NEW parsed \in BOOLEAN, Tls!SetCACertificate(c, parsed) PROVE SeededInv'
  <2>1. PICK r \in Tls!Readied(obj[c]) : Tls!Become(c, Tls!Certified(r, parsed))
    BY <1>3 DEF Tls!SetCACertificate
  <2>2. tlsPc[c] = "idle" /\ tlsPc' = [tlsPc EXCEPT ![c] = "idle"] /\ UNCHANGED owner
    BY <1>1, <1>3 DEF Tls!SetCACertificate
  <2>3. r \in Tls!Objects /\ r.ready = TRUE /\ Whole(r, "idle")
    BY <1>1, <2>2, ReadiedWhole
  <2>4. /\ Tls!Certified(r, parsed).ready = TRUE
        /\ Tls!Certified(r, parsed).connected = r.connected
        /\ Tls!Certified(r, parsed).contexts = r.contexts
        /\ Tls!Certified(r, parsed).fd = r.fd
        /\ Tls!Certified(r, parsed).socket = r.socket
        /\ Tls!Certified(r, parsed).failed = ~parsed
        /\ parsed => Tls!Certified(r, parsed).chain
    BY <2>3 DEF Tls!Certified, Tls!Objects
  <2>5. Whole(Tls!Certified(r, parsed), "idle")
    BY <2>3, <2>4 DEF Whole, Tls!MustVerify
  <2>6. r.fd = obj[c].fd \/ obj[c].fd \notin Fds
    BY <1>1, <2>2 DEF Tls!Readied, Whole
  <2> QED  BY <2>1, <2>2, <2>4, <2>5, <2>6, QuietSeeded
<1>4. CASE Tls!RefuseChain(c)
  BY <1>4, ReleaseSeeded DEF Tls!RefuseChain
<1>5. CASE Tls!RefuseAddress(c)
  <2>1. CASE obj[c].ready
    BY <1>5, <2>1, ReleaseSeeded DEF Tls!RefuseAddress
  <2>2. CASE ~obj[c].ready
    BY <1>5, <2>2 DEF Tls!RefuseAddress, SeededInv, FdKept
  <2> QED  BY <2>1, <2>2
<1>6. CASE Tls!Connect(c)
  <2>1. PICK r \in Tls!Readied(Tls!AtConnect(c)) : Tls!Become(c, r)
    BY <1>6 DEF Tls!Connect
  <2>2. tlsPc[c] = "idle" /\ tlsPc' = [tlsPc EXCEPT ![c] = "connect"]
    BY <1>6 DEF Tls!Connect, Tls!Goto
  <2>3. CASE obj[c].connected
    <3> DEFINE o == Tls!Disconnected(obj[c])
    <3>1. o = Tls!AtConnect(c) /\ Tls!CloseOf(obj[c])
      BY <1>6, <2>3 DEF Tls!AtConnect, Tls!Connect, Tls!Hangup
    <3>2. /\ o \in Tls!Objects /\ o.connected = FALSE /\ Whole(o, "idle")
      BY <1>1, ReleasedFields, ReleasedWhole
    <3>3. Whole(r, "connect")
      <4> HIDE DEF o
      <4> QED  BY <2>1, <3>1, <3>2, ReadiedWhole
    <3>4. \A f \in Fds :
            owner'[f] = IF obj[c].ready /\ f = obj[c].fd THEN "free" ELSE owner[f]
      BY <3>1 DEF Tls!CloseOf, Tls!Free
    <3>5. \A f \in Fds : owner'[f] # c
      <4>1. ASSUME NEW f \in Fds, owner[f] = c PROVE obj[c].ready /\ f = obj[c].fd
        BY <1>1, <4>1 DEF SeededInv, FdKept, Whole
      <4> QED  BY <3>4, <4>1, ProgramConstants
    <3>6. \A f \in Fds, d \in TlsClients \ {c} : owner'[f] = d => owner[f] = d
      BY <3>4, ProgramConstants
    <3> QED  BY <2>1, <2>2, <3>3, <3>5, <3>6, LocalStep
  <2>4. CASE ~obj[c].connected
    <3>1. Tls!AtConnect(c) = obj[c] /\ UNCHANGED owner
      BY <1>6, <2>4 DEF Tls!AtConnect, Tls!Connect, Tls!Hangup
    <3>2. Whole(r, "connect")
      BY <1>1, <2>1, <2>2, <2>4, <3>1, ReadiedWhole
    <3>3. obj[c].fd \notin Fds
      BY <1>1, <2>2, <2>4 DEF Whole
    <3> QED  BY <2>1, <2>2, <3>1, <3>2, <3>3, QuietSeeded
  <2> QED  BY <2>3, <2>4
<1>7. CASE Tls!NetConnect(c)
  <2>1. PICK f \in Fds : /\ Tls!IsLowestFree(f)
                         /\ owner' = [owner EXCEPT ![f] = c]
                         /\ Tls!Become(c, [obj[c] EXCEPT !.fd = f])
    BY <1>7 DEF Tls!NetConnect
  <2> DEFINE o == [obj[c] EXCEPT !.fd = f]
  <2>2. tlsPc[c] = "connect" /\ tlsPc' = [tlsPc EXCEPT ![c] = "configure"]
    BY <1>7 DEF Tls!NetConnect, Tls!Goto
  <2>3. /\ o.fd = f /\ o.ready = obj[c].ready /\ o.contexts = obj[c].contexts
        /\ o.chain = obj[c].chain /\ o.loaded = obj[c].loaded /\ o.failed = obj[c].failed
        /\ o.connected = obj[c].connected /\ o.socket = obj[c].socket
    BY <1>1 DEF Tls!Objects
  <2>4. Whole(o, "configure")
    <3> HIDE DEF o
    <3> QED  BY <1>1, <2>2, <2>3 DEF Whole, Tls!MustVerify
  <2>5. \A g \in Fds : owner[g] # c
    BY <1>1, <2>2 DEF SeededInv, FdKept, Whole
  <2>6. /\ \A g \in Fds : owner'[g] = c => g = f
        /\ \A g \in Fds, d \in TlsClients \ {c} : owner'[g] = d => owner[g] = d
    BY <2>1, <2>5 DEF TlsIInv, Tls!TypeOK
  <2> HIDE DEF o
  <2>7. Tls!Become(c, o)
    BY <2>1 DEF o
  <2>8. \A g \in Fds : owner'[g] = c => o.fd = g
    BY <2>3, <2>6
  <2> QED  BY <2>2, <2>4, <2>6, <2>7, <2>8, LocalStep
<1>8. CASE Tls!Configure(c)
  <2> DEFINE v == Tls!MustVerify(obj[c])
             o == [obj[c] EXCEPT !.contexts = "setup", !.verify = v]
  <2>1. /\ tlsPc[c] = "configure" /\ tlsPc' = [tlsPc EXCEPT ![c] = "handshake"]
        /\ Tls!Become(c, o) /\ UNCHANGED owner
    BY <1>8 DEF Tls!Configure, Tls!Goto
  <2>2. /\ o.fd = obj[c].fd /\ o.ready = obj[c].ready /\ o.contexts = "setup"
        /\ o.chain = obj[c].chain /\ o.loaded = obj[c].loaded /\ o.failed = obj[c].failed
        /\ o.connected = obj[c].connected /\ o.socket = obj[c].socket
    <3> HIDE DEF v
    <3> QED  BY <1>1 DEF Tls!Objects
  <2> HIDE DEF o
  <2>3. Whole(o, "handshake")
    BY <1>1, <2>1, <2>2 DEF Whole, Tls!MustVerify
  <2> QED  BY <2>1, <2>2, <2>3, QuietSeeded
<1>9. CASE Tls!Handshake(c)
  <2> DEFINE o == [obj[c] EXCEPT !.connected = TRUE, !.socket = obj[c].fd]
  <2>1. /\ tlsPc[c] = "handshake" /\ tlsPc' = [tlsPc EXCEPT ![c] = "idle"]
        /\ Tls!Become(c, o) /\ UNCHANGED owner
    BY <1>9 DEF Tls!Handshake, Tls!Goto
  <2>2. /\ o.fd = obj[c].fd /\ o.ready = obj[c].ready /\ o.contexts = obj[c].contexts
        /\ o.chain = obj[c].chain /\ o.loaded = obj[c].loaded /\ o.failed = obj[c].failed
        /\ o.connected = TRUE
    BY <1>1 DEF Tls!Objects
  <2> HIDE DEF o
  <2>3. Whole(o, "idle")
    BY <1>1, <2>1, <2>2 DEF Whole, Tls!MustVerify
  <2> QED  BY <2>1, <2>2, <2>3, QuietSeeded
<1>10. CASE Tls!ConnectFails(c) \/ Tls!TransferFails(c) \/ Tls!Disconnect(c) \/ Tls!Destroy(c)
  BY <1>10, ReleaseSeeded
     DEF Tls!ConnectFails, Tls!TransferFails, Tls!Disconnect, Tls!Destroy
<1> QED
  BY <1>2, <1>3, <1>4, <1>5, <1>6, <1>7, <1>8, <1>9, <1>10 DEF Tls!ClientNext

LEMMA SeededNext ==
  ASSUME ~SeedMayFail
  PROVE  TlsIInv /\ SeededInv /\ [Tls!Next]_(Tls!vars) => SeededInv'
<1> SUFFICES ASSUME TlsIInv, SeededInv, [Tls!Next]_(Tls!vars) PROVE SeededInv'
  OBVIOUS
<1>1. ASSUME NEW c \in TlsClients, Tls!ClientNext(c) PROVE SeededInv'
  BY <1>1, ClientSeeded
<1>2. CASE Tls!OtherOpens
  BY <1>2, ProgramConstants DEF Tls!OtherOpens, TlsIInv, Tls!TypeOK, SeededInv, FdKept
<1>3. CASE Tls!OtherCloses
  BY <1>3, ProgramConstants
     DEF Tls!OtherCloses, Tls!Free, TlsIInv, Tls!TypeOK, SeededInv, FdKept
<1>4. CASE UNCHANGED Tls!vars
  BY <1>4 DEF Tls!vars, SeededInv, FdKept
<1> QED  BY <1>1, <1>2, <1>3, <1>4 DEF Tls!Next

LEMMA SeededInvariance ==
  ASSUME ~SeedMayFail
  PROVE  ProgramSpec => [](IInv /\ TlsIInv /\ SeededInv)
<1>1. Tls!Init => TlsIInv /\ SeededInv
  BY TlsInitIInv, SeededInit
<1>2. TlsIInv /\ SeededInv /\ [Tls!Next]_(Tls!vars) => TlsIInv' /\ SeededInv'
  BY TlsNextIInv, SeededNext
<1> QED  BY <1>1, <1>2, TlsUndisturbed, ProgramIInv, PTL DEF TlsAlone, Tls!Spec

\* When seeding does not fail, resourcesReady tells exactly whether there are
\* contexts to free, in any number of TLS clients.
THEOREM ReadyTrue ==
  ASSUME ~SeedMayFail
  PROVE  ProgramSpec => []ReadyIsTrue
<1>1. SeededInv => ReadyIsTrue
  BY DEF SeededInv, Whole, ReadyIsTrue, Tls!ReadyIsTrue
<1> QED  BY <1>1, SeededInvariance, PTL

\* And no way out of a TLS connection leaves a context bound to the old
\* configuration, or a descriptor.
THEOREM NoneHalfOpen ==
  ASSUME ~SeedMayFail
  PROVE  ProgramSpec => []NothingHalfOpen
<1>1. TlsIInv /\ SeededInv => NothingHalfOpen
  <2> SUFFICES ASSUME TlsIInv, SeededInv, NEW c \in TlsClients, ~Tls!InSession(c)
               PROVE  /\ obj[c].contexts # "setup"
                      /\ obj[c].fd = -1 /\ obj[c].socket = -1
                      /\ \A f \in Fds : owner[f] # c
    BY DEF NothingHalfOpen, Tls!NothingHalfOpen, Tls!NoFd
  <2>1. Whole(obj[c], tlsPc[c]) /\ obj[c].fd \in Fds \cup {-1}
    BY ObjectFields DEF SeededInv, TlsIInv, Tls!TypeOK
  <2>2. obj[c].fd \notin Fds /\ obj[c].contexts # "setup" /\ obj[c].socket = -1
    BY <2>1 DEF Whole, Tls!InSession
  <2> QED  BY <2>1, <2>2 DEF SeededInv, FdKept
<1> QED  BY <1>1, SeededInvariance, PTL

\* And a TLS connection that must verify has a chain to verify with.
THEOREM ChainThere ==
  ASSUME ~SeedMayFail
  PROVE  ProgramSpec => []ChainIsThere
<1>1. SeededInv => ChainIsThere
  BY DEF SeededInv, Whole, ChainIsThere, Tls!ChainIsThere
<1> QED  BY <1>1, SeededInvariance, PTL

----------------------------------------------------------------------------
(* All the clients keep to one lease. What a client relies on can be read  *)
(* off the descriptor table, before a step and after it, so that what the  *)
(* step does to the table tells what it does to the leases.                *)

LeasesExact ==
  /\ AllLeases \in [Clients \cup TlsClients -> Fds \cup {-1}]
  /\ \A d \in Clients \cup TlsClients, f \in Fds : owner[f] = d <=> AllLeases[d] = f

LEMMA LeasesAreExact == IInv /\ TlsIInv /\ SeededInv => LeasesExact
<1> SUFFICES ASSUME IInv, TlsIInv, SeededInv PROVE LeasesExact
  OBVIOUS
<1>1. ASSUME NEW d \in Clients
      PROVE  /\ AllLeases[d] \in Fds \cup {-1}
             /\ \A f \in Fds : owner[f] = d <=> AllLeases[d] = f
  <2>1. AllLeases[d] = IF Relies(d) THEN socket[d] ELSE -1
    BY DEF AllLeases, lease, NoSocket
  <2> QED  BY <2>1, ProgramConstants DEF IInv, FlagsAgree, OwnsWhatItUses
<1>2. ASSUME NEW d \in TlsClients
      PROVE  /\ AllLeases[d] \in Fds \cup {-1}
             /\ \A f \in Fds : owner[f] = d <=> AllLeases[d] = f
  <2>1. d \notin Clients
    BY ProgramConstants
  <2>2. AllLeases[d] = IF Tls!InSession(d) THEN obj[d].fd ELSE -1
    BY <2>1 DEF AllLeases, Tls!lease, Tls!NoFd
  <2>3. Whole(obj[d], tlsPc[d]) /\ obj[d].fd \in Fds \cup {-1}
    BY ObjectFields DEF SeededInv, TlsIInv, Tls!TypeOK
  <2>4. AllLeases[d] = obj[d].fd
    BY <2>2, <2>3 DEF Whole, Tls!InSession
  <2> QED  BY <2>3, <2>4 DEF SeededInv, FdKept, TlsIInv, FdIsOwn
<1>3. AllLeases = [d \in Clients \cup TlsClients |-> AllLeases[d]]
  BY DEF AllLeases
<1> QED  BY <1>1, <1>2, <1>3 DEF LeasesExact

\* Where the table keeps what it says of a client, so does the lease.
LEMMA LeaseReadOff ==
  ASSUME LeasesExact, LeasesExact', NEW d \in Clients \cup TlsClients,
         \A f \in Fds : owner'[f] = d <=> owner[f] = d
  PROVE  AllLeases'[d] = AllLeases[d]
<1>1. AllLeases[d] \in Fds \cup {-1} /\ AllLeases'[d] \in Fds \cup {-1}
  BY DEF LeasesExact
<1>2. \A f \in Fds : AllLeases'[d] = f <=> AllLeases[d] = f
  BY DEF LeasesExact
<1> QED  BY <1>1, <1>2, ProgramConstants

LEMMA OwnStepLease ==
  ASSUME LeasesExact, LeasesExact', NEW c \in Clients \cup TlsClients, OwnStep(c),
         owner \in [Fds -> Clients \cup Others \cup {"free"}]
  PROVE  Joint!LeaseNext \/ UNCHANGED Joint!leaseVars
<1> DEFINE All == Clients \cup TlsClients
<1>1. /\ AllLeases \in [All -> Fds \cup {-1}] /\ AllLeases' \in [All -> Fds \cup {-1}]
      /\ "free" \notin All /\ -1 \notin Fds
  BY ProgramConstants DEF LeasesExact
<1>2. CASE UNCHANGED owner
  <2>1. \A d \in All : AllLeases'[d] = AllLeases[d]
    BY <1>2, LeaseReadOff
  <2>2. AllLeases' = AllLeases
    BY <1>1, <2>1
  <2> QED  BY <1>2, <2>2 DEF Joint!leaseVars
<1>3. ASSUME NEW f \in Fds, owner[f] = c, owner' = [owner EXCEPT ![f] = "free"]
      PROVE  Joint!Give(c)
  <2>1. AllLeases[c] = f
    BY <1>3 DEF LeasesExact
  <2>2. \A d \in All \ {c} : AllLeases'[d] = AllLeases[d]
    <3>1. \A d \in All \ {c}, g \in Fds : owner'[g] = d <=> owner[g] = d
      BY <1>1, <1>3
    <3> QED  BY <3>1, LeaseReadOff
  <2>3. \A g \in Fds : owner'[g] # c
    BY <1>1, <1>3, <2>1 DEF LeasesExact
  <2>4. AllLeases'[c] = -1
    BY <1>1, <2>3 DEF LeasesExact
  <2>5. AllLeases' = [AllLeases EXCEPT ![c] = -1]
    BY <1>1, <2>2, <2>4
  <2> QED  BY <1>3, <2>1, <2>5 DEF Joint!Give, Joint!Free, Joint!None
<1>4. ASSUME NEW f \in Fds, owner[f] = "free", owner' = [owner EXCEPT ![f] = c]
      PROVE  Joint!Take(c, f)
  <2>1. owner'[f] = c /\ \A g \in Fds \ {f} : owner'[g] = owner[g]
    BY <1>4
  <2>2. AllLeases'[c] = f
    BY <2>1 DEF LeasesExact
  <2>3. \A g \in Fds : owner[g] # c
    BY <1>1, <1>4, <2>1, <2>2 DEF LeasesExact
  <2>4. AllLeases[c] = -1
    BY <1>1, <2>3 DEF LeasesExact
  <2>5. \A d \in All \ {c} : AllLeases'[d] = AllLeases[d]
    <3>1. \A d \in All \ {c}, g \in Fds : owner'[g] = d <=> owner[g] = d
      BY <1>1, <1>4, <2>1
    <3> QED  BY <3>1, LeaseReadOff
  <2>6. AllLeases' = [AllLeases EXCEPT ![c] = f]
    BY <1>1, <2>2, <2>5
  <2> QED  BY <1>4, <2>4, <2>6 DEF Joint!Take, Joint!Free, Joint!None
<1> QED  BY <1>2, <1>3, <1>4 DEF OwnStep, IsLowestFree, Free, Joint!LeaseNext

LEMMA JointNext ==
  ASSUME IInv, TlsIInv, LeasesExact, LeasesExact', [ProgramNext]_programVars
  PROVE  Joint!LeaseNext \/ UNCHANGED Joint!leaseVars
<1>1. owner \in [Fds -> Clients \cup Others \cup {"free"}]
  BY DEF IInv, TypeOK, Free
<1>2. ASSUME NEW c \in Clients, ClientNext(c)
      PROVE  Joint!LeaseNext \/ UNCHANGED Joint!leaseVars
  BY <1>1, <1>2, PlainOwnStep, OwnStepLease
<1>3. ASSUME NEW c \in TlsClients, Tls!ClientNext(c)
      PROVE  Joint!LeaseNext \/ UNCHANGED Joint!leaseVars
  BY <1>1, <1>3, TlsClientIInv, OwnStepLease
<1>4. ASSUME \A d \in Clients \cup TlsClients, f \in Fds : owner'[f] = d <=> owner[f] = d
      PROVE  AllLeases' = AllLeases
  <2>1. \A d \in Clients \cup TlsClients : AllLeases'[d] = AllLeases[d]
    BY <1>4, LeaseReadOff
  <2> QED  BY <2>1 DEF LeasesExact
<1>5. ASSUME NEW f \in Fds, NEW other \in Others \ TlsClients, owner[f] = "free",
             owner' = [owner EXCEPT ![f] = other]
      PROVE  Joint!OtherTake(f)
  <2>1. AllLeases' = AllLeases
    BY <1>1, <1>4, <1>5, ProgramConstants, ClientAssumption
  <2> QED  BY <1>5, <2>1 DEF Joint!OtherTake, Joint!Free
<1>6. ASSUME NEW f \in Fds, owner[f] \in Others \ TlsClients,
             owner' = [owner EXCEPT ![f] = "free"]
      PROVE  Joint!OtherGive(f)
  <2>1. AllLeases' = AllLeases
    BY <1>1, <1>4, <1>6, ProgramConstants, ClientAssumption
  <2> QED  BY <1>6, <2>1 DEF Joint!OtherGive, Joint!Free
<1>7. CASE Rest!OtherOpens
  BY <1>5, <1>7 DEF Rest!OtherOpens, Rest!IsLowestFree, Rest!Free, Joint!LeaseNext
<1>8. CASE Rest!OtherCloses
  BY <1>6, <1>8 DEF Rest!OtherCloses, Rest!Free, Joint!LeaseNext
<1>9. CASE UNCHANGED programVars
  <2>1. owner' = owner
    BY <1>9 DEF programVars
  <2> QED  BY <1>4, <2>1 DEF Joint!leaseVars
<1> QED  BY <1>2, <1>3, <1>7, <1>8, <1>9 DEF ProgramNext

LEMMA JointInit == ProgramInit => Joint!LeaseInit
<1> SUFFICES ASSUME ProgramInit PROVE Joint!LeaseInit
  OBVIOUS
<1>1. \A d \in Clients : lease[d] = -1
  BY DEF ProgramInit, Init, lease, Relies, NoSocket
<1>2. \A d \in TlsClients : Tls!lease[d] = -1
  BY DEF ProgramInit, Tls!Init, Tls!Blank, Tls!lease, Tls!InSession, Tls!NoFd
<1>3. AllLeases = [d \in Clients \cup TlsClients |-> -1]
  BY <1>1, <1>2 DEF AllLeases
<1> QED  BY <1>3 DEF ProgramInit, Init, Free, Joint!LeaseInit, Joint!Free, Joint!None

\* When seeding does not fail, all the clients of a program, plain and TLS,
\* implement one descriptor lease: no descriptor is used that was given back,
\* none is taken from another client, none is lost.
THEOREM OneLease ==
  ASSUME ~SeedMayFail
  PROVE  ProgramSpec => LeasesKept
<1>1. ProgramInit => Joint!LeaseInit
  BY JointInit
<1>2. IInv /\ TlsIInv /\ SeededInv => LeasesExact
  BY LeasesAreExact
<1>3. IInv /\ TlsIInv /\ LeasesExact /\ LeasesExact' /\ [ProgramNext]_programVars
        => [Joint!LeaseNext]_(Joint!leaseVars)
  BY JointNext
<1> QED
  BY <1>1, <1>2, <1>3, SeededInvariance, PTL DEF ProgramSpec, LeasesKept, Joint!LeaseSpec
=============================================================================
