----------------------------- MODULE TlsClient -----------------------------
(***************************************************************************)
(* Life cycle of BriandIDFSocketTlsClient objects, each used by a task of  *)
(* its own: the mbedTLS contexts, the certificate chain flags and the      *)
(* descriptor.  Methods that free resources recurse (ReleaseResources      *)
(* calls Disconnect, which calls ReleaseResources); an object's fields are *)
(* one record, the recursion is composition of functions on it, and a step *)
(* ends where the object waits for the network.                            *)
(***************************************************************************)
EXTENDS Integers

CONSTANTS Clients,
          Others,       \* the other parts of the program that open descriptors
          Fds,
          SeedMayFail   \* whether mbedtls_ctr_drbg_seed may fail

\* What the constants must be.
TlsAssumption ==
  /\ Fds \subseteq Nat
  /\ "free" \notin Clients \cup Others /\ Clients \cap Others = {}
  /\ SeedMayFail \in BOOLEAN

Free == "free"
\* Mutant: the number of standard input stands for no descriptor.
ZeroFd == 0

NoFd == -1

VARIABLES
  obj,     \* the fields of each object
  pc,      \* where the object's task is
  given,   \* history: whether the application gave the object a chain that
           \* parsed, and whether a Connect has failed since; forgotten when
           \* the application disconnects or destroys the object
  owner    \* the process's descriptor table

vars == <<obj, pc, given, owner>>

\* ready, loaded, failed, connected: the flags of the object.  contexts: the
\* mbedTLS contexts are "none" (never initialised, or freed), "init" or "setup"
\* (bound to a configuration).  chain: cacert holds a parsed certificate.
\* verify: the session was configured to require a valid certificate.
\* fd: tls_socket.fd.  socket: _socket.
Objects ==
  [ready : BOOLEAN, loaded : BOOLEAN, failed : BOOLEAN, connected : BOOLEAN,
   contexts : {"none", "init", "setup"}, chain : BOOLEAN, verify : BOOLEAN,
   fd : Fds \cup {-1}, socket : Fds \cup {-1}]

Pcs == {"idle", "connect", "configure", "handshake", "dead"}

----------------------------------------------------------------------------
(* Methods as functions on the fields.                                     *)

\* Mutant: the flag survives the release.
FreedButReady(o) ==
  IF o.ready
  THEN [o EXCEPT !.contexts = "none", !.chain = FALSE, !.verify = FALSE, !.fd = NoFd]
  ELSE o

\* Mutant: neither the flag nor the number is reset, so the next release closes
\* the number again.
FreedAgain(o) == [o EXCEPT !.contexts = "none", !.chain = FALSE, !.verify = FALSE]

\* The guarded part of ReleaseResources; mbedtls_net_free closes fd.
Freed(o) ==
  IF o.ready
  THEN [o EXCEPT !.ready = FALSE, !.contexts = "none", !.chain = FALSE,
                 !.verify = FALSE, !.fd = NoFd]
  ELSE o

\* Mutant: the chain flags survive the release.
NotForgotten(o) == o

Forgotten(o) == [o EXCEPT !.loaded = FALSE, !.failed = TRUE]

\* Mutant: the contexts survive the release.
ClearedUnfreed(o) == [Forgotten(o) EXCEPT !.socket = NoFd]

\* ReleaseResources on an object that is not connected.
Cleared(o) == [Freed(Forgotten(o)) EXCEPT !.socket = NoFd]

\* Disconnect: the notification first, then ReleaseResources in each case.
Hung(o) == IF o.connected THEN [o EXCEPT !.connected = FALSE, !.socket = NoFd] ELSE o
Disconnected(o) == Cleared(Hung(o))

\* ReleaseResources: Disconnect if connected, then its own part.
Released(o) == Cleared(IF o.connected THEN Disconnected(o) ELSE o)

\* SetupResources: the contexts are initialised, whatever they held; when the
\* generator cannot be seeded ReleaseResources is called with ready unset.
Initialised(o) == [o EXCEPT !.ready = FALSE, !.contexts = "init", !.chain = FALSE,
                            !.verify = FALSE, !.fd = NoFd]
Setups(o) ==
  {[Initialised(o) EXCEPT !.ready = TRUE]}
    \cup IF SeedMayFail THEN {Released(Initialised(o))} ELSE {}

\* The object a method starts from when it needs the resources.
Readied(o) == IF o.ready THEN {o} ELSE Setups(o)

\* SetCACertificateChainPEM and AddCACertificateToChainDER: the outcome of the
\* last parse decides, a certificate that parsed stays in cacert.
Certified(o, parsed) ==
  [o EXCEPT !.loaded = TRUE, !.failed = ~parsed, !.chain = o.chain \/ parsed]

MustVerify(o) == o.loaded /\ ~o.failed

\* The constructor, before SetupResources.
Blank == [ready |-> FALSE, loaded |-> FALSE, failed |-> TRUE, connected |-> FALSE,
          contexts |-> "none", chain |-> FALSE, verify |-> FALSE, fd |-> NoFd,
          socket |-> NoFd]

----------------------------------------------------------------------------
(* Steps.                                                                  *)

Become(c, o) == obj' = [obj EXCEPT ![c] = o]
Goto(c, label) == pc' = [pc EXCEPT ![c] = label]

\* Mutant: the context is freed and its descriptor stays open.
NotClosed(o) == UNCHANGED owner

\* The descriptor of o is closed when the step leaves the object without it
\* by mbedtls_net_free; mbedtls_net_init only overwrites the number.
CloseOf(o) ==
  owner' = [f \in Fds |-> IF o.ready /\ f = o.fd THEN Free ELSE owner[f]]

\* The step ends in ReleaseResources (through Disconnect or not).
Release(c, label) ==
  /\ Become(c, Released(obj[c]))
  /\ CloseOf(obj[c])
  /\ Goto(c, label)

Construct(c) ==
  /\ pc[c] = "dead"
  /\ \E o \in Setups(Blank) : Become(c, o)
  /\ Goto(c, "idle")
  /\ UNCHANGED <<given, owner>>

SetCACertificate(c, parsed) ==
  /\ pc[c] = "idle"
  /\ \E o \in Readied(obj[c]) : Become(c, Certified(o, parsed))
  /\ given' = [given EXCEPT ![c] = IF parsed THEN "given" ELSE @]
  /\ UNCHANGED <<pc, owner>>

\* Connect: the old connection is closed; a chain that failed refuses the call
\* and is forgotten; otherwise the resources are set up if there are none, and
\* the outcome of that is not looked at.
AtConnect(c) == IF obj[c].connected THEN Disconnected(obj[c]) ELSE obj[c]
Hangup(c) == IF obj[c].connected THEN CloseOf(obj[c]) ELSE UNCHANGED owner

RefuseChain(c) ==
  /\ pc[c] = "idle"
  /\ AtConnect(c).loaded /\ AtConnect(c).failed
  /\ Release(c, "idle")
  /\ UNCHANGED given

Connect(c) ==
  /\ pc[c] = "idle"
  /\ ~(AtConnect(c).loaded /\ AtConnect(c).failed)
  /\ \E o \in Readied(AtConnect(c)) : Become(c, o)
  /\ Hangup(c)
  /\ Goto(c, "connect")
  /\ UNCHANGED given

\* Connect(address) with an address that has no text form.
RefuseAddress(c) ==
  /\ pc[c] = "idle"
  /\ IF obj[c].ready THEN Release(c, "idle") ELSE UNCHANGED <<obj, pc, owner>>
  /\ UNCHANGED given

IsLowestFree(f) ==
  owner[f] = Free /\ \A g \in Fds : owner[g] = Free => f <= g

\* mbedtls_net_connect succeeds
NetConnect(c) ==
  /\ pc[c] = "connect"
  /\ \E f \in Fds : /\ IsLowestFree(f)
                    /\ owner' = [owner EXCEPT ![f] = c]
                    /\ Become(c, [obj[c] EXCEPT !.fd = f])
  /\ Goto(c, "configure")
  /\ UNCHANGED given

Configure(c) ==
  /\ pc[c] = "configure"
  /\ Become(c, [obj[c] EXCEPT !.contexts = "setup", !.verify = MustVerify(obj[c])])
  /\ Goto(c, "handshake")
  /\ UNCHANGED <<given, owner>>

\* A session that requires a valid certificate needs a chain to check it with.
Handshake(c) ==
  /\ pc[c] = "handshake"
  /\ obj[c].verify => obj[c].chain
  /\ Become(c, [obj[c] EXCEPT !.connected = TRUE, !.socket = obj[c].fd])
  /\ Goto(c, "idle")
  /\ UNCHANGED <<given, owner>>

\* Each step of Connect may fail, a handshake in the certificate check too.
ConnectFails(c) ==
  /\ pc[c] \in {"connect", "configure", "handshake"}
  /\ Release(c, "idle")
  /\ given' = [given EXCEPT ![c] = IF @ = "no" THEN "no" ELSE "failed"]

\* WriteData, ReadData and ReadDataUntil disconnect on an error.
TransferFails(c) ==
  /\ pc[c] = "idle" /\ obj[c].connected
  /\ Release(c, "idle")
  /\ UNCHANGED given

Disconnect(c) ==
  /\ pc[c] = "idle"
  /\ Release(c, "idle")
  /\ given' = [given EXCEPT ![c] = "no"]

Destroy(c) ==
  /\ pc[c] = "idle"
  /\ Release(c, "dead")
  /\ given' = [given EXCEPT ![c] = "no"]

OtherOpens ==
  /\ \E f \in Fds, other \in Others :
        IsLowestFree(f) /\ owner' = [owner EXCEPT ![f] = other]
  /\ UNCHANGED <<obj, pc, given>>

OtherCloses ==
  /\ \E f \in Fds : owner[f] \in Others /\ owner' = [owner EXCEPT ![f] = Free]
  /\ UNCHANGED <<obj, pc, given>>

----------------------------------------------------------------------------

\* No object has been constructed yet.
Init ==
  /\ obj = [c \in Clients |-> Blank]
  /\ pc = [c \in Clients |-> "dead"]
  /\ given = [c \in Clients |-> "no"]
  /\ owner = [f \in Fds |-> Free]

ClientNext(c) ==
  \/ Construct(c)
  \/ \E parsed \in BOOLEAN : SetCACertificate(c, parsed)
  \/ RefuseChain(c) \/ RefuseAddress(c)
  \/ Connect(c) \/ NetConnect(c) \/ Configure(c) \/ Handshake(c) \/ ConnectFails(c)
  \/ TransferFails(c)
  \/ Disconnect(c) \/ Destroy(c)

Next == (\E c \in Clients : ClientNext(c)) \/ OtherOpens \/ OtherCloses

Spec == Init /\ [][Next]_vars

----------------------------------------------------------------------------
(* Properties.                                                             *)

\* Types of the fields, the tasks' places and the descriptor table.
TypeOK ==
  /\ obj \in [Clients -> Objects]
  /\ pc \in [Clients -> Pcs]
  /\ given \in [Clients -> {"no", "given", "failed"}]
  /\ owner \in [Fds -> Clients \cup Others \cup {Free}]

InSession(c) == obj[c].connected \/ pc[c] \in {"configure", "handshake"}

\* resourcesReady tells exactly whether there are contexts to free, the flag
\* the guarded part of ReleaseResources trusts; and a destroyed object has none.
ReadyIsTrue ==
  \A c \in Clients : /\ obj[c].ready <=> obj[c].contexts # "none"
                     /\ pc[c] = "dead" => ~obj[c].ready

\* Every way out of a connection (each failing step of Connect, an error of a
\* transfer, Disconnect, the destructor) leaves the object fit for the next
\* one: no context bound to the old configuration, no descriptor.
NothingHalfOpen ==
  \A c \in Clients : ~InSession(c) =>
    /\ obj[c].contexts # "setup"
    /\ obj[c].fd = NoFd /\ obj[c].socket = NoFd
    /\ \A f \in Fds : owner[f] # c

\* The flags never promise a certificate that cacert does not hold: a
\* connection that must verify has something to verify with.
ChainIsThere ==
  \A c \in Clients : MustVerify(obj[c]) => obj[c].chain

\* The clients keep to the descriptor lease.
lease == [c \in Clients |-> IF InSession(c) THEN obj[c].fd ELSE NoFd]

L == INSTANCE DescriptorLease WITH lease <- lease

LeaseKept == L!LeaseSpec

----------------------------------------------------------------------------
(* What the documentation says and the code does not do.                   *)

\* "if provided will be always verified": when a Connect failed after the
\* certificate was provided, the session a later Connect opens verifies all the
\* same.  (A certificate given to a session already open is not meant.)
GivenChainVerified ==
  \A c \in Clients : obj[c].connected /\ given[c] = "failed" => obj[c].verify
=============================================================================
