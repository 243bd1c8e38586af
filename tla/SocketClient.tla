---------------------------- MODULE SocketClient ----------------------------
(***************************************************************************)
(* Life cycle of BriandIDFSocketClient objects, each used by a task of its *)
(* own, over the one descriptor table of the process.  Every system call   *)
(* is a step, since another task can be given a number between close and   *)
(* the assignment that follows it.                                         *)
(***************************************************************************)
EXTENDS Integers

CONSTANTS Clients,
          Others,  \* the other parts of the program that open descriptors
          Fds

ASSUME ClientAssumption ==
  /\ Fds \subseteq Nat
  /\ "free" \notin Clients \cup Others /\ Clients \cap Others = {}

Free == "free"
\* Mutant: the number of standard input stands for no socket.
ZeroSocket == 0

NoSocket == -1

VARIABLES
  connected,  \* CONNECTED of each object
  socket,     \* _socket of each object, kept after the descriptor is closed
  pc,         \* where the object's task is
  after,      \* where it goes once Disconnect returns
  owner       \* the process's descriptor table

vars == <<connected, socket, pc, after, owner>>

Pcs == {"idle", "hangup", "lookup", "open", "dial", "abandon", "dead"}

----------------------------------------------------------------------------
(* The system calls.                                                       *)

\* socket() returns the lowest number that is free.
IsLowestFree(f) ==
  owner[f] = Free /\ \A g \in Fds : owner[g] = Free => f <= g

\* close() frees the number, whoever has it; on a closed one it fails.
Close(fd) == owner' = [f \in Fds |-> IF f = fd THEN Free ELSE owner[f]]

----------------------------------------------------------------------------
(* The methods.                                                            *)

Goto(c, label) == pc' = [pc EXCEPT ![c] = label]

\* Disconnect, called by itself, by Connect or by the destructor: nothing to
\* do unless connected; otherwise shutdown and close, then the flag.
Disconnect(c, label) ==
  IF connected[c]
  THEN /\ Close(socket[c])
       /\ Goto(c, "hangup")
       /\ after' = [after EXCEPT ![c] = label]
       /\ UNCHANGED <<connected, socket>>
  ELSE /\ Goto(c, label)
       /\ UNCHANGED <<connected, socket, after, owner>>

Connected(c) == connected' = [connected EXCEPT ![c] = TRUE]
\* Mutant: Disconnect forgets the flag.
StillConnected(c) == UNCHANGED connected

Disconnected(c) == connected' = [connected EXCEPT ![c] = FALSE]

DisconnectDone(c) ==
  /\ pc[c] = "hangup"
  /\ Disconnected(c)
  /\ Goto(c, after[c])
  /\ UNCHANGED <<socket, after, owner>>

CallDisconnect(c) == pc[c] = "idle" /\ Disconnect(c, "idle")

\* Connect(host) looks the name up, Connect(address) opens at once; both
\* first leave the connection they find.
CallConnect(c, first) == pc[c] = "idle" /\ Disconnect(c, first)

Lookup(c) ==
  /\ pc[c] = "lookup"
  /\ Goto(c, "open") \/ Goto(c, "idle")
  /\ UNCHANGED <<connected, socket, after, owner>>

Open(c) ==
  /\ pc[c] = "open"
  /\ \/ \E f \in Fds :
          /\ IsLowestFree(f)
          /\ owner' = [owner EXCEPT ![f] = c]
          /\ socket' = [socket EXCEPT ![c] = f]
          /\ Goto(c, "dial")
     \/ /\ socket' = [socket EXCEPT ![c] = NoSocket]
        /\ Goto(c, "idle")
        /\ UNCHANGED owner
  /\ UNCHANGED <<connected, after>>

DialSucceeds(c) ==
  /\ pc[c] = "dial"
  /\ Connected(c)
  /\ Goto(c, "idle")
  /\ UNCHANGED <<socket, after, owner>>

\* Mutant: Connect returns without closing what it opened.
DialFailsOpen(c) ==
  /\ pc[c] = "dial"
  /\ Goto(c, "idle")
  /\ UNCHANGED <<connected, socket, after, owner>>

DialFails(c) ==
  /\ pc[c] = "dial"
  /\ Goto(c, "abandon")
  /\ UNCHANGED <<connected, socket, after, owner>>

\* _socket keeps the number it closes.
Abandon(c) ==
  /\ pc[c] = "abandon"
  /\ Close(socket[c])
  /\ Goto(c, "idle")
  /\ UNCHANGED <<connected, socket, after>>

Destroy(c) == pc[c] = "idle" /\ Disconnect(c, "dead")

Construct(c) ==
  /\ pc[c] = "dead"
  /\ connected' = [connected EXCEPT ![c] = FALSE]
  /\ socket' = [socket EXCEPT ![c] = NoSocket]
  /\ Goto(c, "idle")
  /\ UNCHANGED <<after, owner>>

----------------------------------------------------------------------------
(* The rest of the program.                                                *)

OtherOpens ==
  /\ \E f \in Fds, other \in Others :
        IsLowestFree(f) /\ owner' = [owner EXCEPT ![f] = other]
  /\ UNCHANGED <<connected, socket, pc, after>>

OtherCloses ==
  /\ \E f \in Fds : owner[f] \in Others /\ owner' = [owner EXCEPT ![f] = Free]
  /\ UNCHANGED <<connected, socket, pc, after>>

----------------------------------------------------------------------------

Init ==
  /\ connected = [c \in Clients |-> FALSE]
  /\ socket = [c \in Clients |-> NoSocket]
  /\ pc = [c \in Clients |-> "idle"]
  /\ after = [c \in Clients |-> "idle"]
  /\ owner = [f \in Fds |-> Free]

ClientNext(c) ==
  \/ CallDisconnect(c) \/ DisconnectDone(c)
  \/ CallConnect(c, "lookup") \/ CallConnect(c, "open")
  \/ Lookup(c) \/ Open(c)
  \/ DialSucceeds(c) \/ DialFails(c) \/ Abandon(c)
  \/ Destroy(c) \/ Construct(c)

Next == (\E c \in Clients : ClientNext(c)) \/ OtherOpens \/ OtherCloses

Spec == Init /\ [][Next]_vars

----------------------------------------------------------------------------
(* Properties.                                                             *)

\* The object relies on the number in _socket being its own.
Relies(c) ==
  \/ pc[c] \in {"dial", "abandon"}
  \/ connected[c] /\ pc[c] # "hangup"

\* Types of the fields, the tasks' places and the descriptor table.
TypeOK ==
  /\ connected \in [Clients -> BOOLEAN]
  /\ socket \in [Clients -> Fds \cup {-1}]
  /\ pc \in [Clients -> Pcs]
  /\ after \in [Clients -> {"idle", "lookup", "open", "dead"}]
  /\ owner \in [Fds -> Clients \cup Others \cup {Free}]

\* Every descriptor a client relies on is open and its own, and it has no
\* other open: no read, write or close of an object ever reaches a descriptor
\* the process has given to someone else, and no way out of Connect,
\* Disconnect or the destructor leaves one behind.
OwnsWhatItUses ==
  \A c \in Clients, f \in Fds : owner[f] = c <=> Relies(c) /\ socket[c] = f

\* The clients keep to the descriptor lease.
lease == [c \in Clients |-> IF Relies(c) THEN socket[c] ELSE NoSocket]

L == INSTANCE DescriptorLease WITH lease <- lease

LeaseKept == L!LeaseSpec
=============================================================================
