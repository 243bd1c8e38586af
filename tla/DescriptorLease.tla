-------------------------- MODULE DescriptorLease --------------------------
(***************************************************************************)
(* What a socket client owes the process it lives in, whatever protocol it *)
(* speaks: it takes a descriptor nobody holds, holds at most one, and      *)
(* gives back the very descriptor it took.  The rest of the program opens  *)
(* and closes descriptors of the same table all the while.                 *)
(***************************************************************************)
EXTENDS Integers

CONSTANTS Clients,
          Others,  \* the other parts of the program
          Fds

Free == "free"  \* the descriptor is closed
None == -1      \* a client that holds no descriptor

\* What the constants must be; modules that implement the lease assume it.
LeaseAssumption ==
  Fds \subseteq Nat /\ Free \notin Clients \cup Others /\ Clients \cap Others = {}

VARIABLES owner,  \* the process's descriptor table
          lease   \* the descriptor each client relies on

leaseVars == <<owner, lease>>

LeaseTypeOK ==
  /\ owner \in [Fds -> Clients \cup Others \cup {Free}]
  /\ lease \in [Clients -> Fds \cup {None}]

LeaseInit ==
  /\ owner = [f \in Fds |-> Free]
  /\ lease = [c \in Clients |-> None]

Take(c, f) ==
  /\ lease[c] = None /\ owner[f] = Free
  /\ owner' = [owner EXCEPT ![f] = c]
  /\ lease' = [lease EXCEPT ![c] = f]

Give(c) ==
  /\ lease[c] \in Fds
  /\ owner' = [owner EXCEPT ![lease[c]] = Free]
  /\ lease' = [lease EXCEPT ![c] = None]

OtherTake(f) ==
  /\ owner[f] = Free
  /\ \E other \in Others : owner' = [owner EXCEPT ![f] = other]
  /\ UNCHANGED lease

OtherGive(f) ==
  /\ owner[f] \in Others
  /\ owner' = [owner EXCEPT ![f] = Free]
  /\ UNCHANGED lease

LeaseNext ==
  \/ \E c \in Clients : Give(c) \/ \E f \in Fds : Take(c, f)
  \/ \E f \in Fds : OtherTake(f) \/ OtherGive(f)

LeaseSpec == LeaseInit /\ [][LeaseNext]_leaseVars

\* A descriptor is open for a client exactly while that client relies on it:
\* none is used after it was given back, and none is lost.
LeaseExact ==
  \A c \in Clients, f \in Fds : owner[f] = c <=> lease[c] = f
=============================================================================
