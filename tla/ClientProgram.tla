--------------------------- MODULE ClientProgram ---------------------------
(***************************************************************************)
(* A program that uses plain and TLS clients at once, each object in a     *)
(* task of its own.  The two kinds share nothing but the descriptor table  *)
(* of the process, where each is a stranger to the other: Clients are the  *)
(* plain ones, and the TLS ones are among the Others.                      *)
(***************************************************************************)
EXTENDS SocketClient

CONSTANTS TlsClients, SeedMayFail

ASSUME ProgramAssumption == TlsClients \subseteq Others /\ SeedMayFail \in BOOLEAN

VARIABLES obj, tlsPc, given  \* the fields, places and chains of the TLS clients

plainVars == <<connected, socket, pc, after>>
tlsVars == <<obj, tlsPc, given>>
programVars == <<plainVars, tlsVars, owner>>

Tls == INSTANCE TlsClient
         WITH Clients <- TlsClients, Others <- (Others \ TlsClients) \cup Clients,
              pc <- tlsPc

\* The rest of the program: neither kind.
Rest == INSTANCE SocketClient WITH Others <- Others \ TlsClients

ProgramInit == Init /\ Tls!Init

ProgramNext ==
  \/ \E c \in Clients : ClientNext(c) /\ UNCHANGED tlsVars
  \/ \E c \in TlsClients : Tls!ClientNext(c) /\ UNCHANGED plainVars
  \/ Rest!OtherOpens /\ UNCHANGED tlsVars
  \/ Rest!OtherCloses /\ UNCHANGED tlsVars

ProgramSpec == ProgramInit /\ [][ProgramNext]_programVars

----------------------------------------------------------------------------
(* Properties.                                                             *)

\* Types of the TLS clients' fields and places.
TlsTypeOK == Tls!TypeOK

\* To the plain clients the TLS ones are only more of the rest of the program:
\* none of their releases, failed or nested, closes a descriptor of a plain
\* client, and what is proved of SocketClient holds in this program.
PlainAlone == Spec

\* And the other way round: no Disconnect or failed Connect of a plain client
\* closes a descriptor of a TLS client.
TlsAlone == Tls!Spec

\* The resources of a TLS client are there exactly when its flag says so.
ReadyIsTrue == Tls!ReadyIsTrue

\* Every way out of a TLS connection leaves the object fit for the next one.
NothingHalfOpen == Tls!NothingHalfOpen

\* A TLS connection that must verify has a chain to verify with.
ChainIsThere == Tls!ChainIsThere

\* All the clients of the program, plain and TLS, keep to one descriptor lease.
AllLeases ==
  [c \in Clients \cup TlsClients |-> IF c \in Clients THEN lease[c] ELSE Tls!lease[c]]

Joint == INSTANCE DescriptorLease
           WITH Clients <- Clients \cup TlsClients, Others <- Others \ TlsClients,
                lease <- AllLeases

LeasesKept == Joint!LeaseSpec
=============================================================================
