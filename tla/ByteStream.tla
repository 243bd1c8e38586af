----------------------------- MODULE ByteStream -----------------------------
(***************************************************************************)
(* What a connection promises the application that reads from it, whatever *)
(* the protocol: every call returns the next bytes of what the peer sent,  *)
(* so that all it was ever given is the beginning of the stream, and       *)
(* nothing is given after the connection was closed.                       *)
(***************************************************************************)
EXTENDS Integers, SequencesExt

VARIABLES
  sent,  \* every byte the peer has sent
  got,   \* every byte the application was given
  open   \* whether the client is connected

streamVars == <<sent, got, open>>

StreamInit == sent = <<>> /\ got = <<>> /\ open = TRUE

PeerSends ==
  /\ IsStrictPrefix(sent, sent')
  /\ UNCHANGED <<got, open>>

Deliver ==
  /\ open
  /\ \E n \in 1..(Len(sent) - Len(got)) : got' = SubSeq(sent, 1, Len(got) + n)
  /\ UNCHANGED <<sent, open>>

Close ==
  /\ open
  /\ open' = FALSE
  /\ UNCHANGED <<sent, got>>

StreamNext == PeerSends \/ Deliver \/ Close

StreamSpec == StreamInit /\ [][StreamNext]_streamVars
=============================================================================
