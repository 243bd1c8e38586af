----------------------- MODULE DescriptorLeaseProofs -----------------------
(***************************************************************************)
(* What the descriptor lease promises, for any set of clients and of       *)
(* descriptors.                                                            *)
(***************************************************************************)
EXTENDS DescriptorLease, TLAPS

LeaseInv == LeaseTypeOK /\ LeaseExact

LEMMA NoneIsNoFd == LeaseAssumption => None \notin Fds
  BY DEF LeaseAssumption, None

LEMMA LeaseInvInit ==
  ASSUME LeaseAssumption
  PROVE  LeaseInit => LeaseInv
  BY NoneIsNoFd DEF LeaseAssumption, LeaseInit, LeaseInv, LeaseTypeOK, LeaseExact

LEMMA LeaseInvNext ==
  ASSUME LeaseAssumption
  PROVE  LeaseInv /\ [LeaseNext]_leaseVars => LeaseInv'
<1> SUFFICES ASSUME LeaseInv, [LeaseNext]_leaseVars PROVE LeaseInv'
  OBVIOUS
<1> USE NoneIsNoFd DEF LeaseAssumption, LeaseInv, LeaseTypeOK, LeaseExact
<1>1. ASSUME NEW c \in Clients, Give(c) PROVE LeaseInv'
  <2>1. LeaseTypeOK'
    BY <1>1 DEF Give
  <2>2. ASSUME NEW d \in Clients, NEW f \in Fds PROVE owner'[f] = d <=> lease'[d] = f
    BY <1>1, <2>2 DEF Give
  <2> QED  BY <2>1, <2>2
<1>2. ASSUME NEW c \in Clients, NEW g \in Fds, Take(c, g) PROVE LeaseInv'
  <2>1. LeaseTypeOK'
    BY <1>2 DEF Take
  <2>2. ASSUME NEW d \in Clients, NEW f \in Fds PROVE owner'[f] = d <=> lease'[d] = f
    BY <1>2, <2>2 DEF Take
  <2> QED  BY <2>1, <2>2
<1>3. ASSUME NEW g \in Fds, OtherTake(g) \/ OtherGive(g) PROVE LeaseInv'
  BY <1>3 DEF OtherTake, OtherGive
<1>4. CASE UNCHANGED leaseVars
  BY <1>4 DEF leaseVars
<1> QED  BY <1>1, <1>2, <1>3, <1>4 DEF LeaseNext

\* A client that keeps to the lease relies on a descriptor exactly while it is
\* open for that client.
THEOREM LeaseIsExact ==
  ASSUME LeaseAssumption
  PROVE  LeaseSpec => []LeaseExact
<1>1. LeaseInv => LeaseExact
  BY DEF LeaseInv
<1>2. LeaseInit => LeaseInv
  BY LeaseInvInit
<1>3. LeaseInv /\ [LeaseNext]_leaseVars => LeaseInv'
  BY LeaseInvNext
<1> QED  BY <1>1, <1>2, <1>3, PTL DEF LeaseSpec
=============================================================================
