------------------------- MODULE TlsTransferProofs -------------------------
(***************************************************************************)
(* Proofs about TlsTransfer, for any buffer (the empty one included, unless *)
(* a theorem says otherwise), any records, limits and lengths.             *)
(***************************************************************************)
EXTENDS TlsTransfer, SequenceTheorems, WellFoundedInduction, TLAPS

----------------------------------------------------------------------------
(* Smallest elements.                                                      *)

LEMMA SmallestElement ==
  ASSUME NEW T, T \subseteq Nat, T # {}
  PROVE  Min(T) \in T /\ \A y \in T : Min(T) <= y
<1>1. \E x \in T : \A y \in T : <<y, x>> \notin OpToRel(<, Nat)
  BY NatLessThanWellFounded, WFMin, Zenon
<1>2. PICK x \in T : \A y \in T : <<y, x>> \notin OpToRel(<, Nat)
  BY <1>1, Zenon
<1>3. \A y \in T : x <= y
  <2> SUFFICES ASSUME NEW y \in T, y < x PROVE FALSE
    OBVIOUS
  <2>1. <<y, x>> \in {p \in Nat \X Nat : p[1] < p[2]}
    OBVIOUS
  <2>2. OpToRel(<, Nat) = {p \in Nat \X Nat : p[1] < p[2]}
    BY Zenon DEF OpToRel
  <2>3. <<y, x>> \in OpToRel(<, Nat)
    BY <2>1, <2>2, Zenon
  <2> QED  BY <1>2, <2>3, Zenon
<1> QED  BY <1>3 DEF Min

LEMMA SmallerOfTwo ==
  ASSUME NEW a \in Nat, NEW b \in Nat
  PROVE  Min({a, b}) = IF a <= b THEN a ELSE b
<1>1. Min({a, b}) \in {a, b} /\ \A y \in {a, b} : Min({a, b}) <= y
  BY SmallestElement
<1> QED  BY <1>1

----------------------------------------------------------------------------
(* Pieces of the stream.                                                   *)

\* What a read inserts is a piece of the stream.
LEMMA InsertedBytes ==
  ASSUME NEW max, NEW n \in Nat, sent \in Seq(Nat), read \in Nat, read + n <= Len(sent)
  PROVE  /\ Inserted(n, max) \in Seq(Nat)
         /\ Len(Inserted(n, max)) = n
         /\ \A i \in 1..n : Inserted(n, max)[i] = sent[read + i]
<1>1. \A i \in (read + 1)..(read + n) : sent[i] \in Nat
  BY ElementOfSeq, LenProperties
<1>2. /\ Inserted(n, max) \in Seq(Nat)
      /\ Len(Inserted(n, max)) =
           IF read + 1 <= read + n THEN (read + n) - (read + 1) + 1 ELSE 0
      /\ \A i \in 1..((read + n) - (read + 1) + 1) :
           Inserted(n, max)[i] = sent[read + 1 + i - 1]
  BY <1>1, SubSeqProperties DEF Inserted
<1> QED  BY <1>2

\* Two pieces of the stream put together.
LEMMA ConcatNat ==
  ASSUME NEW s \in Seq(Nat), NEW t \in Seq(Nat), NEW u \in Seq(Nat)
  PROVE  (s \o t) \o u = s \o (t \o u)
  BY ConcatAssociative

\* The beginning of the stream and the piece after it are a longer beginning.
LEMMA NextPiece ==
  ASSUME NEW s \in Seq(Nat), NEW m \in 0..Len(s), NEW n \in 0..(Len(s) - m)
  PROVE  SubSeq(s, 1, m) \o SubSeq(s, m + 1, m + n) = SubSeq(s, 1, m + n)
<1>1. Len(s) \in Nat
  BY LenProperties
<1> QED  BY <1>1, ConcatAdjacentSubSeq

\* A record the peer adds leaves the beginning of the stream as it is.
LEMMA BeginningKept ==
  ASSUME NEW s \in Seq(Nat), NEW t \in Seq(Nat), t # <<>>, NEW m \in 0..Len(s)
  PROVE  /\ s \o t \in Seq(Nat)
         /\ Len(s \o t) = Len(s) + Len(t) /\ Len(s) \in Nat /\ Len(t) \in Nat \ {0}
         /\ SubSeq(s \o t, 1, m) = SubSeq(s, 1, m)
         /\ IsStrictPrefix(s, s \o t)
<1>1. /\ Len(s) \in Nat /\ Len(t) \in Nat \ {0}
      /\ s \o t \in Seq(Nat)
      /\ Len(s \o t) = Len(s) + Len(t)
  BY LenProperties, EmptySeq, ConcatProperties
<1>2. ASSUME NEW k \in 0..Len(s) PROVE SubSeq(s \o t, 1, k) = SubSeq(s, 1, k)
  <2>1. CASE k = 0
    BY <2>1, SubSeqEmpty
  <2>2. CASE k \in 1..Len(s)
    BY <1>1, <2>2, SubSeqOfConcat1
  <2> QED  BY <1>1, <2>1, <2>2
<1>3. s \o t # s
  BY <1>1
<1> QED  BY <1>1, <1>2, <1>3 DEF IsStrictPrefix, IsPrefix

----------------------------------------------------------------------------
(* The records.                                                            *)

StreamType == sent \in Seq(Nat) /\ got \in Seq(Nat) /\ data \in Seq(Nat)

\* The last record ends where the stream does.
LastRecord == Len(sent) > 0 => Len(sent) \in bounds

\* As long as a byte is unread there is a next record, which it is part of.
LEMMA NextRecordEnds ==
  ASSUME TypeOK, StreamType, LastRecord, Unread > 0
  PROVE  /\ NextRecord \in 1..Unread
         /\ read + NextRecord \in bounds
         /\ \A b \in bounds : b > read => read + NextRecord <= b
<1>1. read \in Nat /\ Len(sent) \in Nat /\ bounds \subseteq 1..Len(sent)
  BY LenProperties DEF TypeOK, StreamType
<1> DEFINE Ahead == {b \in bounds : b > read}
<1>2. Ahead \subseteq Nat /\ Len(sent) \in Ahead
  <2>1. Len(sent) > read /\ Len(sent) \in bounds
    BY <1>1 DEF LastRecord, Unread
  <2>2. bounds \subseteq Nat
    BY <1>1
  <2> QED  BY <2>1, <2>2
<1>3. Min(Ahead) \in Ahead /\ \A y \in Ahead : Min(Ahead) <= y
  BY <1>2, SmallestElement
<1>4. NextRecord = Min(Ahead) - read
  BY DEF NextRecord
<1> HIDE DEF Ahead
<1>5. Min(Ahead) \in bounds /\ Min(Ahead) > read
  BY <1>3 DEF Ahead
<1>6. \A b \in bounds : b > read => Min(Ahead) <= b
  BY <1>3 DEF Ahead
<1>7. Min(Ahead) \in Nat /\ Min(Ahead) <= Len(sent)
  <2>1. Min(Ahead) \in 1..Len(sent)
    BY <1>1, <1>5
  <2> QED  BY <1>1, <2>1
<1> QED  BY <1>1, <1>4, <1>5, <1>6, <1>7 DEF Unread

\* Where a record is known to be the next one, no other is.
LEMMA NextRecordUnique ==
  ASSUME TypeOK, StreamType, LastRecord, NEW e \in bounds, e > read,
         \A b \in bounds : b > read => e <= b
  PROVE  NextRecord = e - read
<1>1. /\ read \in Nat /\ Len(sent) \in Nat /\ bounds \subseteq 1..Len(sent)
      /\ e \in Nat /\ Unread > 0
  BY LenProperties DEF TypeOK, StreamType, Unread
<1>2. /\ NextRecord \in 1..Unread
      /\ read + NextRecord \in bounds
      /\ \A b \in bounds : b > read => read + NextRecord <= b
  BY <1>1, NextRecordEnds
<1>3. NextRecord \in Nat /\ read + NextRecord > read /\ Unread \in Nat
  BY <1>1, <1>2 DEF Unread
<1>4. read + NextRecord <= e /\ e <= read + NextRecord
  BY <1>2, <1>3
<1> QED  BY <1>1, <1>3, <1>4

----------------------------------------------------------------------------
(* The invariant.                                                          *)

\* The stream, its records and what mbedTLS holds of one of them.
RecordsOK ==
  /\ bounds \subseteq 1..Len(sent) /\ Len(sent) <= MaxSent
  /\ read \in 0..Len(sent) /\ buffered \in 0..Unread
  /\ buffered > 0 => buffered = NextRecord

\* The rest of the types.
CallsOK ==
  /\ notice \in {"none", "waiting", "taken"}
  /\ tcp \in {"open", "closed", "reset", "gone"}
  /\ interrupts \in 0..MaxInterrupts
  /\ connected \in BOOLEAN
  /\ pc \in {"idle", "available", "read", "write"}
  /\ pc = "read" /\ call = "ReadDataUntil" => buffered > 0
  /\ call \in {"none", "ReadData", "ReadDataUntil", "WriteData"}
  /\ oneChunk \in BOOLEAN /\ limit \in Limits \cup {0} /\ length \in Lengths \cup {0}
  /\ put \in 0..length /\ found \in BOOLEAN /\ end \in Ends

LEMMA TypeParts == TypeOK <=> RecordsOK /\ CallsOK
  BY DEF TypeOK, RecordsOK, CallsOK

LEMMA TypePartsNext == RecordsOK' /\ CallsOK' => TypeOK'
  BY DEF TypeOK, RecordsOK, CallsOK

\* What calls returned is the part of the stream mbedtls_ssl_read has returned.
Given == got \o data = SubSeq(sent, 1, read)

\* A call in progress has not ended, and each is in the places of its own; a
\* write has taken nothing yet, a search has not met the stop byte; and mbedTLS
\* holds nothing once the connection is closed.
CallInv ==
  /\ pc # "idle" => connected /\ end = "none"
  /\ pc \in {"available", "read"} => call \in {"ReadData", "ReadDataUntil"}
  /\ pc = "write" => call = "WriteData" /\ put = 0
  /\ ~connected => buffered = 0
  /\ pc \in {"available", "read"} /\ call = "ReadDataUntil" =>
       ~found /\ \A i \in 1..Len(data) : data[i] # Stop

Answers == StopEndsData /\ NothingLeftBuffered /\ EmptyIsEnd /\ FailedWriteCloses

IInv == TypeOK /\ StreamType /\ LastRecord /\ Given /\ CallInv /\ Answers

LEMMA InitIInv == Init => IInv
<1> SUFFICES ASSUME Init PROVE IInv
  OBVIOUS
<1>1. <<>> \in Seq(Nat) /\ Len(<<>>) = 0 /\ <<>> \o <<>> = <<>>
  BY EmptySeq, ConcatEmptySeq
<1>2. MaxSent \in Nat /\ MaxInterrupts \in Nat
  BY TlsTransferAssumption
<1>3. sent = <<>> /\ bounds = {} /\ read = 0 /\ buffered = 0 /\ got = <<>> /\ data = <<>>
  BY DEF Init
<1>4. RecordsOK
  BY <1>1, <1>2, <1>3 DEF RecordsOK, Unread
<1>5. put = 0 /\ length = 0 /\ interrupts = 0
  BY DEF Init
<1>6. put \in 0..length /\ interrupts \in 0..MaxInterrupts
  BY <1>2, <1>5
<1>7. CallsOK
  BY <1>6 DEF Init, CallsOK, Ends
<1>8. StreamType /\ LastRecord
  BY <1>1, <1>3 DEF StreamType, LastRecord
<1>9. Given
  BY <1>1, <1>3, SubSeqEmpty DEF Given
<1>10. CallInv /\ Answers
  BY DEF Init, CallInv, Answers, StopEndsData, NothingLeftBuffered, EmptyIsEnd,
     FailedWriteCloses, Returned
<1> QED  BY <1>4, <1>7, <1>8, <1>9, <1>10, TypeParts DEF IInv

\* As long as the stream stays and nothing of it is read, mbedTLS may drop what
\* it holds or take in the next record.
LEMMA StreamStays ==
  ASSUME IInv, UNCHANGED <<sent, bounds, read>>,
         \/ buffered' \in {buffered, 0}
         \/ Unread > 0 /\ buffered' = NextRecord
  PROVE  RecordsOK' /\ LastRecord'
<1> USE DEF IInv
<1>1. NextRecord' = NextRecord /\ Unread' = Unread /\ LastRecord'
  BY DEF NextRecord, Unread, LastRecord
<1>2. /\ RecordsOK /\ Unread \in Nat
      /\ Unread > 0 => NextRecord \in 1..Unread
  BY TypeParts, NextRecordEnds, LenProperties DEF StreamType, Unread, RecordsOK
<1>3. buffered' \in 0..Unread /\ (buffered' > 0 => buffered' = NextRecord)
  BY <1>2 DEF RecordsOK
<1> QED  BY <1>1, <1>2, <1>3 DEF RecordsOK

\* What the peer sends goes behind what is there.
LEMMA PeerSendsIInv ==
  ASSUME IInv, NEW record \in Records, PeerSends(record)
  PROVE  IInv'
<1> USE DEF IInv
<1>1. record \in Seq(Nat) /\ record # <<>>
  BY TlsTransferAssumption
<1>2. /\ sent' = sent \o record /\ bounds' = bounds \cup {Len(sent')}
      /\ UNCHANGED <<notice, tcp, call, oneChunk, limit, length, got, interrupts, read,
                     buffered, connected, pc, data, found, put, end>>
      /\ Len(sent) + Len(record) <= MaxSent /\ tcp = "open" /\ notice = "none"
  BY DEF PeerSends, taskVars, argVars
<1>3. /\ sent' \in Seq(Nat)
      /\ Len(sent') = Len(sent) + Len(record)
      /\ Len(sent) \in Nat /\ Len(record) \in Nat \ {0}
      /\ read \in 0..Len(sent) => SubSeq(sent', 1, read) = SubSeq(sent, 1, read)
  BY <1>1, <1>2, BeginningKept DEF StreamType
<1>4. StreamType' /\ LastRecord' /\ Given'
  BY <1>2, <1>3 DEF StreamType, LastRecord, Given, TypeOK
<1>5. /\ read \in Nat /\ buffered \in Nat /\ MaxSent \in Nat
      /\ read <= Len(sent) /\ buffered <= Len(sent) - read
      /\ bounds \subseteq 1..Len(sent)
  BY <1>3, TlsTransferAssumption DEF TypeOK, Unread
<1>6. /\ bounds' \subseteq 1..Len(sent') /\ Len(sent') <= MaxSent
      /\ read' \in 0..Len(sent') /\ buffered' \in 0..Unread'
  <2>1. Len(sent') \in Nat /\ Len(sent') > Len(sent) /\ Len(sent') <= MaxSent
    BY <1>2, <1>3
  <2>2. 1..Len(sent) \subseteq 1..Len(sent') /\ Len(sent') \in 1..Len(sent')
    BY <1>3, <2>1
  <2>3. bounds' \subseteq 1..Len(sent')
    BY <1>2, <1>5, <2>2
  <2>4. read' = read /\ buffered' = buffered
    BY <1>2
  <2> QED  BY <1>3, <1>5, <2>1, <2>3, <2>4 DEF Unread
<1>7. ASSUME buffered > 0 PROVE NextRecord' = buffered
  <2>1. /\ read + buffered \in bounds
        /\ \A b \in bounds : b > read => read + buffered <= b
    BY <1>5, <1>7, NextRecordEnds DEF TypeOK, Unread
  <2> DEFINE Ahead == {b \in bounds' : b > read'}
  <2>2. read + buffered \in Ahead /\ Ahead \subseteq Nat
    BY <1>2, <1>5, <1>6, <1>7, <2>1
  <2>3. \A b \in Ahead : read + buffered <= b
    BY <1>2, <1>3, <1>5, <2>1
  <2>4. Min(Ahead) \in Ahead /\ Min(Ahead) <= read + buffered
    BY <2>2, SmallestElement
  <2>5. NextRecord' = Min(Ahead) - read
    BY <1>2 DEF NextRecord
  <2> HIDE DEF Ahead
  <2>6. Min(Ahead) = read + buffered
    <3>1. Min(Ahead) \in Nat /\ read + buffered \in Nat
      BY <2>2, <2>4
    <3>2. read + buffered <= Min(Ahead)
      BY <2>3, <2>4
    <3> QED  BY <2>4, <3>1, <3>2
  <2> QED  BY <1>5, <2>5, <2>6
<1>8. RecordsOK'
  BY <1>2, <1>6, <1>7 DEF RecordsOK
<1>9. CallsOK' /\ CallInv'
  BY <1>2 DEF CallsOK, TypeOK, CallInv
<1>10. Answers'
  BY <1>2 DEF Answers, StopEndsData, NothingLeftBuffered, EmptyIsEnd, FailedWriteCloses,
     Returned
<1> QED  BY <1>4, <1>8, <1>9, <1>10, TypePartsNext

LEMMA PeerIInv ==
  ASSUME IInv, PeerNotifies \/ PeerCloses \/ PeerResets
  PROVE  IInv'
<1> USE DEF IInv
<1>1. /\ UNCHANGED <<sent, bounds, interrupts, call, oneChunk, limit, length, got, read,
                     buffered, connected, pc, data, found, put, end>>
      /\ notice' \in {"none", "waiting", "taken"}
      /\ tcp' \in {"open", "closed", "reset", "gone"}
      /\ notice = "taken" => notice' = "taken"
      /\ tcp # "open" => tcp' # "open"
  BY DEF PeerNotifies, PeerCloses, PeerResets, peerVars, taskVars, argVars, TypeOK
<1>2. RecordsOK' /\ LastRecord'
  BY <1>1, StreamStays
<1>3. CallsOK' /\ StreamType' /\ Given' /\ CallInv'
  BY <1>1 DEF TypeOK, CallsOK, StreamType, Given, CallInv
<1>4. Answers'
  BY <1>1 DEF Answers, StopEndsData, NothingLeftBuffered, EmptyIsEnd, FailedWriteCloses,
     Returned, Unread
<1> QED  BY <1>2, <1>3, <1>4, TypePartsNext

\* The application's calls begin with nothing returned and nothing taken.
LEMMA BeginIInv ==
  ASSUME IInv, NEW name \in {"ReadData", "ReadDataUntil", "WriteData"},
         NEW label \in {"available", "write"}, Begin(name, label),
         name = "WriteData" <=> label = "write",
         name = "ReadDataUntil" => (connected => ~found'),
         oneChunk' \in BOOLEAN, limit' \in Limits \cup {0}, length' \in Lengths \cup {0},
         found' \in BOOLEAN
  PROVE  IInv'
<1> USE DEF IInv
<1>1. /\ got' = got \o data /\ data' = <<>>
      /\ got' \in Seq(Nat) /\ data' \in Seq(Nat)
      /\ got' \o data' = got \o data
  <2>1. got' = got \o data /\ data' = <<>>
    BY DEF Begin
  <2>2. got \o data \in Seq(Nat) /\ <<>> \in Seq(Nat)
    BY ConcatProperties, EmptySeq DEF StreamType
  <2>3. (got \o data) \o <<>> = got \o data
    BY <2>2, ConcatEmptySeq
  <2> QED  BY <2>1, <2>2, <2>3
<1>2. /\ call' = name /\ put' = 0
      /\ pc' = (IF connected THEN label ELSE "idle")
      /\ end' = (IF connected THEN "none" ELSE "not connected")
  BY DEF Begin, Return
<1>3. UNCHANGED <<sent, bounds, notice, tcp, interrupts, read, buffered, connected>>
  BY DEF Begin, peerVars, lineVars
<1>4. 0 \in 0..length'
  BY TlsTransferAssumption
<1>5. RecordsOK' /\ LastRecord' /\ StreamType' /\ Given'
  BY <1>1, <1>3, StreamStays DEF StreamType, Given
<1>6. CallsOK'
  <2>1. pc' \in {"idle", "available", "read", "write"} /\ pc' # "read" /\ end' \in Ends
    BY <1>2 DEF Ends
  <2>2. call' \in {"none", "ReadData", "ReadDataUntil", "WriteData"}
    BY <1>2
  <2>3. put' \in 0..length'
    BY <1>2, <1>4
  <2> QED  BY <1>3, <2>1, <2>2, <2>3 DEF CallsOK, TypeOK
<1>7. data' = <<>> /\ 1..Len(data') = {} /\ 1..(Len(data') - 1) = {}
  BY <1>1, EmptySeq
<1>8. CallInv'
  <2>1. CASE connected
    BY <1>2, <1>3, <1>7, <2>1 DEF CallInv
  <2>2. CASE ~connected
    BY <1>2, <1>3, <2>2 DEF CallInv
  <2> QED  BY <2>1, <2>2
<1>9. Answers'
  <2>1. StopEndsData'
    BY <1>7 DEF StopEndsData
  <2>2. pc' = "idle" => ~connected' /\ buffered' = 0 /\ put' = 0
    BY <1>2, <1>3 DEF CallInv
  <2>3. NothingLeftBuffered' /\ EmptyIsEnd' /\ FailedWriteCloses'
    BY <2>2 DEF NothingLeftBuffered, EmptyIsEnd, FailedWriteCloses, Returned
  <2> QED  BY <2>1, <2>3 DEF Answers
<1> QED  BY <1>5, <1>6, <1>8, <1>9, TypePartsNext

LEMMA ApplicationIInv ==
  ASSUME IInv,
         \/ \E chunk \in BOOLEAN : CallReadData(chunk)
         \/ \E max \in Limits : CallReadDataUntil(max)
         \/ \E n \in Lengths : CallWriteData(n)
         \/ Disconnect
  PROVE  IInv'
<1>1. ASSUME NEW chunk \in BOOLEAN, CallReadData(chunk) PROVE IInv'
  BY <1>1, BeginIInv DEF CallReadData, IInv, TypeOK
<1>2. ASSUME NEW max \in Limits, CallReadDataUntil(max) PROVE IInv'
  <2>1. found' \in BOOLEAN /\ (connected => ~found')
    BY <1>2 DEF CallReadDataUntil, IInv, TypeOK
  <2> QED  BY <1>2, <2>1, BeginIInv DEF CallReadDataUntil
<1>3. ASSUME NEW n \in Lengths, CallWriteData(n) PROVE IInv'
  BY <1>3, BeginIInv DEF CallWriteData, IInv, TypeOK
<1>4. CASE Disconnect
  <2> USE DEF IInv
  <2>1. /\ UNCHANGED <<sent, bounds, notice, tcp, interrupts, call, oneChunk, limit,
                       length, got, read, pc, data, found, put, end>>
        /\ pc = "idle" /\ connected' = FALSE /\ buffered' = 0
    BY <1>4 DEF Disconnect, peerVars, lineVars, argVars
  <2>2. RecordsOK' /\ LastRecord'
    BY <2>1, StreamStays
  <2>3. CallsOK' /\ StreamType' /\ Given' /\ CallInv'
    BY <2>1 DEF TypeOK, CallsOK, StreamType, Given, CallInv
  <2>4. Answers'
    BY <2>1 DEF Answers, StopEndsData, NothingLeftBuffered, EmptyIsEnd,
       FailedWriteCloses, Returned
  <2> QED  BY <2>2, <2>3, <2>4, TypePartsNext
<1> QED  BY <1>1, <1>2, <1>3, <1>4

----------------------------------------------------------------------------
(* The steps of a read.                                                    *)

\* What a step meets on the line leaves the stream alone.
LineOK ==
  /\ UNCHANGED <<sent, bounds, read>>
  /\ notice' \in {"none", "waiting", "taken"} /\ tcp' \in {"open", "closed", "reset", "gone"}
  /\ interrupts' \in 0..MaxInterrupts

LEMMA LineMeets ==
  ASSUME TypeOK, UNCHANGED <<sent, bounds, read>>,
         Notified \/ Eof \/ Failed \/ Interrupted \/ UNCHANGED lineVars
  PROVE  LineOK
<1>1. interrupts' \in 0..MaxInterrupts
  BY TlsTransferAssumption DEF TypeOK, Notified, Eof, Failed, Interrupted, lineVars
<1> QED  BY <1>1 DEF LineOK, TypeOK, Notified, Eof, Failed, Interrupted, lineVars

LEMMA AvailableIInv ==
  ASSUME IInv, AvailableBytes
  PROVE  IInv'
<1> USE DEF IInv
<1>1. /\ UNCHANGED <<sent, bounds, read, call, oneChunk, limit, length, got, connected,
                     data, found, put>>
      /\ pc = "available"
  BY DEF AvailableBytes, peerVars, argVars
<1>2. LineOK
  BY <1>1, LineMeets DEF AvailableBytes, ReadOfNothing
<1>3. buffered' = buffered \/ (Unread > 0 /\ buffered' = NextRecord)
  BY DEF AvailableBytes, ReadOfNothing
<1>4. RecordsOK' /\ LastRecord'
  BY <1>1, <1>3, StreamStays
<1>5. buffered' \in Nat /\ (buffered' # 0 => buffered' > 0)
  BY <1>1, <1>4, LenProperties DEF RecordsOK, Unread, StreamType
<1>6. \/ pc' = "idle" /\ end' = "nothing" /\ call = "ReadDataUntil"
      \/ pc' = "read" /\ end' = end /\ (call = "ReadDataUntil" => buffered' # 0)
  BY DEF AvailableBytes, NothingThere, Return, Goto
<1>7. CallsOK'
  BY <1>1, <1>2, <1>5, <1>6 DEF TypeOK, CallsOK, LineOK, Ends
<1>8. StreamType' /\ Given'
  BY <1>1 DEF StreamType, Given
<1>9. CallInv'
  BY <1>1, <1>6 DEF CallInv
<1>10. Answers'
  <2>1. call = "ReadDataUntil" => \A i \in 1..Len(data) : data[i] # Stop
    BY <1>1 DEF CallInv
  <2>2. Len(data) \in Nat /\ (data # <<>> => Len(data) \in 1..Len(data))
    BY LenProperties, EmptySeq DEF StreamType
  <2>3. StopEndsData'
    BY <1>1, <2>1, <2>2 DEF StopEndsData, Last
  <2>4. NothingLeftBuffered' /\ EmptyIsEnd' /\ FailedWriteCloses'
    BY <1>1, <1>6 DEF CallInv, NothingLeftBuffered, EmptyIsEnd, FailedWriteCloses, Returned
  <2> QED  BY <2>3, <2>4 DEF Answers
<1> QED  BY <1>4, <1>7, <1>8, <1>9, <1>10, TypePartsNext

\* What a read asks for: a rest of a record that fits, or the whole buffer.
LEMMA Asked ==
  ASSUME NEW max \in Nat, buffered \in Nat
  PROVE  /\ ReadSize(max) \in 0..max /\ (max > 0 => ReadSize(max) > 0)
         /\ buffered \in 1..max => ReadSize(max) = buffered
         /\ buffered > max => ReadSize(max) = max
<1>1. Min({max, buffered}) = IF max <= buffered THEN max ELSE buffered
  BY SmallerOfTwo
<1> QED  BY <1>1 DEF ReadSize

\* A read returns the next bytes of the stream, at least one of them if it asked
\* for any and all of one record, and mbedTLS keeps the rest of that record.
LEMMA TakeReads ==
  ASSUME IInv, NEW max \in Nat, Take(max)
  PROVE  /\ RecordsOK' /\ LastRecord'
         /\ buffered \in 1..max => buffered' = 0
         /\ data' \in Seq(Nat)
         /\ \E n \in 0..Unread :
              /\ n <= max /\ (max > 0 => n > 0) /\ read' = read + n
              /\ Len(data') = Len(data) + n
              /\ \A i \in 1..Len(data) : data'[i] = data[i]
              /\ got \o data' = SubSeq(sent, 1, read + n)
<1> USE DEF IInv
<1> DEFINE here == IF buffered > 0 THEN buffered ELSE NextRecord
           n == Min({ReadSize(max), here})
<1>1. /\ read \in Nat /\ Len(sent) \in Nat /\ read <= Len(sent) /\ Unread \in Nat
      /\ Unread = Len(sent) - read /\ Unread > 0
      /\ buffered \in Nat /\ buffered <= Unread
      /\ bounds \subseteq 1..Len(sent)
  BY LenProperties DEF TypeOK, StreamType, Unread, Take
<1>2. /\ here = NextRecord /\ here \in 1..Unread
      /\ read + here \in bounds
      /\ \A b \in bounds : b > read => read + here <= b
  BY <1>1, NextRecordEnds DEF TypeOK
<1>3. /\ data' = data \o Inserted(n, max) /\ read' = read + n /\ buffered' = here - n
      /\ UNCHANGED <<sent, bounds>>
  BY DEF Take, peerVars
<1> HIDE DEF here
<1>4. n = IF ReadSize(max) <= here THEN ReadSize(max) ELSE here
  <2>1. ReadSize(max) \in 0..max
    BY <1>1, Asked
  <2>2. ReadSize(max) \in Nat /\ here \in Nat
    BY <1>1, <1>2, <2>1
  <2> QED  BY <2>2, SmallerOfTwo
<1> HIDE DEF n
<1>5. n \in 0..Unread /\ n <= max /\ n <= here /\ (max > 0 => n > 0)
  <2>1. ReadSize(max) \in 0..max /\ (max > 0 => ReadSize(max) > 0)
    BY <1>1, Asked
  <2>2. ReadSize(max) \in Nat /\ ReadSize(max) <= max
    BY <2>1
  <2>3. here \in Nat \ {0} /\ here <= Unread
    BY <1>1, <1>2
  <2>4. n = ReadSize(max) \/ n = here
    BY <1>4
  <2>5. n <= ReadSize(max) /\ n <= here
    BY <1>4, <2>2, <2>3
  <2> QED  BY <1>1, <2>1, <2>2, <2>3, <2>4, <2>5
<1>6. buffered \in 1..max => buffered' = 0
  BY <1>1, <1>2, <1>3, <1>4, Asked DEF here
<1>7. /\ Inserted(n, max) \in Seq(Nat) /\ Len(Inserted(n, max)) = n
      /\ Inserted(n, max) = SubSeq(sent, read + 1, read + n)
  <2>1. sent \in Seq(Nat) /\ n \in 0..(Len(sent) - read)
    BY <1>1, <1>5 DEF StreamType
  <2>2. read + n <= Len(sent) /\ n \in Nat
    BY <1>1, <2>1
  <2>3. Inserted(n, max) \in Seq(Nat) /\ Len(Inserted(n, max)) = n
    BY <1>1, <2>1, <2>2, InsertedBytes
  <2> QED  BY <2>3 DEF Inserted
<1>8. /\ data' \in Seq(Nat) /\ Len(data') = Len(data) + n
      /\ \A i \in 1..Len(data) : data'[i] = data[i]
  <2>1. /\ data \o Inserted(n, max) \in Seq(Nat)
        /\ Len(data \o Inserted(n, max)) = Len(data) + n
        /\ \A i \in 1..(Len(data) + n) : (data \o Inserted(n, max))[i] =
             IF i <= Len(data) THEN data[i] ELSE Inserted(n, max)[i - Len(data)]
    BY <1>7, ConcatProperties DEF StreamType
  <2>2. Len(data) \in Nat /\ n \in Nat
    BY <1>1, <1>5, LenProperties DEF StreamType
  <2>3. \A i \in 1..Len(data) : i \in 1..(Len(data) + n) /\ i <= Len(data)
    BY <2>2
  <2> QED  BY <1>3, <2>1, <2>3
<1>9. got \o data' = SubSeq(sent, 1, read + n)
  <2>1. (got \o data) \o Inserted(n, max) = got \o (data \o Inserted(n, max))
    <3>1. Inserted(n, max) \in Seq(Nat)
      BY <1>7
    <3>2. got \in Seq(Nat) /\ data \in Seq(Nat)
      BY DEF StreamType
    <3> QED  BY <3>1, <3>2, ConcatNat
  <2>2. read \in 0..Len(sent) /\ n \in 0..(Len(sent) - read)
    BY <1>1, <1>5
  <2>3. SubSeq(sent, 1, read) \o SubSeq(sent, read + 1, read + n) = SubSeq(sent, 1, read + n)
    BY <2>2, NextPiece DEF StreamType
  <2> QED  BY <1>3, <1>7, <2>1, <2>3 DEF Given
<1>10. RecordsOK' /\ LastRecord'
  <2>1. read' \in 0..Len(sent') /\ Unread' = Unread - n /\ buffered' \in 0..Unread'
    BY <1>1, <1>2, <1>3, <1>5 DEF Unread
  <2>2. ASSUME buffered' > 0 PROVE NextRecord' = buffered'
    <3> DEFINE Ahead == {b \in bounds : b > read + n}
    <3>1. read + here \in Nat /\ read + here > read + n
      BY <1>1, <1>2, <1>3, <1>5, <2>2
    <3>2. read + here \in Ahead /\ Ahead \subseteq Nat
      <4>1. bounds \subseteq Nat
        BY <1>1
      <4> QED  BY <1>2, <3>1, <4>1
    <3>3. \A b \in Ahead : read + here <= b
      <4> SUFFICES ASSUME NEW b \in Ahead PROVE read + here <= b
        OBVIOUS
      <4>1. b \in bounds /\ b \in Nat /\ b > read + n
        BY <3>2
      <4>2. b > read
        BY <1>1, <1>5, <4>1
      <4> QED  BY <1>2, <4>1, <4>2
    <3>4. NextRecord' = Min(Ahead) - (read + n)
      BY <1>3 DEF NextRecord
    <3> HIDE DEF Ahead
    <3>5. Min(Ahead) \in Ahead /\ Min(Ahead) <= read + here
      BY <3>2, SmallestElement
    <3>6. Min(Ahead) \in Nat /\ read + here <= Min(Ahead)
      BY <3>2, <3>3, <3>5
    <3>7. Min(Ahead) = read + here
      BY <3>1, <3>5, <3>6
    <3> QED  BY <1>1, <1>2, <1>3, <1>5, <3>4, <3>7
  <2>3. LastRecord'
    BY <1>3 DEF LastRecord
  <2> QED  BY <1>3, <2>1, <2>2, <2>3 DEF TypeOK, RecordsOK
<1> QED  BY <1>3, <1>5, <1>6, <1>8, <1>9, <1>10

LEMMA ReadChunkIInv ==
  ASSUME IInv, ReadChunk
  PROVE  IInv'
<1> USE DEF IInv
<1>1. BufSize \in Nat /\ Take(BufSize)
  BY TlsTransferAssumption DEF ReadChunk
<1>2. /\ RecordsOK' /\ LastRecord'
      /\ buffered \in 1..BufSize => buffered' = 0
      /\ data' \in Seq(Nat)
  BY <1>1, TakeReads
<1>3. PICK n \in 0..Unread : /\ read' = read + n /\ Len(data') = Len(data) + n
                             /\ BufSize > 0 => n > 0
                             /\ got \o data' = SubSeq(sent, 1, read + n)
  BY <1>1, TakeReads
<1>4. /\ UNCHANGED <<sent, bounds, notice, tcp, interrupts, call, oneChunk, limit, length,
                     got, connected, put, found>>
      /\ pc = "read" /\ call = "ReadData"
      /\ \/ pc' = "idle" /\ end' = "done" /\ (buffered \in 1..BufSize \/ oneChunk \/ BufSize = 0)
         \/ pc' = "available" /\ end' = end
  BY DEF ReadChunk, Take, peerVars, lineVars, argVars, LastRest, ReadZero, Return, Goto
<1>5. CallsOK'
  <2>1. CallsOK
    BY TypeParts
  <2>2. end' \in Ends
    BY <1>4, <2>1 DEF CallsOK, Ends
  <2> QED  BY <1>4, <2>1, <2>2 DEF CallsOK
<1>6. StreamType' /\ Given'
  BY <1>2, <1>3, <1>4 DEF StreamType, Given
<1>7. CallInv'
  BY <1>4 DEF CallInv
<1>8. ASSUME BufSize > 0 PROVE data' # <<>>
  <2>1. Len(data) \in Nat /\ n > 0
    BY <1>3, <1>8, LenProperties DEF StreamType
  <2>2. Len(data') > 0
    BY <1>3, <2>1
  <2> QED  BY <2>2, EmptySeq
<1>9. Answers'
  BY <1>2, <1>4, <1>8 DEF Answers, StopEndsData, NothingLeftBuffered, EmptyIsEnd,
     FailedWriteCloses, Returned
<1> QED  BY <1>2, <1>5, <1>6, <1>7, <1>9, TypePartsNext

LEMMA ReadByteIInv ==
  ASSUME IInv, ReadByte
  PROVE  IInv'
<1> USE DEF IInv
<1>1. 1 \in Nat /\ Take(1)
  BY DEF ReadByte
<1>2. RecordsOK' /\ LastRecord' /\ data' \in Seq(Nat)
  BY <1>1, TakeReads
<1>3. PICK n \in 0..Unread : /\ n <= 1 /\ (1 > 0 => n > 0)
                             /\ read' = read + n /\ Len(data') = Len(data) + n
                             /\ \A i \in 1..Len(data) : data'[i] = data[i]
                             /\ got \o data' = SubSeq(sent, 1, read + n)
  BY <1>1, TakeReads, Zenon
<1>4. /\ UNCHANGED <<sent, bounds, notice, tcp, interrupts, call, oneChunk, limit, length,
                     got, connected, put>>
      /\ pc = "read" /\ call = "ReadDataUntil" /\ found' = (Last(data') = Stop)
      /\ \/ pc' = "idle" /\ end' = "done"
         \/ pc' = "available" /\ end' = end /\ ~found'
  BY DEF ReadByte, Take, peerVars, lineVars, argVars, SearchMore, Return, Goto
<1>5. CallsOK'
  <2>1. CallsOK
    BY TypeParts
  <2>2. end' \in Ends /\ found' \in BOOLEAN
    BY <1>4, <2>1 DEF CallsOK, Ends
  <2> QED  BY <1>4, <2>1, <2>2 DEF CallsOK
<1>6. StreamType' /\ Given'
  BY <1>2, <1>3, <1>4 DEF StreamType, Given
<1>7. Len(data) \in Nat /\ Len(data') = Len(data) + 1
  BY <1>3, LenProperties DEF StreamType
<1>8. \A i \in 1..Len(data) : data'[i] # Stop
  BY <1>3, <1>4 DEF CallInv
<1>9. ~found' => \A i \in 1..Len(data') : data'[i] # Stop
  <2>1. \A i \in 1..Len(data') : i \in 1..Len(data) \/ i = Len(data')
    BY <1>7
  <2> QED  BY <1>4, <1>8, <2>1 DEF Last
<1>10. CallInv'
  BY <1>4, <1>9 DEF CallInv
<1>11. StopEndsData'
  <2>1. Len(data') - 1 = Len(data)
    BY <1>7
  <2> QED  BY <1>4, <1>8, <2>1 DEF StopEndsData
<1>12. NothingLeftBuffered' /\ EmptyIsEnd' /\ FailedWriteCloses'
  BY <1>4 DEF NothingLeftBuffered, EmptyIsEnd, FailedWriteCloses, Returned
<1> QED  BY <1>2, <1>5, <1>6, <1>10, <1>11, <1>12, TypePartsNext DEF Answers

LEMMA ReadNothingIInv ==
  ASSUME IInv, ReadNothing
  PROVE  IInv'
<1> USE DEF IInv
<1>1. /\ UNCHANGED <<sent, bounds, read, call, oneChunk, limit, length, got, data, found, put>>
      /\ pc = "read" /\ buffered = 0 /\ buffered' = 0
      /\ call = "ReadData"
  <2>1. pc = "read" /\ buffered = 0
    BY DEF ReadNothing
  <2>2. call = "ReadData"
    BY <2>1 DEF TypeOK, CallInv
  <2>3. buffered' = 0
    BY <2>1 DEF ReadNothing, Fails
  <2> QED  BY <2>1, <2>2, <2>3 DEF ReadNothing, peerVars, argVars
<1>2. LineOK
  BY <1>1, LineMeets DEF ReadNothing
<1>3. RecordsOK' /\ LastRecord'
  BY <1>1, StreamStays
<1> DEFINE Met   == /\ pc' = "idle" /\ end' \in {"stopped", "eof"} /\ connected' = connected
                    /\ Unread = 0 /\ (notice' = "taken" \/ tcp' # "open")
           Signal == pc' = "idle" /\ end' = "interrupted" /\ connected' = connected
           Error  == pc' = "idle" /\ end' = "error" /\ connected' = FALSE
           Again  == pc' = "available" /\ end' = end /\ connected' = connected
<1>4. Met \/ Signal \/ Error \/ Again
  <2>1. CASE Notified /\ Return("stopped") /\ UNCHANGED <<connected, buffered>>
    <3>1. Met
      BY <2>1 DEF Notified, Return
    <3> QED  BY <3>1
  <2>2. CASE Eof /\ EofStops /\ UNCHANGED <<connected, buffered>>
    <3>1. Met
      BY <2>2 DEF Eof, EofStops, Drained, Return, lineVars
    <3> QED  BY <3>1
  <2>3. CASE Interrupted /\ Return("interrupted") /\ UNCHANGED <<connected, buffered>>
    <3>1. Signal
      BY <2>3 DEF Return
    <3> QED  BY <3>1
  <2>4. CASE Interrupted /\ Goto("available") /\ UNCHANGED <<connected, buffered>>
    <3>1. Again
      BY <2>4 DEF Goto
    <3> QED  BY <3>1
  <2>5. CASE Failed /\ Fails
    <3>1. Error
      BY <2>5 DEF Fails, Return
    <3> QED  BY <3>1
  <2> QED  BY <2>1, <2>2, <2>3, <2>4, <2>5 DEF ReadNothing
<1>5. CallsOK'
  BY <1>1, <1>2, <1>4 DEF CallsOK, TypeOK, LineOK, Ends
<1>6. StreamType' /\ Given'
  BY <1>1 DEF StreamType, Given
<1>7. CallInv'
  BY <1>1, <1>4 DEF CallInv
<1>8. Answers'
  BY <1>1, <1>4 DEF Answers, StopEndsData, NothingLeftBuffered, EmptyIsEnd,
     FailedWriteCloses, Returned, Unread
<1> QED  BY <1>3, <1>5, <1>6, <1>7, <1>8, TypePartsNext

LEMMA WriteIInv ==
  ASSUME IInv, WriteStep
  PROVE  IInv'
<1> USE DEF IInv
<1>1. /\ UNCHANGED <<sent, bounds, read, call, oneChunk, limit, length, got, data, found>>
      /\ pc = "write"
      /\ buffered' \in {buffered, 0}
  BY DEF WriteStep, WriteRefuses, WriteTakes, WriteAgain, WriteFails, Interrupted, Fails,
     peerVars, lineVars, argVars
<1>2. LineOK
  <2>1. CASE WriteFails
    BY <1>1, <2>1 DEF WriteFails, LineOK, TypeOK
  <2>2. CASE ~WriteFails
    BY <1>1, <2>2, LineMeets DEF WriteStep, WriteRefuses, WriteTakes, WriteAgain
  <2> QED  BY <2>1, <2>2
<1>3. RecordsOK' /\ LastRecord'
  BY <1>1, StreamStays
<1>4. /\ call = "WriteData" /\ put = 0
      /\ \/ pc' = "idle" /\ end' = "nothing" /\ UNCHANGED <<connected, buffered, put>>
         \/ pc' = "idle" /\ end' = "done" /\ UNCHANGED <<connected, buffered>>
         \/ pc' = "write" /\ UNCHANGED <<end, connected, buffered, put>>
         \/ pc' = "idle" /\ end' = "error" /\ connected' = FALSE /\ buffered' = 0
  BY DEF WriteStep, WriteRefuses, WriteTakes, WriteAgain, WriteFails, Fails, Return, CallInv
<1>5. put' \in 0..length
  <2>1. length \in Nat /\ MaxFragment \in Nat
    BY TlsTransferAssumption DEF TypeOK
  <2>2. Min({length, MaxFragment}) \in 0..length
    BY <2>1, SmallerOfTwo
  <2>3. put' \in {put, Min({length, MaxFragment})} \cup 0..Min({length, MaxFragment})
    BY DEF WriteStep, WriteRefuses, WriteTakes, WriteAgain, WriteFails
  <2> QED  BY <2>1, <2>2, <2>3 DEF TypeOK
<1>6. CallsOK'
  BY <1>1, <1>2, <1>4, <1>5 DEF CallsOK, TypeOK, LineOK, Ends
<1>7. StreamType' /\ Given'
  BY <1>1 DEF StreamType, Given
<1>8. CallInv'
  BY <1>1, <1>4 DEF CallInv
<1>9. Answers'
  BY <1>1, <1>4 DEF Answers, StopEndsData, NothingLeftBuffered, EmptyIsEnd,
     FailedWriteCloses, Returned
<1> QED  BY <1>3, <1>6, <1>7, <1>8, <1>9, TypePartsNext

LEMMA NextIInv == IInv /\ [Next]_vars => IInv'
<1> SUFFICES ASSUME IInv, [Next]_vars PROVE IInv'
  OBVIOUS
<1>1. CASE UNCHANGED vars
  <2> USE <1>1 DEF vars, peerVars, lineVars, argVars, IInv
  <2>1. RecordsOK' /\ LastRecord'
    BY StreamStays
  <2>2. CallsOK' /\ StreamType' /\ Given' /\ CallInv'
    BY DEF TypeOK, CallsOK, StreamType, Given, CallInv
  <2>3. Answers'
    BY DEF Answers, StopEndsData, NothingLeftBuffered, EmptyIsEnd, FailedWriteCloses,
       Returned, Unread
  <2> QED  BY <2>1, <2>2, <2>3, TypePartsNext
<1>2. CASE ReadStep
  BY <1>2, AvailableIInv, ReadChunkIInv, ReadByteIInv, ReadNothingIInv DEF ReadStep
<1> QED
  BY <1>1, <1>2, PeerSendsIInv, PeerIInv, ApplicationIInv, WriteIInv DEF Next

LEMMA Invariance == Spec => []IInv
  BY InitIInv, NextIInv, PTL DEF Spec

\* mbedTLS holds the rest of one record of the stream, and a search reads only
\* when there is a byte.
THEOREM TypeCorrect == Spec => []TypeOK
  BY Invariance, PTL DEF IInv

\* ReadDataUntil takes nothing past the stop byte, and reports it.
THEOREM StopEnds == Spec => []StopEndsData
  BY Invariance, PTL DEF IInv, Answers

\* ReadData without oneChunk leaves no part of a record where select() cannot
\* see it, whatever the sizes of the records and of the buffer, if that holds a
\* byte.
THEOREM NothingLeft == Spec => []NothingLeftBuffered
  BY Invariance, PTL DEF IInv, Answers

\* An empty answer on an open connection is the end of the stream, if the buffer
\* holds a byte and no signal ended the call.
THEOREM EmptyMeansEnd == Spec => []EmptyIsEnd
  BY Invariance, PTL DEF IInv, Answers

\* After a failed write that may have left half a record nothing more is
\* written.
THEOREM FailureCloses == Spec => []FailedWriteCloses
  BY Invariance, PTL DEF IInv, Answers

----------------------------------------------------------------------------
(* The client gives its application the stream: a read that returns bytes  *)
(* is a delivery, Disconnect and every failure the close, a record the     *)
(* peer's send, and every other step a stutter.                            *)

LEMMA StreamInit == Init => S!StreamInit
<1> SUFFICES ASSUME Init PROVE S!StreamInit
  OBVIOUS
<1>1. <<>> \o <<>> = <<>>
  BY ConcatEmptySeq, EmptySeq
<1> QED  BY <1>1 DEF Init, S!StreamInit

LEMMA TakeDelivers ==
  ASSUME IInv, NEW max \in Nat, Take(max)
  PROVE  S!Deliver \/ UNCHANGED S!streamVars
<1>1. PICK n \in 0..Unread : got \o data' = SubSeq(sent, 1, read + n)
  BY TakeReads
<1>2. got' = got /\ sent' = sent /\ connected' = connected
  BY DEF Take, peerVars, argVars
<1>3. read \in Nat /\ Len(sent) \in Nat /\ read <= Len(sent) /\ Unread = Len(sent) - read
  BY LenProperties DEF IInv, TypeOK, StreamType, Unread
<1>4. Len(got \o data) = read
  <2>1. \A i \in 1..read : sent[i] \in Nat
    BY <1>3, ElementOfSeq DEF IInv, StreamType
  <2>2. Len(SubSeq(sent, 1, read)) = IF 1 <= read THEN read - 1 + 1 ELSE 0
    BY <1>3, <2>1, SubSeqProperties
  <2> QED  BY <1>3, <2>2 DEF IInv, Given
<1>5. connected
  BY DEF IInv, CallInv, Take
<1>6. CASE n > 0
  <2>1. n \in 1..(Len(sent) - Len(got \o data))
    BY <1>1, <1>3, <1>4, <1>6
  <2> QED  BY <1>1, <1>2, <1>4, <1>5, <2>1 DEF S!Deliver
<1>7. CASE n = 0
  <2>1. got \o data' = got \o data
    BY <1>1, <1>3, <1>7 DEF IInv, Given
  <2> QED  BY <1>2, <2>1 DEF S!streamVars
<1> QED  BY <1>1, <1>6, <1>7

LEMMA FailsCloses ==
  ASSUME connected, Fails, UNCHANGED <<sent, got, data>>
  PROVE  S!Close
  BY DEF Fails, S!Close

LEMMA NextStream == IInv /\ [Next]_vars => [S!StreamNext]_(S!streamVars)
<1> SUFFICES ASSUME IInv, [Next]_vars
             PROVE  S!StreamNext \/ UNCHANGED S!streamVars
  OBVIOUS
<1>1. ASSUME NEW record \in Records, PeerSends(record) PROVE S!PeerSends
  <2>1. record \in Seq(Nat) /\ record # <<>> /\ sent \in Seq(Nat)
    BY TlsTransferAssumption DEF IInv, StreamType
  <2>2. IsStrictPrefix(sent, sent \o record)
    <3>1. Len(sent) \in Nat
      BY <2>1, LenProperties
    <3> QED  BY <2>1, <3>1, BeginningKept
  <2> QED
    BY <1>1, <2>2 DEF PeerSends, taskVars, argVars, S!PeerSends, S!IsStrictPrefix,
       S!IsPrefix, IsStrictPrefix, IsPrefix
<1>2. CASE ReadChunk \/ ReadByte
  BY <1>2, TakeDelivers, TlsTransferAssumption DEF ReadChunk, ReadByte, S!StreamNext
<1>3. ASSUME NEW name, NEW label, Begin(name, label) PROVE UNCHANGED S!streamVars
  <2>1. got' = got \o data /\ data' = <<>>
    BY <1>3 DEF Begin
  <2>2. got \o data \in Seq(Nat)
    BY ConcatProperties DEF IInv, StreamType
  <2>3. (got \o data) \o <<>> = got \o data
    BY <2>2, ConcatEmptySeq
  <2>4. sent' = sent /\ connected' = connected
    BY <1>3 DEF Begin, peerVars
  <2> QED  BY <2>1, <2>3, <2>4 DEF S!streamVars
<1>4. CASE Disconnect
  BY <1>4 DEF Disconnect, peerVars, argVars, S!StreamNext, S!Close
<1>5. CASE ReadNothing \/ WriteFails
  <2>1. connected /\ UNCHANGED <<sent, got, data>>
    BY <1>5 DEF ReadNothing, WriteFails, peerVars, argVars, IInv, CallInv
  <2>2. Fails \/ connected' = connected
    BY <1>5 DEF ReadNothing, WriteFails
  <2> QED  BY <2>1, <2>2, FailsCloses DEF S!StreamNext, S!streamVars
<1>6. CASE \/ PeerNotifies \/ PeerCloses \/ PeerResets \/ UNCHANGED vars
           \/ AvailableBytes \/ WriteRefuses \/ WriteTakes \/ WriteAgain
  BY <1>6 DEF PeerNotifies, PeerCloses, PeerResets, AvailableBytes, WriteRefuses,
     WriteTakes, WriteAgain, vars, taskVars, peerVars, argVars, S!streamVars
<1> QED
  BY <1>1, <1>2, <1>3, <1>4, <1>5, <1>6
     DEF Next, ReadStep, WriteStep, CallReadData, CallReadDataUntil, CallWriteData,
         S!StreamNext

\* The TLS client implements the stream, whatever its records are.
THEOREM ImplementsStream == Spec => StreamKept
<1>1. Init => S!StreamInit
  BY StreamInit
<1>2. IInv /\ [Next]_vars => [S!StreamNext]_(S!streamVars)
  BY NextStream
<1> QED  BY <1>1, <1>2, Invariance, PTL DEF Spec, StreamKept, S!StreamSpec
=============================================================================
