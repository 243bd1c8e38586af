------------------------ MODULE PlainTransferProofs ------------------------
(***************************************************************************)
(* Proofs about PlainTransfer, for any buffer, the empty one included, and  *)
(* any limits, lengths and bytes.                                          *)
(***************************************************************************)
EXTENDS PlainTransfer, SequenceTheorems, TLAPS

----------------------------------------------------------------------------
(* What a piece of the stream is.                                          *)

\* The bytes that wait are bytes of the stream.
LEMMA WaitingBytes ==
  ASSUME TypeOK
  PROVE  /\ Waiting \in Seq(Bytes)
         /\ Len(Waiting) = Len(sent) - read
         /\ \A i \in 1..Len(Waiting) : Waiting[i] = sent[read + i]
<1>1. read \in Nat /\ Len(sent) \in Nat /\ read <= Len(sent)
  BY LenProperties DEF TypeOK
<1>2. \A i \in (read + 1)..Len(sent) : sent[i] \in Bytes
  BY <1>1, ElementOfSeq DEF TypeOK
<1>3. /\ Waiting \in Seq(Bytes)
      /\ Len(Waiting) = IF read + 1 <= Len(sent) THEN Len(sent) - (read + 1) + 1 ELSE 0
      /\ \A i \in 1..(Len(sent) - (read + 1) + 1) : Waiting[i] = sent[read + 1 + i - 1]
  BY <1>1, <1>2, SubSeqProperties DEF Waiting
<1> QED  BY <1>1, <1>3

\* So is the piece of them recv() returns.
LEMMA ReceivedBytes ==
  ASSUME TypeOK, NEW n \in 1..Len(Waiting)
  PROVE  /\ Received(n) \in Seq(Bytes)
         /\ Len(Received(n)) = n
         /\ \A i \in 1..n : Received(n)[i] = Waiting[i]
         /\ Received(n) = SubSeq(sent, read + 1, read + n)
<1>1. /\ Waiting \in Seq(Bytes)
      /\ Len(Waiting) = Len(sent) - read
      /\ read \in Nat /\ Len(sent) \in Nat
  BY WaitingBytes, LenProperties DEF TypeOK
<1>2. \A i \in 1..n : Waiting[i] \in Bytes
  BY <1>1, ElementOfSeq
<1>3. /\ Received(n) \in Seq(Bytes)
      /\ Len(Received(n)) = n
      /\ \A i \in 1..n : Received(n)[i] = Waiting[i]
  BY <1>1, <1>2, SubSeqProperties DEF Received
<1>4. Received(n) = SubSeq(sent, (read + 1) + 1 - 1, (read + 1) + n - 1)
  BY <1>1, SubSeqOfSubSeq DEF Received, Waiting, TypeOK
<1> QED  BY <1>1, <1>3, <1>4

\* The beginning of the stream and the piece after it are a longer beginning.
LEMMA NextPiece ==
  ASSUME NEW s \in Seq(Bytes), NEW m \in 0..Len(s), NEW n \in 0..(Len(s) - m)
  PROVE  SubSeq(s, 1, m) \o SubSeq(s, m + 1, m + n) = SubSeq(s, 1, m + n)
<1>1. Len(s) \in Nat
  BY LenProperties
<1> QED  BY <1>1, ConcatAdjacentSubSeq

\* What the peer adds leaves the beginning of the stream as it is.
LEMMA BeginningKept ==
  ASSUME NEW s \in Seq(Bytes), NEW b \in Bytes, NEW m \in 0..Len(s)
  PROVE  /\ SubSeq(Append(s, b), 1, m) = SubSeq(s, 1, m)
         /\ IsStrictPrefix(s, Append(s, b))
<1>1. /\ Len(s) \in Nat
      /\ Append(s, b) \in Seq(Bytes)
      /\ Append(s, b) = s \o <<b>> /\ <<b>> \in Seq(Bytes)
      /\ Len(Append(s, b)) = Len(s) + 1
  BY LenProperties, AppendProperties, AppendIsConcat
<1>2. ASSUME NEW k \in 0..Len(s) PROVE SubSeq(Append(s, b), 1, k) = SubSeq(s, 1, k)
  <2>1. CASE k = 0
    BY <2>1, SubSeqEmpty
  <2>2. CASE k \in 1..Len(s)
    BY <1>1, <2>2, SubSeqOfConcat1
  <2> QED  BY <1>1, <2>1, <2>2
<1>3. Append(s, b) # s
  BY <1>1
<1> QED  BY <1>1, <1>2, <1>3 DEF IsStrictPrefix, IsPrefix

----------------------------------------------------------------------------
(* The invariant.                                                          *)

\* What calls returned is the part of the stream recv() has returned.
Given == got \o data = SubSeq(sent, 1, read)

\* A call in progress has not ended, and each is in the places of its own; a
\* write has taken nothing yet, and a search has not met the stop byte.
CallInv ==
  /\ pc \in {"size", "select", "recv", "send"} => connected /\ end = "none"
  /\ pc = "size" => call = "ReadData"
  /\ pc \in {"select", "recv"} => call \in {"ReadData", "ReadDataUntil"}
  /\ pc \in {"send", "killed"} => call = "WriteData"
  /\ pc = "send" => put = 0
  /\ pc \in {"select", "recv"} /\ call = "ReadDataUntil" =>
       /\ size = 1 /\ ~found
       /\ \A i \in 1..Len(data) : data[i] # Stop

IInv == TypeOK /\ Given /\ CallInv /\ StopEndsData /\ RetryIsSafe

LEMMA InitIInv == Init => IInv
<1> SUFFICES ASSUME Init PROVE IInv
  OBVIOUS
<1>1. TypeOK
  <2>1. <<>> \in Seq(Bytes) /\ Len(<<>>) = 0
    BY EmptySeq
  <2>2. BufSize \in 0..BufSize /\ MaxSent \in Nat
    BY PlainAssumption
  <2>3. sent = <<>> /\ read = 0 /\ put = 0 /\ length = 0
    BY DEF Init
  <2>4. read \in 0..Len(sent) /\ Len(sent) <= MaxSent /\ put \in 0..length
    BY <2>1, <2>2, <2>3
  <2> QED  BY <2>1, <2>2, <2>4 DEF Init, TypeOK, Ends
<1>2. Given
  BY ConcatEmptySeq, EmptySeq, SubSeqEmpty DEF Init, Given
<1>3. CallInv /\ StopEndsData /\ RetryIsSafe
  BY DEF Init, CallInv, StopEndsData, RetryIsSafe, Returned
<1> QED  BY <1>1, <1>2, <1>3 DEF IInv

\* The peer's steps touch nothing of the calls.
LEMMA PeerIInv ==
  ASSUME IInv, (\E b \in Bytes : PeerSends(b)) \/ PeerCloses \/ PeerResets
  PROVE  IInv'
<1> USE DEF IInv
<1>1. ASSUME NEW b \in Bytes, PeerSends(b) PROVE TypeOK' /\ Given'
  <2>1. /\ Len(sent) \in Nat /\ Len(sent') = Len(sent) + 1 /\ sent' \in Seq(Bytes)
        /\ Len(sent') <= MaxSent
    BY <1>1, AppendProperties, LenProperties, PlainAssumption DEF TypeOK, PeerSends
  <2>2. TypeOK'
    BY <1>1, <2>1 DEF TypeOK, PeerSends, argVars
  <2>3. Given'
    BY <1>1, <2>1, BeginningKept DEF TypeOK, PeerSends, argVars, Given
  <2> QED  BY <2>2, <2>3
<1>2. CASE PeerCloses \/ PeerResets
  <2>1. /\ peer' \in {"open", "closed", "reset", "gone"}
        /\ UNCHANGED <<sent, argVars, read, connected, pc, size, data, found, put, end>>
    BY <1>2 DEF PeerCloses, PeerResets
  <2>2. TypeOK' /\ Given'
    BY <2>1 DEF argVars, TypeOK, Given
  <2>3. CallInv' /\ StopEndsData' /\ RetryIsSafe'
    BY <2>1 DEF argVars, CallInv, StopEndsData, RetryIsSafe, Returned
  <2> QED  BY <2>2, <2>3
<1>3. ASSUME NEW b \in Bytes, PeerSends(b)
      PROVE  CallInv' /\ StopEndsData' /\ RetryIsSafe'
  BY <1>3 DEF PeerSends, argVars, CallInv, StopEndsData, RetryIsSafe, Returned
<1> QED  BY <1>1, <1>2, <1>3

\* The application's calls begin with nothing returned and nothing taken.
LEMMA BeginIInv ==
  ASSUME IInv, NEW name \in {"ReadData", "ReadDataUntil", "WriteData"},
         NEW label \in {"size", "select", "send"}, Begin(name, label),
         name = "ReadData" => label = "size",
         name = "ReadDataUntil" => label = "select" /\ size' = 1 /\ (connected => ~found'),
         name = "WriteData" => label = "send",
         oneChunk' \in BOOLEAN, limit' \in Limits \cup {0}, length' \in Lengths \cup {0},
         size' \in (0..BufSize) \cup {1}, size' = 0 => BufSize = 0, found' \in BOOLEAN
  PROVE  IInv'
<1> USE DEF IInv
<1>1. /\ got' = got \o data /\ got' \in Seq(Bytes)
      /\ data' = <<>> /\ <<>> \in Seq(Bytes) /\ Len(<<>>) = 0
      /\ got' \o data' = got \o data
  <2>1. got' = got \o data /\ data' = <<>>
    BY DEF Begin
  <2>2. got \o data \in Seq(Bytes)
    BY ConcatProperties DEF TypeOK
  <2>3. (got \o data) \o <<>> = got \o data
    BY <2>2, ConcatEmptySeq
  <2> QED  BY <2>1, <2>2, <2>3, EmptySeq
<1>2. /\ call' = name /\ put' = 0
      /\ pc' = (IF connected THEN label ELSE "idle")
      /\ end' = (IF connected THEN "none" ELSE "not connected")
      /\ UNCHANGED <<sent, peer, read, connected>>
  BY DEF Begin, Return, peerVars
<1>3. length' \in Nat
  BY PlainAssumption
<1>4. TypeOK'
  <2>1. pc' \in {"idle", "size", "select", "recv", "send", "killed"} /\ end' \in Ends
    BY <1>2 DEF Ends
  <2>2. call' \in {"none", "ReadData", "ReadDataUntil", "WriteData"}
    BY <1>2
  <2>3. put' = 0
    BY <1>2
  <2>4. 0 \in 0..length'
    BY <1>3
  <2> QED  BY <1>1, <1>2, <2>1, <2>2, <2>3, <2>4 DEF TypeOK
<1>5. Given'
  BY <1>1, <1>2 DEF Given
<1>6. CallInv'
  <2>1. CASE connected
    BY <1>1, <1>2, <2>1 DEF CallInv
  <2>2. CASE ~connected
    BY <1>1, <1>2, <2>2 DEF CallInv
  <2> QED  BY <2>1, <2>2
<1>7. StopEndsData'
  <2>1. data' = <<>> /\ 1..(Len(data') - 1) = {}
    BY <1>1
  <2> QED  BY <2>1 DEF StopEndsData
<1>8. RetryIsSafe'
  BY <1>2 DEF RetryIsSafe, Returned
<1> QED  BY <1>4, <1>5, <1>6, <1>7, <1>8

LEMMA ApplicationIInv ==
  ASSUME IInv,
         \/ \E chunk \in BOOLEAN : CallReadData(chunk)
         \/ \E max \in Limits : CallReadDataUntil(max)
         \/ \E n \in Lengths : CallWriteData(n)
         \/ Disconnect
  PROVE  IInv'
<1>1. ASSUME NEW chunk \in BOOLEAN, CallReadData(chunk) PROVE IInv'
  BY <1>1, BeginIInv DEF CallReadData, IInv, TypeOK
<1>2. ASSUME NEW max \in Limits, CallReadDataUntil(max) PROVE IInv'
  <2>1. found' \in BOOLEAN /\ (connected => ~found')
    BY <1>2 DEF CallReadDataUntil, IInv, TypeOK
  <2>2. size' = 1 /\ size' \in (0..BufSize) \cup {1} /\ (size' = 0 => BufSize = 0)
    BY <1>2 DEF CallReadDataUntil
  <2> QED  BY <1>2, <2>1, <2>2, BeginIInv DEF CallReadDataUntil
<1>3. ASSUME NEW n \in Lengths, CallWriteData(n) PROVE IInv'
  BY <1>3, BeginIInv DEF CallWriteData, IInv, TypeOK
<1>4. CASE Disconnect
  <2>1. /\ UNCHANGED <<sent, peer, read, call, oneChunk, limit, length, got, pc, size, data,
                       found, put, end>>
        /\ pc = "idle" /\ connected' = FALSE
    BY <1>4 DEF Disconnect, peerVars, argVars
  <2>2. TypeOK'
    BY <2>1 DEF IInv, TypeOK
  <2>3. Given' /\ StopEndsData' /\ RetryIsSafe'
    BY <2>1 DEF IInv, Given, StopEndsData, RetryIsSafe, Returned
  <2>4. CallInv'
    BY <2>1 DEF CallInv, IInv
  <2> QED  BY <2>2, <2>3, <2>4 DEF IInv
<1> QED  BY <1>1, <1>2, <1>3, <1>4

----------------------------------------------------------------------------
(* The steps of a read.                                                    *)

\* recv() returns the next bytes of the stream, at least one of them.
LEMMA ReceiveTakes ==
  ASSUME IInv, ReceiveBytes
  PROVE  \E n \in 1..Len(Waiting) :
           /\ n <= size
           /\ data' = data \o Received(n) /\ data' \in Seq(Bytes)
           /\ Len(data') = Len(data) + n
           /\ \A i \in 1..Len(data) : data'[i] = data[i]
           /\ data'[Len(data) + 1] = Waiting[1]
           /\ read' = read + n /\ read' \in 0..Len(sent)
           /\ got \o data' = SubSeq(sent, 1, read + n)
<1> USE DEF IInv
<1>1. /\ Waiting \in Seq(Bytes) /\ Waiting # <<>>
      /\ Len(Waiting) = Len(sent) - read /\ Len(Waiting) \in Nat \ {0}
      /\ read \in Nat /\ Len(sent) \in Nat /\ size \in Nat \ {0}
  BY WaitingBytes, LenProperties, EmptySeq, PlainAssumption DEF TypeOK, ReceiveBytes
<1>2. PICK n \in 1..Len(Waiting) :
        n <= size /\ data' = data \o Received(n) /\ read' = read + n
  <2> DEFINE n == IF size < Len(Waiting) THEN size ELSE Len(Waiting)
  <2>1. n \in 1..Len(Waiting) /\ n <= size
    BY <1>1
  <2>2. data' = data \o Received(n) /\ read' = read + n
    BY DEF ReceiveBytes
  <2> QED  BY <2>1, <2>2
<1>3. /\ Received(n) \in Seq(Bytes) /\ Len(Received(n)) = n
      /\ Received(n)[1] = Waiting[1]
      /\ Received(n) = SubSeq(sent, read + 1, read + n)
  BY <1>1, <1>2, ReceivedBytes
<1>4. /\ data' \in Seq(Bytes) /\ Len(data') = Len(data) + n /\ Len(data) \in Nat
      /\ \A i \in 1..(Len(data) + n) :
           data'[i] = IF i <= Len(data) THEN data[i] ELSE Received(n)[i - Len(data)]
  <2>1. data \in Seq(Bytes) /\ Len(data) \in Nat
    BY LenProperties DEF TypeOK
  <2>2. /\ data \o Received(n) \in Seq(Bytes)
        /\ Len(data \o Received(n)) = Len(data) + Len(Received(n))
        /\ \A i \in 1..(Len(data) + Len(Received(n))) : (data \o Received(n))[i] =
             IF i <= Len(data) THEN data[i] ELSE Received(n)[i - Len(data)]
    BY <1>3, <2>1, ConcatProperties
  <2>3. data' = data \o Received(n) /\ Len(Received(n)) = n
    BY <1>2, <1>3
  <2> QED  BY <2>1, <2>2, <2>3
<1>5. got \o data' = (got \o data) \o Received(n)
  <2>1. got \in Seq(Bytes) /\ data \in Seq(Bytes)
    BY DEF TypeOK
  <2>2. Received(n) \in Seq(Bytes)
    BY <1>3
  <2>3. (got \o data) \o Received(n) = got \o (data \o Received(n))
    BY <2>1, <2>2, ConcatAssociative
  <2> QED  BY <1>2, <2>3
<1>6. read \in 0..Len(sent) /\ n \in 0..(Len(sent) - read)
  BY <1>1, <1>2
<1>7. got \o data' = SubSeq(sent, 1, read + n)
  BY <1>3, <1>5, <1>6, NextPiece DEF Given, TypeOK
<1>8. /\ \A i \in 1..Len(data) : data'[i] = data[i]
      /\ data'[Len(data) + 1] = Waiting[1]
  <2>1. n \in Nat \ {0} /\ Len(data) + 1 \in 1..(Len(data) + n)
    BY <1>1, <1>4
  <2>2. \A i \in 1..Len(data) : i \in 1..(Len(data) + n) /\ i <= Len(data)
    BY <1>4, <2>1
  <2>3. data'[Len(data) + 1] = Received(n)[1]
    BY <1>4, <2>1
  <2> QED  BY <1>3, <1>4, <2>2, <2>3
<1>9. read' \in 0..Len(sent)
  BY <1>1, <1>2, <1>6
<1>10. /\ n \in 1..Len(Waiting) /\ n <= size
       /\ data' = data \o Received(n) /\ read' = read + n
       /\ data' \in Seq(Bytes) /\ Len(data') = Len(data) + n
  BY <1>2, <1>4
<1> QED  BY <1>7, <1>8, <1>9, <1>10, Zenon

LEMMA ReceiveIInv ==
  ASSUME IInv, ReceiveChunk \/ ReceiveByte
  PROVE  IInv'
<1> USE DEF IInv
<1>1. ReceiveBytes /\ pc = "recv"
  BY DEF ReceiveChunk, ReceiveByte, ReceiveBytes
<1>2. PICK n \in 1..Len(Waiting) :
           /\ n <= size
           /\ data' \in Seq(Bytes)
           /\ Len(data') = Len(data) + n
           /\ \A i \in 1..Len(data) : data'[i] = data[i]
           /\ data'[Len(data) + 1] = Waiting[1]
           /\ read' = read + n /\ read' \in 0..Len(sent)
           /\ got \o data' = SubSeq(sent, 1, read + n)
  BY <1>1, ReceiveTakes
<1>3. UNCHANGED <<sent, peer, call, oneChunk, limit, length, got, connected, size, put>>
  BY <1>1 DEF ReceiveBytes, peerVars, argVars
<1>4. Given'
  BY <1>2, <1>3 DEF Given
<1>5. CASE ReceiveChunk
  <2>1. /\ call = "ReadData" /\ found' = found
        /\ \/ pc' = "size" /\ end' = end
           \/ pc' = "idle" /\ end' = "done"
    BY <1>5 DEF ReceiveChunk, Return
  <2>2. TypeOK'
    <3>1. pc' \in {"idle", "size"} /\ end' \in Ends /\ found' \in BOOLEAN
      BY <2>1 DEF TypeOK, Ends
    <3>2. size' \in (0..BufSize) \cup {1} /\ (size' = 0 => BufSize = 0) /\ put' \in 0..length'
      BY <1>3 DEF TypeOK
    <3> QED  BY <1>2, <1>3, <3>1, <3>2 DEF TypeOK
  <2>3. CallInv'
    BY <1>1, <1>3, <2>1 DEF CallInv
  <2>4. StopEndsData' /\ RetryIsSafe'
    BY <1>3, <2>1 DEF StopEndsData, RetryIsSafe, Returned
  <2> QED  BY <1>4, <2>2, <2>3, <2>4
<1>6. CASE ReceiveByte
  <2>1. /\ call = "ReadDataUntil" /\ found' = (Waiting[1] = Stop)
        /\ \/ pc' = "select" /\ end' = end /\ ~found'
           \/ pc' = "idle" /\ end' = "done"
    BY <1>6 DEF ReceiveByte, Return, FoundIn, SearchMore
  <2>2. TypeOK'
    BY <1>2, <1>3, <2>1 DEF TypeOK, Ends
  <2>3. size = 1 /\ ~found /\ \A i \in 1..Len(data) : data[i] # Stop
    BY <1>1, <2>1 DEF CallInv
  <2>4. n = 1 /\ Len(data) \in Nat
    BY <1>2, <2>3, LenProperties DEF TypeOK
  <2>5. \A i \in 1..Len(data) : data'[i] # Stop
    BY <1>2, <2>3
  <2>6. ~found' => \A i \in 1..Len(data') : data'[i] # Stop
    <3>1. \A i \in 1..Len(data') : i \in 1..Len(data) \/ i = Len(data) + 1
      BY <1>2, <2>4
    <3> QED  BY <1>2, <2>1, <2>5, <3>1
  <2>7. CallInv'
    BY <1>1, <1>3, <2>1, <2>3, <2>6 DEF CallInv
  <2>8. StopEndsData'
    <3>1. Len(data') - 1 = Len(data) /\ Last(data') = Waiting[1]
      BY <1>2, <2>4 DEF Last
    <3> QED  BY <2>1, <2>5, <3>1 DEF StopEndsData
  <2>9. RetryIsSafe'
    BY <1>3, <2>1 DEF RetryIsSafe, Returned
  <2> QED  BY <1>4, <2>2, <2>7, <2>8, <2>9
<1> QED  BY <1>5, <1>6

\* The other steps of a read, and those of a write, return no byte.
LEMMA WaitIInv ==
  ASSUME IInv, SizeRead \/ SelectReady \/ SelectEnds \/ ReceiveNothing \/ ReceiveError
  PROVE  IInv'
<1> USE DEF IInv
<1>1. UNCHANGED <<sent, call, oneChunk, limit, length, got, read, connected, data, put>>
  BY DEF SizeRead, SelectReady, SelectEnds, ReceiveNothing, ReceiveError, peerVars, argVars
<1>2. Given'
  BY <1>1 DEF Given
<1>3. call \in {"ReadData", "ReadDataUntil"}
  BY DEF CallInv, SizeRead, SelectReady, SelectEnds, ReceiveNothing, ReceiveError
<1>4. RetryIsSafe'
  BY <1>1, <1>3 DEF RetryIsSafe, Returned
<1>5. CASE SizeRead
  <2>1. /\ peer' \in {"open", "closed", "reset", "gone"}
        /\ pc = "size" /\ pc' = "select" /\ found' = found /\ end' = end
    BY <1>5 DEF SizeRead, ReceiptOfNothing, TypeOK
  <2>2. size' \in 0..BufSize /\ (size' = 0 => BufSize = 0)
    <3>1. Len(Waiting) \in Nat /\ (Waiting # <<>> => Len(Waiting) # 0)
      BY WaitingBytes, EmptySeq, LenProperties
    <3> QED  BY <1>5, <3>1, PlainAssumption DEF SizeRead, ReadSize
  <2>3. TypeOK'
    BY <1>1, <2>1, <2>2 DEF TypeOK
  <2>4. CallInv' /\ StopEndsData'
    BY <1>1, <2>1 DEF CallInv, StopEndsData
  <2> QED  BY <1>2, <1>4, <2>3, <2>4
<1>6. CASE SelectReady
  <2>1. /\ UNCHANGED <<peer, size, found, end>>
        /\ pc = "select" /\ pc' = "recv"
    BY <1>6 DEF SelectReady, peerVars
  <2>2. TypeOK'
    BY <1>1, <2>1 DEF TypeOK
  <2>3. CallInv' /\ StopEndsData'
    BY <1>1, <2>1 DEF CallInv, StopEndsData
  <2> QED  BY <1>2, <1>4, <2>2, <2>3
<1>7. CASE SelectEnds \/ ReceiveNothing \/ ReceiveError
  <2>1. /\ size' = size /\ peer' \in {"open", "closed", "reset", "gone"}
        /\ pc \in {"select", "recv"} /\ pc' = "idle"
        /\ end' \in Ends /\ (found => found') /\ found' \in BOOLEAN
    BY <1>7
       DEF SelectEnds, ReceiveNothing, EofStops, ReceiveError, Return, Ends, TypeOK, peerVars
  <2>2. TypeOK'
    BY <1>1, <2>1 DEF TypeOK
  <2>3. CallInv'
    BY <1>1, <2>1 DEF CallInv
  <2>4. StopEndsData'
    <3>1. SUFFICES ASSUME call = "ReadDataUntil" PROVE StopEndsData'
      BY <1>1 DEF StopEndsData
    <3>2. \A i \in 1..Len(data) : data[i] # Stop
      BY <2>1, <3>1 DEF CallInv
    <3>3. Len(data) \in Nat /\ (data # <<>> => Len(data) \in 1..Len(data))
      BY LenProperties, EmptySeq DEF TypeOK
    <3> QED  BY <1>1, <3>2, <3>3 DEF StopEndsData, Last
  <2> QED  BY <1>2, <1>4, <2>2, <2>3, <2>4
<1> QED  BY <1>5, <1>6, <1>7

LEMMA WriteIInv ==
  ASSUME IInv, WriteStep
  PROVE  IInv'
<1> USE DEF IInv
<1>1. /\ UNCHANGED <<sent, call, oneChunk, limit, length, got, size, read, connected,
                     data, found>>
      /\ peer' \in {"open", "closed", "reset", "gone"}
      /\ pc = "send" /\ pc' \in {"idle", "killed"} /\ end' \in Ends
      /\ put' \in 0..length /\ (end' # "done" => put' = put)
  <2>1. length \in Nat
    BY PlainAssumption DEF TypeOK
  <2>2. CASE WriteRefuses \/ SendFails \/ SendBroken
    BY <2>2 DEF WriteRefuses, SendFails, SendBroken, Return, Ends, TypeOK, peerVars, argVars
  <2>3. CASE SendTakes
    <3>1. put' \in 0..length
      BY <2>1, <2>3 DEF SendTakes
    <3> QED
      BY <2>3, <3>1 DEF SendTakes, Accepted, Return, Ends, TypeOK, peerVars, argVars
  <2> QED  BY <2>2, <2>3 DEF WriteStep
<1>2. call = "WriteData" /\ put = 0
  BY <1>1 DEF CallInv
<1>3. TypeOK' /\ Given'
  BY <1>1 DEF TypeOK, Given
<1>4. CallInv' /\ StopEndsData' /\ RetryIsSafe'
  BY <1>1, <1>2 DEF CallInv, StopEndsData, RetryIsSafe, Returned
<1> QED  BY <1>3, <1>4

LEMMA NextIInv == IInv /\ [Next]_vars => IInv'
<1> SUFFICES ASSUME IInv, [Next]_vars PROVE IInv'
  OBVIOUS
<1>1. CASE UNCHANGED vars
  BY <1>1 DEF vars, peerVars, argVars, IInv, TypeOK, Given, CallInv, StopEndsData,
     RetryIsSafe, Returned, Waiting
<1>2. CASE ReadStep
  BY <1>2, WaitIInv, ReceiveIInv DEF ReadStep
<1> QED
  BY <1>1, <1>2, PeerIInv, ApplicationIInv, WriteIInv DEF Next

LEMMA Invariance == Spec => []IInv
  BY InitIInv, NextIInv, PTL DEF Spec

\* Reads stay within the stream and never ask recv() for nothing, unless the
\* buffer is empty.
THEOREM TypeCorrect == Spec => []TypeOK
  BY Invariance, PTL DEF IInv

\* ReadDataUntil takes nothing past the stop byte, and reports it.
THEOREM StopEnds == Spec => []StopEndsData
  BY Invariance, PTL DEF IInv

\* What a failed WriteData was given can be written again.
THEOREM RetrySafe == Spec => []RetryIsSafe
  BY Invariance, PTL DEF IInv

\* A step of ReadData that is to return all there is, and returns, finds
\* nothing waiting.
LEMMA ReadLeavesNothing ==
  ASSUME BufSize > 0, IInv, ReadStep, call = "ReadData", ~oneChunk,
         end' \notin {"none", "failed"}
  PROVE  Waiting' = <<>>
<1>1. pc \in {"size", "select", "recv"} /\ end = "none"
  BY DEF ReadStep, SizeRead, SelectReady, SelectEnds, ReceiveNothing, ReceiveError,
     ReceiveChunk, ReceiveByte, ReceiveBytes, IInv, CallInv
<1>2. end' # end /\ end' # "failed"
  BY <1>1
<1>3. ~SizeRead /\ ~SelectReady /\ ~ReceiveByte
  BY <1>2 DEF SizeRead, SelectReady, ReceiveByte
<1>4. ~ReceiveChunk
  BY <1>2 DEF ReceiveChunk, ReadMore
<1>5. Waiting = <<>> /\ UNCHANGED <<sent, read>>
  <2>1. size # 0
    BY DEF IInv, TypeOK
  <2> QED
    BY <1>2, <1>3, <1>4, <2>1 DEF ReadStep, SelectEnds, Readable, ReceiveNothing, Eof,
       ReceiveError, Return, peerVars
<1> QED  BY <1>5 DEF Waiting

\* ReadData without oneChunk leaves behind nothing that had arrived, in however
\* many pieces and into however small a buffer, if it holds a byte.
THEOREM ReadsAll == Spec => NotTruncated
<1>1. IInv /\ [Next]_vars =>
        (BufSize > 0 /\ ReadStep /\ call = "ReadData" /\ ~oneChunk
           /\ end' \notin {"none", "failed"} => Waiting' = <<>>)
  BY ReadLeavesNothing
<1> QED  BY <1>1, Invariance, PTL DEF Spec, NotTruncated

----------------------------------------------------------------------------
(* The client gives its application the stream: a recv() that returns      *)
(* bytes is a delivery, Disconnect the close, what the peer sends its send *)
(* and every other step a stutter.                                         *)

LEMMA StreamInit == Init => S!StreamInit
<1> SUFFICES ASSUME Init PROVE S!StreamInit
  OBVIOUS
<1>1. <<>> \o <<>> = <<>>
  BY ConcatEmptySeq, EmptySeq
<1> QED  BY <1>1 DEF Init, S!StreamInit

LEMMA ReceiveDelivers ==
  ASSUME IInv, ReceiveBytes, pc = "recv"
  PROVE  S!Deliver
<1>1. PICK n \in 1..Len(Waiting) : got \o data' = SubSeq(sent, 1, read + n)
  BY ReceiveTakes
<1>2. got' = got /\ sent' = sent /\ connected' = connected
  BY DEF ReceiveBytes, peerVars, argVars
<1>3. /\ Len(Waiting) = Len(sent) - read
      /\ read \in Nat /\ Len(sent) \in Nat /\ read <= Len(sent)
  BY WaitingBytes, LenProperties DEF IInv, TypeOK
<1>4. Len(got \o data) = read
  <2>1. \A i \in 1..read : sent[i] \in Bytes
    BY <1>3, ElementOfSeq DEF IInv, TypeOK
  <2>2. Len(SubSeq(sent, 1, read)) = IF 1 <= read THEN read - 1 + 1 ELSE 0
    BY <1>3, <2>1, SubSeqProperties
  <2> QED  BY <1>3, <2>2 DEF IInv, Given
<1>5. n \in 1..(Len(sent) - Len(got \o data))
  BY <1>1, <1>3, <1>4
<1>6. connected
  BY DEF IInv, CallInv
<1> QED  BY <1>1, <1>2, <1>4, <1>5, <1>6 DEF S!Deliver

LEMMA NextStream == IInv /\ [Next]_vars => [S!StreamNext]_(S!streamVars)
<1> SUFFICES ASSUME IInv, [Next]_vars
             PROVE  S!StreamNext \/ UNCHANGED S!streamVars
  OBVIOUS
<1>1. ASSUME NEW b \in Bytes, PeerSends(b) PROVE S!PeerSends
  BY <1>1, BeginningKept, LenProperties
     DEF PeerSends, argVars, S!PeerSends, S!IsStrictPrefix, S!IsPrefix, IInv, TypeOK,
         IsStrictPrefix, IsPrefix
<1>2. CASE ReceiveChunk \/ ReceiveByte
  BY <1>2, ReceiveDelivers DEF ReceiveChunk, ReceiveByte, ReceiveBytes, S!StreamNext
<1>3. ASSUME NEW name, NEW label, Begin(name, label) PROVE UNCHANGED S!streamVars
  <2>1. got' \o data' = got \o data
    BY <1>3, ConcatProperties, ConcatEmptySeq DEF Begin, IInv, TypeOK
  <2> QED  BY <1>3, <2>1 DEF Begin, peerVars, S!streamVars
<1>4. CASE Disconnect
  BY <1>4 DEF Disconnect, peerVars, argVars, S!StreamNext, S!Close
<1>5. CASE \/ PeerCloses \/ PeerResets \/ UNCHANGED vars
           \/ SizeRead \/ SelectReady \/ SelectEnds \/ ReceiveNothing \/ ReceiveError
           \/ WriteStep
  BY <1>5 DEF PeerCloses, PeerResets, SizeRead, SelectReady, SelectEnds, ReceiveNothing,
     ReceiveError, WriteStep, WriteRefuses, SendTakes, SendFails, SendBroken, vars,
     peerVars, argVars, S!streamVars
<1> QED
  BY <1>1, <1>2, <1>3, <1>4, <1>5
     DEF Next, ReadStep, CallReadData, CallReadDataUntil, CallWriteData, S!StreamNext

\* The plain client implements the stream.
THEOREM ImplementsStream == Spec => StreamKept
<1>1. Init => S!StreamInit
  BY StreamInit
<1>2. IInv /\ [Next]_vars => [S!StreamNext]_(S!streamVars)
  BY NextStream
<1> QED  BY <1>1, <1>2, Invariance, PTL DEF Spec, StreamKept, S!StreamSpec
=============================================================================
