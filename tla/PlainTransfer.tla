--------------------------- MODULE PlainTransfer ---------------------------
(***************************************************************************)
(* ReadData, ReadDataUntil and WriteData of the plain                      *)
(* BriandIDFSocketClient, on one connection whose peer sends, closes and   *)
(* resets at any moment.  A step is a system call: bytes may arrive        *)
(* between the receipt of nothing, select() and recv().  Time is left out: *)
(* a wait that has a timeout may end whenever there is nothing to wait     *)
(* for.  VERBOSE is off.                                                   *)
(***************************************************************************)
EXTENDS Integers, Sequences, SequencesExt

\* The socket has its timeouts from Connect: they are there when IO_TIMEOUT_S was
\* set by then and setsockopt() did not fail; a later SetTimeout changes neither.
CONSTANTS Stop,            \* the byte ReadDataUntil looks for
          Limits,          \* the limits it is given
          Lengths,         \* lengths of the data WriteData is given
          BufSize,         \* RECV_BUF_SIZE, which may be zero
          ReceiveTimeout,  \* whether Connect gave the socket SO_RCVTIMEO
          SendTimeout,     \* whether Connect gave the socket SO_SNDTIMEO
          MaxSent          \* bound: bytes the peer sends

\* The byte a read buffer is cleared to, and one that stands for the others.
Bytes == {0, 1}

ASSUME PlainAssumption ==
  /\ Stop \in Bytes
  /\ Limits \subseteq Nat /\ Lengths \subseteq Nat
  /\ BufSize \in Nat
  /\ ReceiveTimeout \in BOOLEAN /\ SendTimeout \in BOOLEAN
  /\ MaxSent \in Nat

VARIABLES
  sent,       \* every byte the peer has sent
  read,       \* how many of them recv() has returned
  peer,       \* "open", "closed", "reset", or "gone" once it needs no report
  connected,  \* CONNECTED
  pc,         \* where the task is
  call,       \* the call in progress, or the last one
  oneChunk,   \* its argument, for ReadData
  limit,      \* its argument, for ReadDataUntil
  length,     \* its argument, for WriteData
  got,        \* what earlier calls returned
  size,       \* READ_SIZE
  data,       \* the bytes it returns
  found,      \* the caller's variable, passed by reference
  put,        \* how much of its data send() took
  end         \* why it returned

peerVars == <<sent, peer>>
argVars == <<call, oneChunk, limit, length, got>>
vars == <<peerVars, argVars, read, connected, pc, size, data, found, put, end>>

Ends == {"none", "not connected", "timeout", "failed", "eof", "error", "done", "killed"}

\* What waits in the socket; it can still be read after a reset.
Waiting == SubSeq(sent, read + 1, Len(sent))

----------------------------------------------------------------------------
(* The peer.                                                               *)

PeerSends(b) ==
  /\ peer = "open" /\ Len(sent) < MaxSent
  /\ sent' = Append(sent, b)
  /\ UNCHANGED <<peer, argVars, read, connected, pc, size, data, found, put, end>>

PeerCloses ==
  /\ peer = "open"
  /\ peer' = "closed"
  /\ UNCHANGED <<sent, argVars, read, connected, pc, size, data, found, put, end>>

\* After a close Linux reports no reset: reads end and writes fail at once.
PeerResets ==
  /\ \/ peer = "open" /\ peer' = "reset"
     \/ peer = "closed" /\ peer' \in {"reset", "gone"}
  /\ UNCHANGED <<sent, argVars, read, connected, pc, size, data, found, put, end>>

----------------------------------------------------------------------------
(* The calls.                                                              *)

Return(why) == pc' = "idle" /\ end' = why

\* A client that is not connected returns no data and leaves found alone.
Begin(name, label) ==
  /\ pc = "idle"
  /\ call' = name
  /\ got' = got \o data
  /\ data' = <<>>
  /\ put' = 0
  /\ IF connected THEN pc' = label /\ end' = "none" ELSE Return("not connected")
  /\ UNCHANGED <<peerVars, read, connected>>

CallReadData(chunk) ==
  /\ Begin("ReadData", "size")
  /\ oneChunk' = chunk
  /\ limit' = 0 /\ length' = 0
  /\ UNCHANGED <<size, found>>

CallReadDataUntil(max) ==
  /\ Begin("ReadDataUntil", "select")
  /\ oneChunk' = FALSE
  /\ limit' = max /\ length' = 0
  /\ size' = 1
  /\ found' = (found /\ ~connected)

CallWriteData(n) ==
  /\ Begin("WriteData", "send")
  /\ oneChunk' = FALSE
  /\ limit' = 0 /\ length' = n
  /\ UNCHANGED <<size, found>>

Disconnect ==
  /\ pc = "idle" /\ connected
  /\ connected' = FALSE
  /\ UNCHANGED <<peerVars, argVars, read, pc, size, data, found, put, end>>

----------------------------------------------------------------------------
(* ReadData and ReadDataUntil.                                             *)

Readable == Waiting # <<>> \/ peer # "open"

\* recv() of no bytes waits like any other, for as long as the receive timeout of
\* the socket says, and may be the one to be told of a reset; its result is
\* dropped.
ReceiptOfNothing ==
  /\ Readable \/ ReceiveTimeout
  /\ IF peer = "reset" /\ Waiting = <<>> THEN peer' \in {"reset", "gone"} ELSE UNCHANGED peer

\* Mutant: what waits is asked for exactly, however much or little it is.
ReadSizeExact == Len(Waiting)

\* FIONREAD: a short rest is asked for exactly.
ReadSize ==
  IF Waiting # <<>> /\ Len(Waiting) < BufSize THEN Len(Waiting) ELSE BufSize

SizeRead ==
  /\ pc = "size"
  /\ ReceiptOfNothing
  /\ size' = ReadSize
  /\ pc' = "select"
  /\ UNCHANGED <<sent, argVars, read, connected, data, found, put, end>>

SelectReady ==
  /\ pc = "select" /\ Readable
  /\ pc' = "recv"
  /\ UNCHANGED <<peerVars, argVars, read, connected, size, data, found, put, end>>

SelectEnds ==
  /\ pc = "select"
  /\ \/ ~Readable /\ Return("timeout")
     \/ Return("failed")
  /\ UNCHANGED <<peerVars, argVars, read, connected, size, data, found, put>>

\* recv() returns no byte at the end of what was sent, unless a reset has yet
\* to be reported; and it returns none when none was asked for.
Eof == IF Waiting = <<>> THEN peer # "reset" ELSE size = 0

\* Mutant: no byte received is no reason to stop.
EofGoesOn == pc' = "select" /\ UNCHANGED end

EofStops == Return("eof")

ReceiveNothing ==
  /\ pc = "recv" /\ Eof
  /\ EofStops
  /\ UNCHANGED <<peerVars, argVars, read, connected, size, data, found, put>>

\* ReadDataUntil looks at its one-byte buffer, whether recv() filled it or not.
FoundIn(b) == b = Stop

\* recv() fails, and the loop ends; the buffer keeps the zero it was cleared to.
ReceiveError ==
  /\ pc = "recv" /\ peer = "reset" /\ Waiting = <<>>
  /\ peer' = "gone"
  /\ Return("error")
  /\ found' = IF call = "ReadDataUntil" THEN found \/ FoundIn(0) ELSE found
  /\ UNCHANGED <<sent, argVars, read, connected, size, data, put>>

\* Mutant: what is left fits the buffer, so that must be all (the code removed
\* this condition: "truncated response risk").
ReadMoreIfLong == ~oneChunk /\ Len(Waiting) > BufSize

ReadMore == ~oneChunk

\* Mutant: only the limit ends the search.
SearchToLimit(max) == Len(data') < max

SearchMore(max) == ~found' /\ Len(data') < max

\* Mutant: the whole buffer is inserted, received or not.
ReceivedBuffer(n) == [i \in 1..size |-> IF i <= n THEN Waiting[i] ELSE 0]

Received(n) == SubSeq(Waiting, 1, n)

\* recv() returns what waits, up to the size asked for.
ReceiveBytes ==
  /\ pc = "recv" /\ Waiting # <<>> /\ size > 0
  /\ LET n == IF size < Len(Waiting) THEN size ELSE Len(Waiting)
     IN  /\ data' = data \o Received(n)
         /\ read' = read + n
  /\ UNCHANGED <<peerVars, argVars, connected, size, put>>

ReceiveChunk ==
  /\ call = "ReadData"
  /\ ReceiveBytes
  /\ IF ReadMore THEN pc' = "size" /\ UNCHANGED end ELSE Return("done")
  /\ UNCHANGED found

ReceiveByte ==
  /\ call = "ReadDataUntil"
  /\ ReceiveBytes
  /\ found' = FoundIn(Waiting[1])
  /\ IF SearchMore(limit) THEN pc' = "select" /\ UNCHANGED end ELSE Return("done")

----------------------------------------------------------------------------
(* WriteData: "done" is the answer true, every other end false.            *)

WriteRefuses ==
  /\ pc = "send" /\ length = 0
  /\ Return("failed")
  /\ UNCHANGED <<peerVars, argVars, read, connected, size, data, found, put>>

\* Mutant: anything less than all of it is a failure.
WholeOrNothing == put' = length

Accepted == TRUE

\* send() takes all, or what fits before the send timeout.
SendTakes ==
  /\ pc = "send" /\ length > 0 /\ peer \in {"open", "closed"}
  /\ \E n \in 1..length : (n = length \/ SendTimeout) /\ put' = n
  /\ IF Accepted THEN Return("done") ELSE Return("error")
  /\ UNCHANGED <<peerVars, argVars, read, connected, size, data, found>>

\* The send timeout passes with no room, or the reset is reported here.
SendFails ==
  /\ pc = "send" /\ length > 0
  /\ IF peer = "reset" THEN peer' = "gone" ELSE SendTimeout /\ peer # "gone" /\ UNCHANGED peer
  /\ Return("error")
  /\ UNCHANGED <<sent, argVars, read, connected, size, data, found, put>>

\* Once the reset was reported, send() without MSG_NOSIGNAL raises SIGPIPE on
\* Linux, whose default action ends the process; on the ESP it fails.
SendBroken ==
  /\ pc = "send" /\ length > 0 /\ peer = "gone"
  /\ \/ pc' = "killed" /\ end' = "killed"
     \/ Return("error")
  /\ UNCHANGED <<peerVars, argVars, read, connected, size, data, found, put>>

----------------------------------------------------------------------------

\* A client that has just connected.
Init ==
  /\ sent = <<>> /\ read = 0 /\ peer = "open" /\ connected = TRUE
  /\ pc = "idle" /\ call = "none" /\ oneChunk = FALSE /\ limit = 0 /\ length = 0
  /\ got = <<>> /\ size = BufSize /\ data = <<>> /\ found = FALSE /\ put = 0
  /\ end = "none"

ReadStep ==
  \/ SizeRead \/ SelectReady \/ SelectEnds
  \/ ReceiveNothing \/ ReceiveError \/ ReceiveChunk \/ ReceiveByte

WriteStep == WriteRefuses \/ SendTakes \/ SendFails \/ SendBroken

Next ==
  \/ \E b \in Bytes : PeerSends(b)
  \/ PeerCloses \/ PeerResets
  \/ \E chunk \in BOOLEAN : CallReadData(chunk)
  \/ \E max \in Limits : CallReadDataUntil(max)
  \/ \E n \in Lengths : CallWriteData(n)
  \/ Disconnect
  \/ ReadStep \/ WriteStep

\* The task runs on, and select() returns at its timeout at the latest; the
\* peer need not do anything and the application need not call anything.
Fairness == WF_vars(ReadStep \/ WriteStep)

Spec == Init /\ [][Next]_vars /\ Fairness

----------------------------------------------------------------------------
(* Properties.                                                             *)

\* Types; a reader is never ahead of the stream, and never asks recv() for
\* nothing, which looks like the end of the stream, but with a buffer of no bytes.
TypeOK ==
  /\ sent \in Seq(Bytes) /\ Len(sent) <= MaxSent
  /\ read \in 0..Len(sent)
  /\ peer \in {"open", "closed", "reset", "gone"}
  /\ connected \in BOOLEAN
  /\ pc \in {"idle", "size", "select", "recv", "send", "killed"}
  /\ call \in {"none", "ReadData", "ReadDataUntil", "WriteData"}
  /\ oneChunk \in BOOLEAN /\ limit \in Limits \cup {0} /\ length \in Lengths \cup {0}
  /\ got \in Seq(Bytes) /\ data \in Seq(Bytes)
  /\ size \in (0..BufSize) \cup {1} /\ (size = 0 => BufSize = 0) /\ put \in 0..length
  /\ found \in BOOLEAN /\ end \in Ends

\* The calls give the application the stream: none of its bytes is lost
\* between two calls or two system calls, made up, or given twice.
S == INSTANCE ByteStream WITH got <- got \o data, open <- connected

StreamKept == S!StreamSpec

Returned(name) == pc = "idle" /\ call = name

\* ReadDataUntil takes nothing beyond the stop byte, and reports it: what
\* follows is left for the next call.
StopEndsData ==
  call = "ReadDataUntil" =>
    /\ \A i \in 1..(Len(data) - 1) : data[i] # Stop
    /\ pc = "idle" /\ data # <<>> /\ Last(data) = Stop => found

\* ReadData without oneChunk never leaves behind bytes that had arrived, unless
\* a system call failed: the response is not truncated however it is cut up.  (A
\* buffer of no bytes truncates every response: recv() is asked for nothing.)
NotTruncated ==
  [][(BufSize > 0 /\ ReadStep /\ call = "ReadData" /\ ~oneChunk /\ end' \notin {"none", "failed"})
       => Waiting' = <<>>]_vars

\* Data WriteData answered false for can be given to it again: the peer got
\* none of it.
RetryIsSafe == Returned("WriteData") /\ end # "done" => put = 0

\* Where Connect set the timeouts, every call ends or takes another byte, whatever
\* the peer does or fails to do: a peer that never stops sending may keep ReadData
\* for ever, a silent, closed or reset one may not.  The one write that ends the
\* process does not return either.
CallsReturnOrRead ==
  \A n \in 0..MaxSent :
    (pc # "idle" /\ read = n) ~> (pc \in {"idle", "killed"} \/ read > n)

----------------------------------------------------------------------------
(* What the comments of the code say and the code does not do.             *)

\* "if timeout is not specified, a default 10 seconds will be used".
ReadsTimeOut == pc = "size" ~> pc = "idle"
=============================================================================
