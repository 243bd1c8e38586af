---------------------------- MODULE TlsTransfer ----------------------------
(***************************************************************************)
(* ReadData, ReadDataUntil and WriteData of BriandIDFSocketTlsClient on    *)
(* one connection.  mbedTLS takes one record at a time from the socket and *)
(* keeps what a read leaves of it; the peer sends records, says that it    *)
(* closes, closes and resets at any moment.  A step is a call of mbedTLS.  *)
(* A record arrives whole: a part of one is not there yet.  Time is left   *)
(* out: a wait that has a timeout may end when there is nothing to wait    *)
(* for.  VERBOSE is off.                                                   *)
(***************************************************************************)
EXTENDS Integers, Sequences, SequencesExt, FiniteSetsExt

\* The connection has its timeouts from Connect: they are there when IO_TIMEOUT_S
\* was set by then and, for writes, setsockopt() did not fail; a later SetTimeout
\* changes neither.
CONSTANTS Stop,          \* the byte ReadDataUntil looks for
          Limits,        \* the limits it is given
          Lengths,       \* lengths of the data WriteData is given
          BufSize,       \* RECV_BUF_SIZE, which may be zero
          MaxFragment,   \* what mbedtls_ssl_write takes at most
          ReadTimeout,   \* whether Connect gave mbedTLS a read timeout
          SendTimeout,   \* whether Connect gave the socket SO_SNDTIMEO
          Records,       \* the records the peer may send
          MaxSent,       \* bound: bytes the peer sends
          MaxInterrupts  \* bound: signals that interrupt a system call

ASSUME TlsTransferAssumption ==
  /\ Stop \in Nat /\ Limits \subseteq Nat /\ Lengths \subseteq Nat
  /\ BufSize \in Nat /\ MaxFragment \in Nat \ {0}
  /\ ReadTimeout \in BOOLEAN /\ SendTimeout \in BOOLEAN
  /\ Records \subseteq Seq(Nat) \ {<<>>}
  /\ MaxSent \in Nat /\ MaxInterrupts \in Nat

VARIABLES
  sent,        \* every byte the peer has sent
  bounds,      \* where the records it sent end
  notice,      \* its close_notify: "none", "waiting" or "taken"
  tcp,         \* "open", "closed", "reset", or "gone" once it needs no report
  interrupts,  \* interrupted system calls so far
  read,        \* how many bytes mbedtls_ssl_read has returned
  buffered,    \* how many more it holds of the current record
  connected,   \* CONNECTED
  pc,          \* where the task is
  call,        \* the call in progress, or the last one
  oneChunk,    \* its argument, for ReadData
  limit,       \* its argument, for ReadDataUntil
  length,      \* its argument, for WriteData
  got,         \* what earlier calls returned
  data,        \* the bytes it returns
  found,       \* the caller's variable, passed by reference
  put,         \* how many bytes of its data may have left
  end          \* why it returned

peerVars == <<sent, bounds>>
lineVars == <<notice, tcp, interrupts>>
argVars == <<call, oneChunk, limit, length, got>>
vars == <<peerVars, lineVars, argVars, read, buffered, connected, pc, data, found, put, end>>

Ends == {"none", "not connected", "nothing", "stopped", "interrupted", "eof", "error", "done"}

----------------------------------------------------------------------------
(* The peer.                                                               *)

taskVars == <<argVars, interrupts, read, buffered, connected, pc, data, found, put, end>>

PeerSends(record) ==
  /\ tcp = "open" /\ notice = "none" /\ Len(sent) + Len(record) <= MaxSent
  /\ sent' = sent \o record
  /\ bounds' = bounds \cup {Len(sent')}
  /\ UNCHANGED <<notice, tcp, taskVars>>

PeerNotifies ==
  /\ tcp = "open" /\ notice = "none"
  /\ notice' = "waiting"
  /\ UNCHANGED <<peerVars, tcp, taskVars>>

PeerCloses ==
  /\ tcp = "open"
  /\ tcp' = "closed"
  /\ UNCHANGED <<peerVars, notice, taskVars>>

\* After a close Linux reports no reset: reads end and writes fail at once.
PeerResets ==
  /\ \/ tcp = "open" /\ tcp' = "reset"
     \/ tcp = "closed" /\ tcp' \in {"reset", "gone"}
  /\ UNCHANGED <<peerVars, notice, taskVars>>

----------------------------------------------------------------------------
(* What mbedtls_ssl_read does when it holds no byte of a record.           *)

Unread == Len(sent) - read
NextRecord == Min({b \in bounds : b > read}) - read

Drained == Unread = 0 /\ notice # "waiting"

Notified == Unread = 0 /\ notice = "waiting" /\ notice' = "taken" /\ UNCHANGED <<tcp, interrupts>>

Eof == Drained /\ tcp \in {"closed", "gone"} /\ UNCHANGED lineVars

\* A reset is reported once; a timeout is an error.
Failed ==
  /\ Drained
  /\ \/ tcp = "reset" /\ tcp' = "gone"
     \/ tcp = "open" /\ ReadTimeout /\ UNCHANGED tcp
  /\ UNCHANGED <<notice, interrupts>>

\* WANT_READ or WANT_WRITE: a signal came first.
Interrupted ==
  /\ interrupts < MaxInterrupts
  /\ interrupts' = interrupts + 1
  /\ UNCHANGED <<notice, tcp>>

----------------------------------------------------------------------------
(* The calls.                                                              *)

Return(why) == pc' = "idle" /\ end' = why
Goto(label) == pc' = label /\ UNCHANGED end

\* A client that is not connected returns no data and leaves found alone.
Begin(name, label) ==
  /\ pc = "idle"
  /\ call' = name
  /\ got' = got \o data
  /\ data' = <<>>
  /\ put' = 0
  /\ IF connected THEN pc' = label /\ end' = "none" ELSE Return("not connected")
  /\ UNCHANGED <<peerVars, lineVars, read, buffered, connected>>

CallReadData(chunk) ==
  /\ Begin("ReadData", "available")
  /\ oneChunk' = chunk /\ limit' = 0 /\ length' = 0
  /\ UNCHANGED found

CallReadDataUntil(max) ==
  /\ Begin("ReadDataUntil", "available")
  /\ oneChunk' = FALSE /\ limit' = max /\ length' = 0
  /\ found' = (found /\ ~connected)

CallWriteData(n) ==
  /\ Begin("WriteData", "write")
  /\ oneChunk' = FALSE /\ limit' = 0 /\ length' = n
  /\ UNCHANGED found

\* The session is freed, and with it what mbedTLS holds.
Disconnect ==
  /\ pc = "idle" /\ connected
  /\ connected' = FALSE /\ buffered' = 0
  /\ UNCHANGED <<peerVars, lineVars, argVars, read, pc, data, found, put, end>>

\* Mutant: the call fails and the connection stays.
FailsConnected == Return("error") /\ UNCHANGED <<connected, buffered>>

\* "Connection must be closed!"
Fails == Return("error") /\ connected' = FALSE /\ buffered' = 0

----------------------------------------------------------------------------
(* ReadData and ReadDataUntil.                                             *)

\* The read of no bytes brings in the next record when there is none.  Whatever
\* else it meets (the notification, the end, an error, a signal) is dropped.
ReadOfNothing ==
  \/ /\ Unread > 0
     /\ buffered' = IF buffered > 0 THEN buffered ELSE NextRecord
     /\ UNCHANGED lineVars
  \/ /\ buffered = 0
     /\ Notified \/ Eof \/ Failed \/ Interrupted
     /\ UNCHANGED buffered

\* Mutants: no call, or every call, ends when AvailableBytes answers zero.
ReadAnyway == FALSE
NeverWait == buffered' = 0

\* ReadDataUntil takes an answer of zero for the end; ReadData reads again.
NothingThere == call = "ReadDataUntil" /\ buffered' = 0

AvailableBytes ==
  /\ pc = "available"
  /\ ReadOfNothing
  /\ IF NothingThere THEN Return("nothing") ELSE Goto("read")
  /\ UNCHANGED <<peerVars, argVars, read, connected, data, found, put>>

\* READ_SIZE: a short rest is asked for exactly.
ReadSize(max) == IF buffered > 0 THEN Min({max, buffered}) ELSE max

\* Mutant: the whole buffer is inserted, filled or not.
InsertedBuffer(n, max) ==
  [i \in 1..ReadSize(max) |-> IF i <= n THEN sent[read + i] ELSE 0]

Inserted(n, max) == SubSeq(sent, read + 1, read + n)

\* mbedtls_ssl_read returns bytes of one record, or none when none was asked for.
Take(max) ==
  /\ pc = "read" /\ Unread > 0
  /\ LET here == IF buffered > 0 THEN buffered ELSE NextRecord
         n == Min({ReadSize(max), here})
     IN  /\ data' = data \o Inserted(n, max)
         /\ read' = read + n
         /\ buffered' = here - n
  /\ UNCHANGED <<peerVars, lineVars, argVars, connected, put>>

\* Mutant: any rest of a record is taken for all there is.
AnyRest == buffered > 0

\* A rest that fits the receiving buffer was the end.
LastRest == buffered \in 1..BufSize

\* "if ret is zero is EOF", a read of nothing included.
ReadZero == BufSize = 0

ReadChunk ==
  /\ call = "ReadData"
  /\ Take(BufSize)
  /\ IF LastRest \/ oneChunk \/ ReadZero THEN Return("done") ELSE Goto("available")
  /\ UNCHANGED found

\* Mutant: only the limit ends the search.
SearchToLimit(max) == Len(data') < max

SearchMore(max) == ~found' /\ Len(data') < max

\* There is a byte: AvailableBytes said so.
ReadByte ==
  /\ call = "ReadDataUntil"
  /\ Take(1)
  /\ found' = (Last(data') = Stop)
  /\ IF SearchMore(limit) THEN Goto("available") ELSE Return("done")

\* Mutant: no byte read is no reason to stop.
EofGoesOn == Goto("available")

EofStops == Return("eof")

\* A signal ends the call, except that WANT_WRITE goes on unless oneChunk.
ReadNothing ==
  /\ pc = "read" /\ buffered = 0
  /\ \/ /\ UNCHANGED <<connected, buffered>>
        /\ \/ Notified /\ Return("stopped")
           \/ Eof /\ EofStops
           \/ Interrupted /\ Return("interrupted")
           \/ Interrupted /\ ~oneChunk /\ Goto("available")
     \/ Failed /\ Fails
  /\ UNCHANGED <<peerVars, argVars, read, data, found, put>>

----------------------------------------------------------------------------
(* WriteData: "done" is the answer true, every other end false.            *)

WriteRefuses ==
  /\ pc = "write" /\ length = 0
  /\ Return("nothing")
  /\ UNCHANGED <<peerVars, lineVars, argVars, read, buffered, connected, data, found, put>>

\* mbedtls_ssl_write takes one record's worth at most.
WriteTakes ==
  /\ pc = "write" /\ length > 0 /\ tcp \in {"open", "closed"}
  /\ put' = Min({length, MaxFragment})
  /\ Return("done")
  /\ UNCHANGED <<peerVars, lineVars, argVars, read, buffered, connected, data, found>>

WriteAgain ==
  /\ pc = "write" /\ length > 0
  /\ Interrupted
  /\ UNCHANGED <<peerVars, argVars, read, buffered, connected, pc, data, found, put, end>>

\* A reset, or a timeout in the middle of the record.
WriteFails ==
  /\ pc = "write" /\ length > 0
  /\ tcp \in {"reset", "gone"} \/ SendTimeout
  /\ tcp' = IF tcp = "reset" THEN "gone" ELSE tcp
  /\ put' \in 0..Min({length, MaxFragment})
  /\ Fails
  /\ UNCHANGED <<peerVars, notice, interrupts, argVars, read, data, found>>

----------------------------------------------------------------------------

\* A client that has just connected.
Init ==
  /\ sent = <<>> /\ bounds = {} /\ notice = "none" /\ tcp = "open" /\ interrupts = 0
  /\ read = 0 /\ buffered = 0 /\ connected = TRUE
  /\ pc = "idle" /\ call = "none" /\ oneChunk = FALSE /\ limit = 0 /\ length = 0
  /\ got = <<>> /\ data = <<>> /\ found = FALSE /\ put = 0 /\ end = "none"

ReadStep == AvailableBytes \/ ReadChunk \/ ReadByte \/ ReadNothing
WriteStep == WriteRefuses \/ WriteTakes \/ WriteAgain \/ WriteFails

Next ==
  \/ \E record \in Records : PeerSends(record)
  \/ PeerNotifies \/ PeerCloses \/ PeerResets
  \/ \E chunk \in BOOLEAN : CallReadData(chunk)
  \/ \E max \in Limits : CallReadDataUntil(max)
  \/ \E n \in Lengths : CallWriteData(n)
  \/ Disconnect
  \/ ReadStep \/ WriteStep

\* The task runs on, and a system call returns at its timeout at the latest;
\* the peer need not do anything and the application need not call anything.
Fairness == WF_vars(ReadStep \/ WriteStep)

Spec == Init /\ [][Next]_vars /\ Fairness

----------------------------------------------------------------------------
(* Properties.                                                             *)

Returned(name) == pc = "idle" /\ call = name

\* Types; what mbedTLS holds is the rest of one record that was sent, and a
\* search has a byte to look at when it reads.
TypeOK ==
  /\ bounds \subseteq 1..Len(sent) /\ Len(sent) <= MaxSent
  /\ notice \in {"none", "waiting", "taken"}
  /\ tcp \in {"open", "closed", "reset", "gone"}
  /\ interrupts \in 0..MaxInterrupts
  /\ read \in 0..Len(sent) /\ buffered \in 0..Unread
  /\ buffered > 0 => buffered = NextRecord
  /\ connected \in BOOLEAN
  /\ pc \in {"idle", "available", "read", "write"}
  /\ pc = "read" /\ call = "ReadDataUntil" => buffered > 0
  /\ call \in {"none", "ReadData", "ReadDataUntil", "WriteData"}
  /\ oneChunk \in BOOLEAN /\ limit \in Limits \cup {0} /\ length \in Lengths \cup {0}
  /\ put \in 0..length /\ found \in BOOLEAN /\ end \in Ends

\* The calls give the application the stream: none of its bytes is lost
\* between two calls or two reads of a record, made up, given twice, or given
\* after the connection was closed.
S == INSTANCE ByteStream WITH got <- got \o data, open <- connected

StreamKept == S!StreamSpec

\* ReadDataUntil takes nothing beyond the stop byte, and reports it: what
\* follows is left for the next call.
StopEndsData ==
  call = "ReadDataUntil" =>
    /\ \A i \in 1..(Len(data) - 1) : data[i] # Stop
    /\ pc = "idle" /\ data # <<>> /\ Last(data) = Stop => found

\* ReadData without oneChunk never leaves a part of a record in mbedTLS, where
\* select() on the descriptor cannot see it.  (With a buffer of no bytes it
\* always does: it reads nothing, and stops.)
NothingLeftBuffered ==
  BufSize > 0 /\ Returned("ReadData") /\ ~oneChunk => buffered = 0

\* ReadData that returns no data on a connection it leaves open, and was not
\* interrupted, has met the end of the stream, though AvailableBytes drops
\* what it meets first.  (With a buffer of no bytes it returns none in any case.)
EmptyIsEnd ==
  BufSize > 0 /\ Returned("ReadData") /\ data = <<>> /\ connected /\ end # "interrupted" =>
    Unread = 0 /\ (notice = "taken" \/ tcp # "open")

\* After a write that failed a part of a record may be on its way: nothing can
\* be written after it, so the connection is gone.
FailedWriteCloses == Returned("WriteData") /\ end # "done" /\ put > 0 => ~connected

\* Where Connect set the timeouts, every call ends, takes another byte or is
\* interrupted once more, whatever the peer does or fails to do: a peer that never
\* stops sending may keep a call for ever, a silent, closed or reset one may not.
CallsReturnOrRead ==
  \A n \in 0..MaxSent, k \in 0..MaxInterrupts :
    (pc # "idle" /\ read = n /\ interrupts = k)
      ~> (pc = "idle" \/ read > n \/ interrupts > k)

----------------------------------------------------------------------------
(* What the comments of the code say and the code does not do.             *)

\* "If so, we finished": no record that had arrived is left when ReadData stops
\* at a rest that fits its buffer.
FinishedMeansAll ==
  [][(ReadStep /\ call = "ReadData" /\ ~oneChunk /\ end' = "done") => Unread' = 0]_vars
=============================================================================
