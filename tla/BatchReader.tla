----------------------------- MODULE BatchReader -----------------------------
(****************************************************************************)
(* batchReader (raw/sys_conn_oob_reader.go) hands out one datagram at a     *)
(* time from a batch that one ReadBatch call fetched from the kernel, and   *)
(* oobConn.Close (raw/sys_conn_oob.go), which closes the socket and then    *)
(* the reader while Reads may be in progress.                               *)
(*                                                                          *)
(* Datagrams are numbered in the order the kernel received them.  The       *)
(* message r.messages[i] is message i + 1 here, slot its contents.          *)
(****************************************************************************)
EXTENDS Integers, Sequences, FiniteSets

CONSTANTS
  BatchSize,     \* batchSize (8 on Linux)
  Readers,       \* goroutines that call Read
  Closers,       \* goroutines that call oobConn.Close
  MaxDatagrams,  \* bound on the datagrams the socket receives
  MaxReads,      \* bound on the calls of Read
  ReadErrors     \* may ReadBatch fail on an open socket (deadline, ICMP)?

ASSUME BatchAssumption ==
  /\ BatchSize \in Nat \ {0} /\ MaxDatagrams \in Nat /\ MaxReads \in Nat
  /\ ReadErrors \in BOOLEAN

VARIABLES
  readPos,          \* batchReader.readPos
  nMsgs,            \* len(batchReader.messages)
  slot,             \* datagram in each message, 0 before the first
  dataBuf,          \* what a message's Buffers[0] is: its "body" or "oob" buffer
  mutex, closed, buffersReleased,
  puts,             \* how often the buffers were Put back into the pools
  sock,             \* the socket: "open" or "closed"
  given,            \* datagrams the kernel has handed over
  rdPc, calls, failed,  \* Reads: program counters, number, did one fail
  ret,              \* datagrams returned by Read, in order
  clPc              \* program counters of oobConn.Close

bufVars == <<readPos, nMsgs, slot, dataBuf, given>>
relVars == <<closed, buffersReleased, puts, sock, clPc>>
vars == <<bufVars, relVars, mutex, rdPc, calls, failed, ret>>

Msgs == 1..BatchSize
Datagrams == 1..MaxDatagrams

InitialPos_Zero == 0
\* newBatchReader's readPos: batchSize, so that the first Read fetches a batch.
InitialPos == BatchSize

Init ==
  /\ readPos = InitialPos /\ nMsgs = BatchSize
  /\ slot = [i \in Msgs |-> 0] /\ dataBuf = [i \in Msgs |-> "oob"]
  /\ mutex = "free" /\ closed = FALSE /\ buffersReleased = FALSE /\ puts = 0
  /\ sock = "open" /\ given = 0
  /\ rdPc = [r \in Readers |-> "idle"] /\ calls = 0 /\ failed = FALSE
  /\ ret = <<>> /\ clPc = [k \in Closers |-> "idle"]

-----------------------------------------------------------------------------
(* batchReader.Read *)

\* The call of Read takes the mutex; blocked callers are not told apart from
\* callers that have not called yet.
Called(r) ==
  /\ rdPc[r] = "idle" /\ mutex = "free" /\ calls < MaxReads
  /\ calls' = calls + 1

ReaderClosed_Unchecked == FALSE
\* r.closed.Load()
ReaderClosed == closed

BatchConsumed_FullSize == readPos = BatchSize
\* len(r.messages) == int(r.readPos): all messages of the batch were returned.
BatchConsumed == readPos = nMsgs

Read_Closed(r) ==
  /\ Called(r) /\ ReaderClosed
  /\ failed' = TRUE
  /\ UNCHANGED <<bufVars, relVars, mutex, rdPc, ret>>

\* The next message of the batch is copied out.
Read_Buffered(r) ==
  /\ Called(r) /\ ~ReaderClosed /\ ~BatchConsumed
  /\ ret' = Append(ret, slot[readPos + 1])
  /\ readPos' = readPos + 1
  /\ UNCHANGED <<nMsgs, slot, dataBuf, given, relVars, mutex, rdPc, failed>>

Renewed_OffByOne == [i \in Msgs |-> IF i < readPos THEN "body" ELSE dataBuf[i]]
\* The messages consumed since the last ReadBatch get their buffers back.
Renewed == [i \in Msgs |-> IF i <= readPos THEN "body" ELSE dataBuf[i]]

\* The batch is used up: all messages are offered to ReadBatch, which blocks
\* with the mutex held.
Read_Fetch(r) ==
  /\ Called(r) /\ ~ReaderClosed /\ BatchConsumed
  /\ mutex' = "Read" /\ rdPc' = [rdPc EXCEPT ![r] = "batch"]
  /\ dataBuf' = Renewed
  /\ nMsgs' = BatchSize /\ readPos' = 0
  /\ UNCHANGED <<slot, given, relVars, failed, ret>>

\* ReadBatch fills the first n messages ...
ReadBatch(r) ==
  /\ rdPc[r] = "batch" /\ sock = "open"
  /\ \E n \in Msgs :
       /\ given + n <= MaxDatagrams
       /\ slot' = [i \in Msgs |-> IF i <= n THEN given + i ELSE slot[i]]
       /\ given' = given + n /\ nMsgs' = n
  /\ rdPc' = [rdPc EXCEPT ![r] = "filled"]
  /\ UNCHANGED <<readPos, dataBuf, relVars, mutex, calls, failed, ret>>

\* ... and Read returns the first of them; Close may have begun meanwhile.
Read_First(r) ==
  /\ rdPc[r] = "filled"
  /\ ret' = Append(ret, slot[readPos + 1]) /\ readPos' = readPos + 1
  /\ mutex' = "free" /\ rdPc' = [rdPc EXCEPT ![r] = "idle"]
  /\ UNCHANGED <<nMsgs, slot, dataBuf, given, relVars, calls, failed>>

\* ReadBatch fails; messages keeps its full length and readPos stays 0.
ReadBatchFails(r) ==
  /\ rdPc[r] = "batch" /\ (sock = "closed" \/ ReadErrors)
  /\ failed' = TRUE
  /\ mutex' = "free" /\ rdPc' = [rdPc EXCEPT ![r] = "idle"]
  /\ UNCHANGED <<bufVars, relVars, calls, ret>>

-----------------------------------------------------------------------------
(* oobConn.Close and, in it, batchReader.Close *)

CloseAt(k, pc) == clPc' = [clPc EXCEPT ![k] = pc]

SocketClosed_Missing == sock
\* What the socket is after its Close.
SocketClosed == "closed"
\* c.OOBCapablePacketConn.Close(), before the reader's mutex is needed.
CloseSocket(k) ==
  /\ clPc[k] = "idle" /\ sock' = SocketClosed /\ CloseAt(k, "flag")
  /\ UNCHANGED <<bufVars, closed, buffersReleased, puts, mutex, rdPc, calls, failed, ret>>

\* r.closed.Store(true)
CloseFlag(k) ==
  /\ clPc[k] = "flag" /\ closed' = TRUE /\ CloseAt(k, "release")
  /\ UNCHANGED <<bufVars, buffersReleased, puts, sock, mutex, rdPc, calls, failed, ret>>

\* !r.buffersReleased
MustRelease == ~buffersReleased

\* Under the mutex every buffer goes back to its pool, once.
CloseRelease(k) ==
  /\ clPc[k] = "release" /\ mutex = "free"
  /\ puts' = IF MustRelease THEN puts + 1 ELSE puts
  /\ buffersReleased' = TRUE
  /\ CloseAt(k, "closed")
  /\ UNCHANGED <<bufVars, closed, sock, mutex, rdPc, calls, failed, ret>>

-----------------------------------------------------------------------------
Quiescent == /\ \A k \in Closers : clPc[k] = "closed"
             /\ \A r \in Readers : rdPc[r] = "idle"

CloseStep(k) == CloseFlag(k) \/ CloseRelease(k)

Next ==
  \/ \E r \in Readers : \/ Read_Closed(r) \/ Read_Buffered(r) \/ Read_Fetch(r)
                        \/ ReadBatch(r) \/ Read_First(r) \/ ReadBatchFails(r)
  \/ \E k \in Closers : CloseSocket(k) \/ CloseStep(k)
  \/ Quiescent /\ UNCHANGED vars

Spec == Init /\ [][Next]_vars

Unblocked(r) == Read_First(r) \/ (sock = "closed" /\ ReadBatchFails(r))

\* A ReadBatch on a closed socket returns; goroutines in Close are scheduled and
\* the mutex does not starve them.
FairSpec == /\ Spec
            /\ \A r \in Readers : WF_vars(Unblocked(r))
            /\ \A k \in Closers : SF_vars(CloseStep(k))

-----------------------------------------------------------------------------
(* Properties *)

\* Every variable stays in its type, and Read indexes messages inside the current
\* batch, whatever sizes ReadBatch returned and whether or not it failed.
TypeOK ==
  /\ nMsgs \in Msgs /\ readPos \in 0..nMsgs
  /\ slot \in [Msgs -> 0..MaxDatagrams] /\ dataBuf \in [Msgs -> {"oob", "body"}]
  /\ mutex \in {"free", "Read"} /\ closed \in BOOLEAN /\ buffersReleased \in BOOLEAN
  /\ puts \in Nat /\ sock \in {"open", "closed"} /\ given \in 0..MaxDatagrams
  /\ rdPc \in [Readers -> {"idle", "batch", "filled"}] /\ calls \in 0..MaxReads
  /\ failed \in BOOLEAN /\ ret \in Seq(0..MaxDatagrams)
  /\ clPc \in [Closers -> {"idle", "flag", "release", "closed"}]

\* newBatchReader makes a message's data buffer the same memory as its control
\* buffer; none is still shared when ReadBatch fills them.
DataBufferOwned ==
  (\E r \in Readers : rdPc[r] = "batch") => \A i \in Msgs : dataBuf[i] = "body"

R == INSTANCE RawReader WITH
       received <- given, returned <- ret, released <- buffersReleased

\* The batches, their positions and the mutex implement what readLoop relies
\* on: until a Read fails, concurrent Reads return every datagram the kernel
\* handed over once and in order, and nothing once the buffers are released.
ImplementsRawReader == R!Spec

\* "Packets received from the kernel, but not yet returned by ReadPacket()"
\* (sys_conn_oob_reader.go): the messages Read will return next were filled by
\* ReadBatch and not returned before.
MessagesUnreturned ==
  mutex = "free" /\ ~closed =>
    \A i \in (readPos + 1)..nMsgs :
      slot[i] # 0 /\ \A j \in 1..Len(ret) : ret[j] # slot[i]

\* Once the buffers are back in the pools no Read copies from them, no ReadBatch
\* writes into them and no second Close puts them back again.
ReleasedBuffersUntouched ==
  [][buffersReleased => UNCHANGED <<bufVars, ret, puts>>]_vars

\* Close returns although a Read blocked in ReadBatch holds the mutex: closing
\* the socket comes first and ends the ReadBatch.
CloseReturns == \A k \in Closers : clPc[k] = "flag" ~> clPc[k] = "closed"
=============================================================================
