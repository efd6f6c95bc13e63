----------------------------- MODULE BatchWriter -----------------------------
(****************************************************************************)
(* batchWriter (raw/sys_conn_oob_writer.go) queues packets in messages and  *)
(* sends them in one WriteBatch: when the queue is full, when its worker    *)
(* goroutine finds that the write interval has passed, and in Close.        *)
(*                                                                          *)
(* Everything but closed is read and written under the mutex, so a critical *)
(* section is one step.  Packets are numbered in the order Write accepts    *)
(* them; messages[i] is message i + 1 here.                                 *)
(****************************************************************************)
EXTENDS Integers, Sequences, FiniteSets

CONSTANTS
  BatchSize,  \* batchSize (8 on Linux)
  Closers,    \* goroutines that call Close
  MaxWrites   \* bound on the packets written

ASSUME BatchAssumption == BatchSize \in Nat \ {0} /\ MaxWrites \in Nat

VARIABLES
  writePos,        \* batchWriter.writePos
  messages,        \* packet in each message, 0 for none yet
  due,             \* time.Since(lastWrite) >= interval
  closed, buffersReleased,
  puts,            \* how often the buffers were Put back into the pools
  accepted,        \* number of packets Write has put into messages
  sent,            \* packets handed to WriteBatch
  flushes,         \* number of calls of flush
  wkPc,            \* the worker: "check", "tick" or "ended"
  clPc,            \* program counters of Close
  panic            \* messages[writePos] was out of range

flushVars == <<writePos, due, sent, flushes>>
relVars   == <<closed, buffersReleased, puts, clPc>>
vars == <<flushVars, relVars, messages, accepted, wkPc, panic>>

Msgs == 1..BatchSize
Packets == 1..MaxWrites

InitialPos_OffByOne == BatchSize + 1
\* newBatchWriter's writePos.
InitialPos == BatchSize

Init ==
  /\ writePos = InitialPos /\ messages = [i \in Msgs |-> 0]
  /\ due = TRUE  \* lastWrite is the zero time
  /\ closed = FALSE /\ buffersReleased = FALSE /\ puts = 0
  /\ accepted = 0 /\ sent = {} /\ flushes = 0
  /\ wkPc = "check" /\ clPc = [k \in Closers |-> "idle"] /\ panic = FALSE

\* flush sets writePos to 0 before it slices messages[txIdx:w.writePos].
FlushedPos == 0

\* flush.  The buffers of messages up to the new writePos are renewed.
Flush ==
  /\ writePos' = FlushedPos
  /\ sent' = sent \cup {messages[i] : i \in 1..FlushedPos}
  /\ due' = FALSE /\ flushes' = flushes + 1

NoFlush == UNCHANGED flushVars

-----------------------------------------------------------------------------
(* Write.  On a closed writer it returns ErrClosed and changes nothing. *)

\* w.closed.Load()
WriterClosed == closed

\* "queue is full", after writePos was advanced to pos.
QueueFull(pos) == pos > BatchSize

\* The message is stored; its OOB and Addr are set in a copy and are lost.
Write_Queued ==
  /\ ~panic /\ ~WriterClosed /\ accepted < MaxWrites
  /\ writePos < BatchSize
  /\ messages' = [messages EXCEPT ![writePos + 1] = accepted + 1]
  /\ accepted' = accepted + 1
  /\ IF QueueFull(writePos + 1) THEN Flush
     ELSE writePos' = writePos + 1 /\ UNCHANGED <<due, sent, flushes>>
  /\ UNCHANGED <<relVars, wkPc, panic>>

\* messages[w.writePos] is out of range.
Write_Panics ==
  /\ ~panic /\ ~WriterClosed /\ accepted < MaxWrites
  /\ writePos >= BatchSize
  /\ panic' = TRUE
  /\ UNCHANGED <<flushVars, relVars, messages, accepted, wkPc>>

-----------------------------------------------------------------------------
(* The interval flush worker *)

IntervalPasses ==
  /\ ~panic /\ ~due /\ due' = TRUE
  /\ UNCHANGED <<writePos, sent, flushes, relVars, messages, accepted, wkPc, panic>>

LoopEnds_Never == FALSE
\* for !writer.closed.Load()
LoopEnds == closed
WorkerCheck ==
  /\ ~panic /\ wkPc = "check"
  /\ wkPc' = IF LoopEnds THEN "ended" ELSE "tick"
  /\ UNCHANGED <<flushVars, relVars, messages, accepted, panic>>

MustFlush_Unchecked == due
MustFlush == writePos > 0 /\ due
\* The ticker fires; the worker takes the mutex and flushes what is due.
WorkerTick ==
  /\ ~panic /\ wkPc = "tick" /\ wkPc' = "check"
  /\ IF MustFlush THEN Flush ELSE NoFlush
  /\ UNCHANGED <<relVars, messages, accepted, panic>>

-----------------------------------------------------------------------------
(* Close *)

CloseAt(k, pc) == clPc' = [clPc EXCEPT ![k] = pc]

CloseFlag(k) ==
  /\ ~panic /\ clPc[k] = "idle" /\ closed' = TRUE /\ CloseAt(k, "release")
  /\ UNCHANGED <<flushVars, buffersReleased, puts, messages, accepted, wkPc, panic>>

\* !w.buffersReleased
MustRelease == ~buffersReleased
\* Under the mutex: the last flush, then the buffers go back to their pools.
CloseRelease(k) ==
  /\ ~panic /\ clPc[k] = "release"
  /\ IF writePos > 0 THEN Flush ELSE NoFlush
  /\ puts' = IF MustRelease THEN puts + 1 ELSE puts
  /\ buffersReleased' = TRUE /\ CloseAt(k, "closed")
  /\ UNCHANGED <<closed, messages, accepted, wkPc, panic>>

-----------------------------------------------------------------------------
Quiescent == panic \/ (wkPc = "ended" /\ \A k \in Closers : clPc[k] = "closed")

Next ==
  \/ Write_Queued \/ Write_Panics
  \/ IntervalPasses \/ WorkerCheck \/ WorkerTick
  \/ \E k \in Closers : CloseFlag(k) \/ CloseRelease(k)
  \/ Quiescent /\ UNCHANGED vars

Spec == Init /\ [][Next]_vars

\* The ticker fires and the worker is scheduled.
FairSpec == Spec /\ WF_vars(WorkerCheck \/ WorkerTick)

-----------------------------------------------------------------------------
(* Properties *)

\* Every variable of the writer, its worker and Close stays in its type.
TypeOK ==
  /\ writePos \in 0..BatchSize /\ messages \in [Msgs -> 0..MaxWrites]
  /\ due \in BOOLEAN /\ closed \in BOOLEAN /\ buffersReleased \in BOOLEAN
  /\ puts \in Nat /\ accepted \in 0..MaxWrites /\ sent \subseteq Packets
  /\ flushes \in Nat /\ wkPc \in {"check", "tick", "ended"}
  /\ clPc \in [Closers -> {"idle", "release", "closed"}] /\ panic \in BOOLEAN

\* Once Close has put the buffers back into the pools, no Write copies into
\* them, no flush hands them to WriteBatch, not even that of a worker that
\* checked closed before, and no second Close puts them back again.
ReleasedBuffersUntouched ==
  [][buffersReleased => UNCHANGED <<messages, sent, flushes, puts>>]_vars

\* Close ends the worker goroutine.
WorkerEnds == closed ~> wkPc = "ended" \/ panic

\* "queue is full. Flush this batch of messages." (sys_conn_oob_writer.go):
\* Write never finds the queue already full.
FullQueueIsFlushed == ~panic

\* "automatically flush the buffers" (dial.go): a packet that Write accepted
\* was handed to WriteBatch or is still queued.
NothingLost ==
  \A p \in 1..accepted : p \in sent \/ \E i \in 1..writePos : messages[i] = p
=============================================================================
