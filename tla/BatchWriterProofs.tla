-------------------------- MODULE BatchWriterProofs --------------------------
(****************************************************************************)
(* Proofs about BatchWriter, for every batch size and any number of calls   *)
(* of Close: its types and the action property that its run checks.         *)
(****************************************************************************)
EXTENDS BatchWriter, TLAPS

\* Close sets closed before it takes the mutex; it leaves an empty queue, and
\* Write, which closed stops, is the only one to fill it again.
ReleaseInv ==
  /\ \A k \in Closers : clPc[k] = "release" => closed
  /\ buffersReleased => closed /\ writePos = 0

\* The inductive invariant.
IndInv == TypeOK /\ ReleaseInv

\* flush leaves an empty queue and hands no message to WriteBatch: it sets
\* writePos to 0 before it takes the messages up to writePos.
LEMMA FlushEmpty ==
  ASSUME TypeOK, Flush
  PROVE  writePos' = 0 /\ sent' = sent /\ due' = FALSE /\ flushes' \in Nat
<1>1. {messages[i] : i \in 1..FlushedPos} = {}
  BY DEF FlushedPos
<1> QED
  BY <1>1 DEF Flush, FlushedPos, TypeOK

\* Every step of Write, the worker and Close keeps the types; Write advances
\* writePos only below the length of messages.
LEMMA TypeStep ==
  ASSUME TypeOK, [Next]_vars
  PROVE  TypeOK'
<1> USE BatchAssumption
<1> DEFINE Flushed == /\ writePos' \in 0..BatchSize /\ due' \in BOOLEAN
                      /\ sent' \subseteq Packets /\ flushes' \in Nat
<1>1. Flush => Flushed
  <2> SUFFICES ASSUME Flush
               PROVE  Flushed
    OBVIOUS
  <2>1. writePos' = 0 /\ sent' = sent /\ due' = FALSE /\ flushes' \in Nat
    BY FlushEmpty
  <2>2. 0 \in 0..BatchSize /\ sent \subseteq Packets
    BY DEF TypeOK
  <2> QED
    BY <2>1, <2>2, Zenon
<1>2. NoFlush => Flushed
  BY DEF NoFlush, flushVars, TypeOK
<1> USE DEF TypeOK
<1>3. ASSUME Write_Queued
      PROVE  TypeOK'
  <2>1. writePos + 1 \in 0..BatchSize /\ ~QueueFull(writePos + 1) /\ accepted + 1 \in 0..MaxWrites
    BY <1>3 DEF Write_Queued, QueueFull
  <2>2. messages' \in [Msgs -> 0..MaxWrites]
    BY <1>3, <2>1 DEF Write_Queued
  <2> QED
    BY <1>3, <2>1, <2>2 DEF Write_Queued, relVars
<1>4. ASSUME Write_Panics
      PROVE  TypeOK'
  BY <1>4 DEF Write_Panics, flushVars, relVars
<1>5. ASSUME IntervalPasses
      PROVE  TypeOK'
  BY <1>5 DEF IntervalPasses, relVars
<1>6. ASSUME WorkerCheck
      PROVE  TypeOK'
  BY <1>6 DEF WorkerCheck, flushVars, relVars
<1>7. ASSUME WorkerTick
      PROVE  TypeOK'
  <2>1. Flushed
    BY <1>1, <1>2, <1>7 DEF WorkerTick
  <2> QED
    BY <1>7, <2>1 DEF WorkerTick, relVars
<1>8. ASSUME NEW k \in Closers, CloseFlag(k)
      PROVE  TypeOK'
  BY <1>8 DEF CloseFlag, CloseAt, flushVars
<1>9. ASSUME NEW k \in Closers, CloseRelease(k)
      PROVE  TypeOK'
  <2>1. Flushed
    BY <1>1, <1>2, <1>9 DEF CloseRelease
  <2>2. puts' \in Nat
    BY <1>9 DEF CloseRelease
  <2> QED
    BY <1>9, <2>1, <2>2 DEF CloseRelease, CloseAt
<1>10. ASSUME UNCHANGED vars
       PROVE  TypeOK'
  BY <1>10 DEF vars, flushVars, relVars
<1> QED
  BY <1>3, <1>4, <1>5, <1>6, <1>7, <1>8, <1>9, <1>10 DEF Next

\* Every step keeps the order of Close and, once the buffers are released, the
\* empty queue.
LEMMA ReleaseStep ==
  ASSUME TypeOK, ReleaseInv, [Next]_vars
  PROVE  ReleaseInv'
<1>1. Flush => writePos' = 0
  BY FlushEmpty
<1>2. ASSUME Write_Queued
      PROVE  ReleaseInv'
  BY <1>2 DEF Write_Queued, WriterClosed, relVars, ReleaseInv
<1>3. ASSUME Write_Panics \/ IntervalPasses \/ WorkerCheck
      PROVE  ReleaseInv'
  BY <1>3 DEF Write_Panics, IntervalPasses, WorkerCheck, flushVars, relVars, ReleaseInv
<1>4. ASSUME WorkerTick
      PROVE  ReleaseInv'
  BY <1>1, <1>4 DEF WorkerTick, NoFlush, flushVars, relVars, ReleaseInv
<1>5. ASSUME NEW k \in Closers, CloseFlag(k)
      PROVE  ReleaseInv'
  BY <1>5 DEF CloseFlag, CloseAt, flushVars, ReleaseInv, TypeOK
<1>6. ASSUME NEW k \in Closers, CloseRelease(k)
      PROVE  ReleaseInv'
  <2>1. writePos' = 0
    BY <1>1, <1>6, BatchAssumption DEF CloseRelease, NoFlush, flushVars, TypeOK
  <2> QED
    BY <1>6, <2>1 DEF CloseRelease, CloseAt, ReleaseInv, TypeOK
<1>7. ASSUME UNCHANGED vars
      PROVE  ReleaseInv'
  BY <1>7 DEF vars, flushVars, relVars, ReleaseInv
<1> QED
  BY <1>2, <1>3, <1>4, <1>5, <1>6, <1>7 DEF Next

\* IndInv holds of the new writer and after every step.
THEOREM BatchWriterInvariance == Spec => []IndInv
<1>1. Init => IndInv
  <2> SUFFICES ASSUME Init
               PROVE  IndInv
    OBVIOUS
  <2>1. writePos \in 0..BatchSize /\ accepted \in 0..MaxWrites
    BY BatchAssumption DEF Init, InitialPos
  <2>2. messages \in [Msgs -> 0..MaxWrites] /\ puts \in Nat /\ flushes \in Nat
    BY BatchAssumption DEF Init
  <2> QED
    BY <2>1, <2>2, Zenon DEF Init, IndInv, TypeOK, ReleaseInv
<1>2. IndInv /\ [Next]_vars => IndInv'
  BY TypeStep, ReleaseStep DEF IndInv
<1> QED
  BY <1>1, <1>2, PTL DEF Spec

\* Every variable stays in its type: writePos never passes the end of messages,
\* in any order of Writes, ticks and Closes.
THEOREM BatchWriterTypes == Spec => []TypeOK
<1>1. IndInv => TypeOK
  BY DEF IndInv
<1> QED
  BY <1>1, BatchWriterInvariance, PTL

\* After Close has put the buffers back, no Write copies into them, no flush of
\* the worker hands them to WriteBatch and no second Close puts them back.
THEOREM WriterReleasedUntouched == Spec => ReleasedBuffersUntouched
<1>1. IndInv /\ [Next]_vars
        => [buffersReleased => UNCHANGED <<messages, sent, flushes, puts>>]_vars
  <2> SUFFICES ASSUME IndInv, Next, buffersReleased
               PROVE  UNCHANGED <<messages, sent, flushes, puts>>
    OBVIOUS
  <2>1. WriterClosed /\ ~(writePos > 0) /\ ~MustFlush /\ ~MustRelease
    BY DEF IndInv, ReleaseInv, WriterClosed, MustFlush, MustRelease
  <2> QED
    BY <2>1 DEF Next, Write_Queued, Write_Panics, IntervalPasses, WorkerCheck, WorkerTick,
                CloseFlag, CloseRelease, NoFlush, vars, flushVars, relVars
<1> QED
  BY <1>1, BatchWriterInvariance, PTL DEF Spec, ReleasedBuffersUntouched
=============================================================================
