-------------------------- MODULE BatchReaderProofs --------------------------
(****************************************************************************)
(* Proofs about BatchReader, for every batch size and any number of         *)
(* goroutines: its types, the safety invariant and the action property that *)
(* its run checks, and that it implements RawReader.                        *)
(****************************************************************************)
EXTENDS BatchReader, TLAPS

\* The mutex is held from Read_Fetch to the end of that call of Read, by one
\* goroutine, and the batch is not consumed meanwhile.
MutexInv ==
  \A r \in Readers : rdPc[r] # "idle" =>
    /\ mutex = "Read" /\ readPos = 0
    /\ rdPc[r] = "batch" => nMsgs = BatchSize
    /\ \A s \in Readers : rdPc[s] # "idle" => s = r

\* The buffers are shared only before the first Read_Fetch.
OwnInv == readPos = BatchSize \/ \A i \in Msgs : dataBuf[i] = "body"

\* Close sets closed before it takes the mutex to release the buffers.
ReleaseInv ==
  /\ \A k \in Closers : clPc[k] = "release" => closed
  /\ buffersReleased => closed /\ mutex = "free"

Fetching == \E r \in Readers : rdPc[r] = "batch"

\* Until a Read fails, the datagrams returned and those left in the batch are
\* the ones the kernel handed over, in order.
BatchInv ==
  /\ \A i \in Msgs : slot[i] <= given
  /\ ~failed =>
       /\ \A j \in 1..Len(ret) : ret[j] = j
       /\ IF Fetching THEN Len(ret) = given
          ELSE /\ Len(ret) = given - nMsgs + readPos
               /\ \A i \in Msgs : readPos < i /\ i <= nMsgs => slot[i] = given - nMsgs + i

\* The inductive invariant.
IndInv == TypeOK /\ MutexInv /\ OwnInv /\ ReleaseInv /\ BatchInv

-----------------------------------------------------------------------------
(* Types *)

\* newBatchReader makes a well-typed reader.
LEMMA TypeInit == Init => TypeOK
<1> SUFFICES ASSUME Init
             PROVE  TypeOK
  OBVIOUS
<1>1. nMsgs \in Msgs /\ readPos \in 0..nMsgs /\ given \in 0..MaxDatagrams /\ calls \in 0..MaxReads
  BY BatchAssumption DEF Init, InitialPos, Msgs
<1>2. slot \in [Msgs -> 0..MaxDatagrams] /\ ret \in Seq(0..MaxDatagrams) /\ puts \in Nat
  BY BatchAssumption DEF Init
<1> QED
  BY <1>1, <1>2, Zenon DEF Init, TypeOK

\* Every step of Read, ReadBatch and Close keeps the types; Read advances readPos
\* only where the batch has another message.
LEMMA TypeStep ==
  ASSUME TypeOK, MutexInv, [Next]_vars
  PROVE  TypeOK'
<1> USE BatchAssumption DEF TypeOK, Msgs
<1>1. ASSUME NEW r \in Readers, Read_Closed(r)
      PROVE  TypeOK'
  BY <1>1 DEF Read_Closed, Called, bufVars, relVars
<1>2. ASSUME NEW r \in Readers, Read_Buffered(r)
      PROVE  TypeOK'
  <2>1. readPos + 1 \in Msgs /\ readPos' \in 0..nMsgs'
    BY <1>2 DEF Read_Buffered, BatchConsumed
  <2>2. ret' \in Seq(0..MaxDatagrams)
    BY <1>2, <2>1 DEF Read_Buffered
  <2> QED
    BY <1>2, <2>1, <2>2 DEF Read_Buffered, Called, relVars
<1>3. ASSUME NEW r \in Readers, Read_Fetch(r)
      PROVE  TypeOK'
  <2>1. dataBuf' \in [Msgs -> {"oob", "body"}]
    BY <1>3 DEF Read_Fetch, Renewed
  <2> QED
    BY <1>3, <2>1 DEF Read_Fetch, Called, relVars
<1>4. ASSUME NEW r \in Readers, ReadBatch(r)
      PROVE  TypeOK'
  <2>1. PICK n \in Msgs :
          /\ given + n <= MaxDatagrams
          /\ slot' = [i \in Msgs |-> IF i <= n THEN given + i ELSE slot[i]]
          /\ given' = given + n /\ nMsgs' = n
    BY <1>4 DEF ReadBatch
  <2>2. slot' \in [Msgs -> 0..MaxDatagrams]
    BY <2>1
  <2>3. readPos' \in 0..nMsgs' /\ given' \in 0..MaxDatagrams
    BY <1>4, <2>1 DEF ReadBatch, MutexInv
  <2> QED
    BY <1>4, <2>1, <2>2, <2>3 DEF ReadBatch, relVars
<1>5. ASSUME NEW r \in Readers, Read_First(r)
      PROVE  TypeOK'
  <2>1. readPos + 1 \in Msgs /\ readPos' \in 0..nMsgs'
    BY <1>5 DEF Read_First, MutexInv
  <2>2. ret' \in Seq(0..MaxDatagrams)
    BY <1>5, <2>1 DEF Read_First
  <2> QED
    BY <1>5, <2>1, <2>2 DEF Read_First, relVars
<1>6. ASSUME NEW r \in Readers, ReadBatchFails(r)
      PROVE  TypeOK'
  BY <1>6 DEF ReadBatchFails, bufVars, relVars
<1>7. ASSUME NEW k \in Closers, CloseSocket(k)
      PROVE  TypeOK'
  BY <1>7 DEF CloseSocket, SocketClosed, CloseAt, bufVars
<1>8. ASSUME NEW k \in Closers, CloseStep(k)
      PROVE  TypeOK'
  <2>1. puts' \in Nat
    BY <1>8 DEF CloseStep, CloseFlag, CloseRelease
  <2> QED
    BY <1>8, <2>1, ZenonT(30) DEF CloseStep, CloseFlag, CloseRelease, CloseAt, bufVars
<1>9. ASSUME UNCHANGED vars
      PROVE  TypeOK'
  BY <1>9 DEF vars, bufVars, relVars
<1> QED
  BY <1>1, <1>2, <1>3, <1>4, <1>5, <1>6, <1>7, <1>8, <1>9, Zenon DEF Next

-----------------------------------------------------------------------------
(* The mutex, the buffers and Close *)

\* Every step keeps the mutex with the one Read that fetches a batch, the data
\* buffers of the messages owned, and the order of Close.
LEMMA OwnershipStep ==
  ASSUME TypeOK, MutexInv, OwnInv, ReleaseInv, [Next]_vars
  PROVE  (MutexInv /\ OwnInv /\ ReleaseInv)'
<1> USE BatchAssumption DEF TypeOK, Msgs
<1>1. ASSUME NEW r \in Readers, Read_Closed(r)
      PROVE  (MutexInv /\ OwnInv /\ ReleaseInv)'
  BY <1>1 DEF Read_Closed, Called, bufVars, relVars, MutexInv, OwnInv, ReleaseInv
<1>2. ASSUME NEW r \in Readers, Read_Buffered(r)
      PROVE  (MutexInv /\ OwnInv /\ ReleaseInv)'
  <2>1. \A s \in Readers : rdPc[s] = "idle"
    BY <1>2 DEF Read_Buffered, Called, MutexInv
  <2>2. readPos # BatchSize
    BY <1>2 DEF Read_Buffered, BatchConsumed
  <2> QED
    BY <1>2, <2>1, <2>2 DEF Read_Buffered, relVars, MutexInv, OwnInv, ReleaseInv
<1>3. ASSUME NEW r \in Readers, Read_Fetch(r)
      PROVE  (MutexInv /\ OwnInv /\ ReleaseInv)'
  <2>1. \A s \in Readers : rdPc[s] = "idle"
    BY <1>3 DEF Read_Fetch, Called, MutexInv
  <2>2. MutexInv'
    BY <1>3, <2>1 DEF Read_Fetch, MutexInv
  <2>3. OwnInv'
    BY <1>3 DEF Read_Fetch, Renewed, OwnInv
  <2>4. ReleaseInv'
    BY <1>3 DEF Read_Fetch, ReaderClosed, relVars, ReleaseInv
  <2> QED
    BY <2>2, <2>3, <2>4
<1>4. ASSUME NEW r \in Readers, ReadBatch(r)
      PROVE  (MutexInv /\ OwnInv /\ ReleaseInv)'
  <2>1. MutexInv'
    BY <1>4 DEF ReadBatch, MutexInv
  <2> QED
    BY <1>4, <2>1 DEF ReadBatch, relVars, OwnInv, ReleaseInv
<1>5. ASSUME NEW r \in Readers, Read_First(r)
      PROVE  (MutexInv /\ OwnInv /\ ReleaseInv)'
  <2>1. MutexInv'
    BY <1>5 DEF Read_First, MutexInv
  <2>2. OwnInv'
    BY <1>5 DEF Read_First, MutexInv, OwnInv
  <2> QED
    BY <1>5, <2>1, <2>2 DEF Read_First, relVars, ReleaseInv
<1>6. ASSUME NEW r \in Readers, ReadBatchFails(r)
      PROVE  (MutexInv /\ OwnInv /\ ReleaseInv)'
  <2>1. MutexInv'
    BY <1>6 DEF ReadBatchFails, MutexInv
  <2> QED
    BY <1>6, <2>1 DEF ReadBatchFails, bufVars, relVars, OwnInv, ReleaseInv
<1>7. ASSUME NEW k \in Closers, CloseSocket(k)
      PROVE  (MutexInv /\ OwnInv /\ ReleaseInv)'
  BY <1>7 DEF CloseSocket, CloseAt, bufVars, MutexInv, OwnInv, ReleaseInv
<1>8. ASSUME NEW k \in Closers, CloseStep(k)
      PROVE  (MutexInv /\ OwnInv /\ ReleaseInv)'
  BY <1>8 DEF CloseStep, CloseFlag, CloseRelease, CloseAt, bufVars, MutexInv, OwnInv, ReleaseInv
<1>9. ASSUME UNCHANGED vars
      PROVE  (MutexInv /\ OwnInv /\ ReleaseInv)'
  BY <1>9 DEF vars, bufVars, relVars, MutexInv, OwnInv, ReleaseInv
<1> QED
  BY <1>1, <1>2, <1>3, <1>4, <1>5, <1>6, <1>7, <1>8, <1>9 DEF Next

-----------------------------------------------------------------------------
(* The datagrams *)

\* Appending the next datagram to those returned so far keeps them in order.
LEMMA AppendNext ==
  ASSUME NEW s \in Seq(0..MaxDatagrams), \A j \in 1..Len(s) : s[j] = j,
         NEW d \in 0..MaxDatagrams, d = Len(s) + 1
  PROVE  /\ Len(Append(s, d)) = Len(s) + 1
         /\ \A j \in 1..Len(Append(s, d)) : Append(s, d)[j] = j
<1>1. Len(Append(s, d)) = Len(s) + 1 /\ Append(s, d)[Len(s) + 1] = d
  OBVIOUS
<1>2. \A j \in 1..Len(s) : Append(s, d)[j] = s[j]
  OBVIOUS
<1>3. Len(s) \in Nat
  OBVIOUS
<1>4. \A j \in 1..(Len(s) + 1) : j \in 1..Len(s) \/ j = Len(s) + 1
  BY <1>3
<1> QED
  BY <1>1, <1>2, <1>4, Zenon

\* Every step keeps what was returned and what is left in the batch in step with
\* what the kernel handed over, until a Read fails.
LEMMA BatchStep ==
  ASSUME TypeOK, MutexInv, BatchInv, TypeOK', [Next]_vars
  PROVE  BatchInv'
<1> USE BatchAssumption DEF TypeOK, Msgs
<1>1. ASSUME NEW r \in Readers, Read_Closed(r)
      PROVE  BatchInv'
  BY <1>1 DEF Read_Closed, bufVars, BatchInv, Fetching
<1>2. ASSUME NEW r \in Readers, Read_Buffered(r)
      PROVE  BatchInv'
  <2>1. ~Fetching /\ ~Fetching'
    BY <1>2 DEF Read_Buffered, Called, MutexInv, Fetching
  <2>2. readPos + 1 \in Msgs /\ readPos < nMsgs
    BY <1>2 DEF Read_Buffered, BatchConsumed
  <2>3. ASSUME ~failed'
        PROVE  /\ \A j \in 1..Len(ret') : ret'[j] = j
               /\ Len(ret') = given' - nMsgs' + readPos'
               /\ \A i \in Msgs : readPos' < i /\ i <= nMsgs' => slot'[i] = given' - nMsgs' + i
    <3>1. ~failed /\ Len(ret) = given - nMsgs + readPos /\ slot[readPos + 1] = Len(ret) + 1
      BY <1>2, <2>1, <2>2, <2>3, SMTT(30) DEF Read_Buffered, BatchInv
    <3>2. Len(ret') = Len(ret) + 1 /\ \A j \in 1..Len(ret') : ret'[j] = j
      <4>1. ret \in Seq(0..MaxDatagrams) /\ slot[readPos + 1] \in 0..MaxDatagrams
            /\ \A j \in 1..Len(ret) : ret[j] = j
        BY <2>2, <3>1, SMTT(30) DEF BatchInv
      <4> QED
        BY <1>2, <3>1, <4>1, AppendNext, Zenon DEF Read_Buffered
    <3>3. Len(ret') = given' - nMsgs' + readPos'
      BY <1>2, <3>1, <3>2 DEF Read_Buffered
    <3>4. \A i \in Msgs : readPos' < i /\ i <= nMsgs' => slot'[i] = given' - nMsgs' + i
      BY <1>2, <2>1, <3>1 DEF Read_Buffered, BatchInv
    <3> QED
      BY <3>2, <3>3, <3>4, SMTT(30)
  <2> QED
    BY <1>2, <2>1, <2>3, SMTT(30) DEF Read_Buffered, BatchInv
<1>3. ASSUME NEW r \in Readers, Read_Fetch(r)
      PROVE  BatchInv'
  <2>1. ~Fetching /\ Fetching'
    BY <1>3 DEF Read_Fetch, Called, MutexInv, Fetching
  <2>2. ~failed' => Len(ret') = given'
    BY <1>3, <2>1 DEF Read_Fetch, BatchConsumed, BatchInv
  <2> QED
    BY <1>3, <2>1, <2>2 DEF Read_Fetch, BatchInv
<1>4. ASSUME NEW r \in Readers, ReadBatch(r)
      PROVE  BatchInv'
  <2>1. Fetching /\ ~Fetching' /\ readPos = 0
    BY <1>4 DEF ReadBatch, MutexInv, Fetching
  <2>2. PICK n \in Msgs :
          /\ slot' = [i \in Msgs |-> IF i <= n THEN given + i ELSE slot[i]]
          /\ given' = given + n /\ nMsgs' = n
    BY <1>4 DEF ReadBatch
  <2>3. \A i \in Msgs : slot'[i] <= given'
    BY <2>2, SMTT(30) DEF BatchInv
  <2>4. ~failed' => Len(ret') = given' - nMsgs' + readPos'
    BY <1>4, <2>1, <2>2 DEF ReadBatch, BatchInv
  <2>5. \A i \in Msgs : i <= nMsgs' => slot'[i] = given' - nMsgs' + i
    BY <2>2
  <2> QED
    BY <1>4, <2>1, <2>3, <2>4, <2>5 DEF ReadBatch, BatchInv
<1>5. ASSUME NEW r \in Readers, Read_First(r)
      PROVE  BatchInv'
  <2>1. ~Fetching /\ ~Fetching'
    BY <1>5 DEF Read_First, MutexInv, Fetching
  <2>2. readPos + 1 \in Msgs /\ readPos < nMsgs
    BY <1>5 DEF Read_First, MutexInv
  <2>3. ASSUME ~failed'
        PROVE  /\ \A j \in 1..Len(ret') : ret'[j] = j
               /\ Len(ret') = given' - nMsgs' + readPos'
               /\ \A i \in Msgs : readPos' < i /\ i <= nMsgs' => slot'[i] = given' - nMsgs' + i
    <3>1. ~failed /\ Len(ret) = given - nMsgs + readPos /\ slot[readPos + 1] = Len(ret) + 1
      BY <1>5, <2>1, <2>2, <2>3 DEF Read_First, BatchInv
    <3>2. Len(ret') = Len(ret) + 1 /\ \A j \in 1..Len(ret') : ret'[j] = j
      <4>1. ret \in Seq(0..MaxDatagrams) /\ slot[readPos + 1] \in 0..MaxDatagrams
            /\ \A j \in 1..Len(ret) : ret[j] = j
        BY <2>2, <3>1, SMTT(30) DEF BatchInv
      <4> QED
        BY <1>5, <3>1, <4>1, AppendNext, Zenon DEF Read_First
    <3>3. Len(ret') = given' - nMsgs' + readPos'
      BY <1>5, <3>1, <3>2 DEF Read_First
    <3>4. \A i \in Msgs : readPos' < i /\ i <= nMsgs' => slot'[i] = given' - nMsgs' + i
      BY <1>5, <2>1, <3>1 DEF Read_First, BatchInv
    <3> QED
      BY <3>2, <3>3, <3>4, SMTT(30)
  <2> QED
    BY <1>5, <2>1, <2>3, SMTT(30) DEF Read_First, BatchInv
<1>6. ASSUME NEW r \in Readers, ReadBatchFails(r)
      PROVE  BatchInv'
  BY <1>6 DEF ReadBatchFails, bufVars, BatchInv
<1>7. ASSUME NEW k \in Closers, CloseSocket(k) \/ CloseStep(k)
      PROVE  BatchInv'
  BY <1>7, ZenonT(30) DEF CloseSocket, CloseStep, CloseFlag, CloseRelease, bufVars, BatchInv, Fetching
<1>8. ASSUME UNCHANGED vars
      PROVE  BatchInv'
  BY <1>8 DEF vars, bufVars, BatchInv, Fetching
<1> QED
  BY <1>1, <1>2, <1>3, <1>4, <1>5, <1>6, <1>7, <1>8, SMTT(30) DEF Next

-----------------------------------------------------------------------------
(* The invariants *)

\* IndInv holds of the new reader and after every step of Read and Close.
THEOREM BatchReaderInvariance == Spec => []IndInv
<1>1. Init => IndInv
  <2> SUFFICES ASSUME Init
               PROVE  IndInv
    OBVIOUS
  <2>1. TypeOK
    BY TypeInit
  <2>2. MutexInv /\ OwnInv /\ ReleaseInv
    BY DEF Init, InitialPos, MutexInv, OwnInv, ReleaseInv
  <2>3. BatchInv
    BY BatchAssumption DEF Init, InitialPos, BatchInv, Fetching, Msgs
  <2> QED
    BY <2>1, <2>2, <2>3 DEF IndInv
<1>2. IndInv /\ [Next]_vars => IndInv'
  BY TypeStep, OwnershipStep, BatchStep DEF IndInv
<1> QED
  BY <1>1, <1>2, PTL DEF Spec

\* Whatever sizes ReadBatch returns and whenever it fails, Read indexes messages
\* inside the current batch, and every variable stays in its type.
THEOREM BatchReaderTypes == Spec => []TypeOK
<1>1. IndInv => TypeOK
  BY DEF IndInv
<1> QED
  BY <1>1, BatchReaderInvariance, PTL

\* No message shares its data buffer with its control buffer when ReadBatch fills
\* them, although newBatchReader makes all of them shared.
THEOREM DataBuffersOwned == Spec => []DataBufferOwned
<1>1. IndInv => DataBufferOwned
  BY BatchAssumption DEF IndInv, TypeOK, MutexInv, OwnInv, DataBufferOwned
<1> QED
  BY <1>1, BatchReaderInvariance, PTL

\* Until a Read fails, the messages Read will return next were filled by
\* ReadBatch and not returned before: the comment on batchReader.messages is
\* wrong only after a failure of ReadBatch.
THEOREM UnreturnedUntilFailure == Spec => [](~failed => MessagesUnreturned)
<1>1. IndInv => (~failed => MessagesUnreturned)
  <2> SUFFICES ASSUME IndInv, ~failed, mutex = "free", NEW i \in (readPos + 1)..nMsgs
               PROVE  slot[i] # 0 /\ \A j \in 1..Len(ret) : ret[j] # slot[i]
    BY DEF MessagesUnreturned
  <2>1. ~Fetching
    BY DEF IndInv, MutexInv, Fetching
  <2>2. i \in Msgs /\ readPos < i /\ i <= nMsgs /\ readPos \in Nat /\ nMsgs \in Nat
        /\ given \in Nat /\ Len(ret) \in Nat
    BY BatchAssumption DEF IndInv, TypeOK, Msgs
  <2>3. slot[i] = given - nMsgs + i /\ Len(ret) = given - nMsgs + readPos
    BY <2>1, <2>2 DEF IndInv, BatchInv
  <2>4. slot[i] > Len(ret)
    BY <2>2, <2>3
  <2> QED
    BY <2>2, <2>4 DEF IndInv, BatchInv
<1> QED
  BY <1>1, BatchReaderInvariance, PTL

\* After the buffers went back to the pools no Read copies from them, no
\* ReadBatch writes into them and no second Close puts them back.
THEOREM ReleasedUntouched == Spec => ReleasedBuffersUntouched
<1>1. IndInv /\ [Next]_vars => [buffersReleased => UNCHANGED <<bufVars, ret, puts>>]_vars
  <2> SUFFICES ASSUME IndInv, Next, buffersReleased
               PROVE  UNCHANGED <<bufVars, ret, puts>>
    OBVIOUS
  <2>1. ReaderClosed /\ \A r \in Readers : rdPc[r] = "idle"
    BY DEF IndInv, ReleaseInv, MutexInv, ReaderClosed
  <2> QED
    BY <2>1, Zenon DEF Next, Read_Closed, Read_Buffered, Read_Fetch, ReadBatch, Read_First,
                ReadBatchFails, CloseSocket, CloseStep, CloseFlag, CloseRelease, MustRelease,
                vars, bufVars, relVars
<1> QED
  BY <1>1, BatchReaderInvariance, PTL DEF Spec, ReleasedBuffersUntouched

-----------------------------------------------------------------------------
(* RawReader *)

\* A step of the batch reader is one of RawReader: ReadBatch receives, the ends
\* of Read return or fail, CloseRelease releases, and the rest is invisible.
LEMMA RawStep ==
  ASSUME IndInv, [Next]_vars
  PROVE  [R!Next]_(R!vars)
<1> USE BatchAssumption DEF IndInv
<1>1. ASSUME NEW r \in Readers, Read_Closed(r) \/ ReadBatchFails(r)
      PROVE  R!Fail
  BY <1>1 DEF Read_Closed, ReadBatchFails, bufVars, relVars, R!Fail
<1>2. ASSUME NEW r \in Readers, Read_Buffered(r)
      PROVE  R!Return
  <2>1. ~Fetching /\ ~buffersReleased
    BY <1>2 DEF Read_Buffered, Called, ReaderClosed, MutexInv, ReleaseInv, Fetching
  <2>2. readPos + 1 \in Msgs /\ readPos < nMsgs
    BY <1>2 DEF Read_Buffered, BatchConsumed, TypeOK, Msgs
  <2>3. slot[readPos + 1] \in 0..given
    BY <2>2 DEF TypeOK, BatchInv
  <2>4. ~failed => slot[readPos + 1] = Len(ret) + 1
    BY <2>1, <2>2 DEF TypeOK, BatchInv, Msgs
  <2> QED
    BY <1>2, <2>1, <2>3, <2>4 DEF Read_Buffered, relVars, R!Return
<1>3. ASSUME NEW r \in Readers, Read_Fetch(r)
      PROVE  UNCHANGED R!vars
  BY <1>3 DEF Read_Fetch, relVars, R!vars
<1>4. ASSUME NEW r \in Readers, ReadBatch(r)
      PROVE  R!Receive
  <2>1. ~buffersReleased
    BY <1>4 DEF ReadBatch, MutexInv, ReleaseInv
  <2>2. \E n \in 1..(MaxDatagrams - given) : given' = given + n
    BY <1>4 DEF ReadBatch, TypeOK, Msgs
  <2> QED
    BY <1>4, <2>1, <2>2 DEF ReadBatch, relVars, R!Receive
<1>5. ASSUME NEW r \in Readers, Read_First(r)
      PROVE  R!Return
  <2>1. ~Fetching /\ ~buffersReleased
    BY <1>5 DEF Read_First, MutexInv, ReleaseInv, Fetching
  <2>2. readPos + 1 \in Msgs /\ readPos < nMsgs
    BY <1>5 DEF Read_First, MutexInv, TypeOK, Msgs
  <2>3. slot[readPos + 1] \in 0..given
    BY <2>2 DEF TypeOK, BatchInv
  <2>4. ~failed => slot[readPos + 1] = Len(ret) + 1
    BY <2>1, <2>2 DEF TypeOK, BatchInv, Msgs
  <2> QED
    BY <1>5, <2>1, <2>3, <2>4 DEF Read_First, relVars, R!Return
<1>6. ASSUME NEW k \in Closers, CloseSocket(k) \/ CloseFlag(k)
      PROVE  UNCHANGED R!vars
  BY <1>6 DEF CloseSocket, CloseFlag, bufVars, R!vars
<1>7. ASSUME NEW k \in Closers, CloseRelease(k)
      PROVE  R!Release
  BY <1>7 DEF CloseRelease, bufVars, R!Release
<1>8. ASSUME UNCHANGED vars
      PROVE  UNCHANGED R!vars
  BY <1>8 DEF vars, bufVars, relVars, R!vars
<1> QED
  BY <1>1, <1>2, <1>3, <1>4, <1>5, <1>6, <1>7, <1>8 DEF Next, CloseStep, R!Next

\* The batches implement what readLoop relies on: until a Read fails, every
\* datagram is returned once and in order, and nothing after the release.
THEOREM RawReaderRefinement == Spec => ImplementsRawReader
<1>1. Init => R!Init
  BY DEF Init, R!Init
<1> QED
  BY <1>1, RawStep, BatchReaderInvariance, PTL DEF Spec, ImplementsRawReader, R!Spec
=============================================================================
