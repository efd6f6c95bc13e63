------------------------ MODULE SuperConnTypeProofs ------------------------
(****************************************************************************)
(* The lemmas SuperConnProofs shares with the proof that every step keeps   *)
(* the types of SuperConn's variables.  A frame lemma lists the actions     *)
(* that change a group of variables; the step lemma that follows has one    *)
(* case for each of them.                                                   *)
(****************************************************************************)
EXTENDS SuperConnInv, TLAPS, FiniteSetTheorems, SequenceTheorems

USE DEF chanVars, wgVars, errVars, netVars, rlVars, lcVars, accVars, ccVars,
        connVars, rdVars, ioVars, Packets, ConnIds, Live, Held, Closing

\* The bound on packets is a natural number.
LEMMA MaxPacketsNat == MaxPackets \in Nat
BY ConstantsAssumption

\* len of a table is a natural number, and is 0 only for the empty table.
LEMMA TableSize ==
  ASSUME NEW f
  PROVE  /\ Cardinality({a \in Addrs : f[a] # 0}) \in Nat
         /\ Cardinality({a \in Addrs : f[a] # 0}) = 0 => \A a \in Addrs : f[a] = 0
<1> DEFINE S == {a \in Addrs : f[a] # 0}
<1>1. IsFiniteSet(S)
  <2>1. IsFiniteSet(Addrs) BY ConstantsAssumption
  <2> QED BY <2>1, FS_Subset
<1>2. Cardinality(S) \in Nat BY <1>1, FS_CardinalityType
<1>3. Cardinality(S) = 0 => S = {} BY <1>1, FS_EmptySet
<1> QED BY <1>2, <1>3

\* What the first receive from acceptCh or from a queue leaves behind.
LEMMA Dequeue ==
  ASSUME NEW S, NEW q \in Seq(S), q # <<>>
  PROVE  /\ Head(q) \in S /\ Head(q) = q[1] /\ Tail(q) \in Seq(S)
         /\ Len(q) \in Nat /\ Len(q) > 0 /\ Len(Tail(q)) = Len(q) - 1
         /\ \A i \in 1..Len(Tail(q)) : Tail(q)[i] = q[i+1]
BY HeadTailProperties, EmptySeq, LenProperties

\* delete keeps the table a table.
LEMMA DeletedType ==
  ASSUME SuperTypeOK, NEW c PROVE Deleted(c) \in [Addrs -> 0..MaxPackets]
<1>1. conns \in [Addrs -> 0..MaxPackets] /\ 0 \in 0..MaxPackets
  BY MaxPacketsNat DEF SuperTypeOK
<1> QED BY <1>1, Zenon DEF Deleted

\* The Conn that a receive from acceptCh returns is pending.
LEMMA AcceptHead ==
  ASSUME IndInv, acceptCh # <<>>
  PROVE  /\ Head(acceptCh) \in ConnIds /\ st[Head(acceptCh)] = "pending"
         /\ Head(acceptCh) = acceptCh[1] /\ Tail(acceptCh) \in Seq(ConnIds)
<1>1. acceptCh \in Seq(ConnIds) BY DEF IndInv, TypeOK, SuperTypeOK
<1>2. Head(acceptCh) = acceptCh[1] /\ Head(acceptCh) \in ConnIds
      /\ Tail(acceptCh) \in Seq(ConnIds) /\ Len(acceptCh) \in Nat /\ Len(acceptCh) > 0
  BY <1>1, Dequeue, Zenon
<1>3. 1 \in 1..Len(acceptCh) BY <1>2
<1> QED BY <1>2, <1>3 DEF IndInv, AcceptInv

\* The Conn Accept is about to count was taken from acceptCh by it.
LEMMA AcceptTaken ==
  ASSUME IndInv, NEW a \in Acceptors, AcceptAdd(a)
  PROVE  accConn[a] \in ConnIds /\ st[accConn[a]] = "taken"
BY DEF IndInv, AcceptInv, AcceptAdd

\* getSubConn sends a Conn that nobody has seen.
LEMMA NewConn ==
  ASSUME IndInv, SendAccept
  PROVE  rlPkt \in ConnIds /\ st[rlPkt] = "free"
BY MaxPacketsNat DEF IndInv, TypeOK, RunTypeOK, ReadLoopInv, SendAccept

\* A live Conn was created by a packet that has arrived.
LEMMA LiveConn ==
  ASSUME IndInv, NEW c \in ConnIds, st[c] \in Live
  PROVE  c \in 1..Len(src) /\ src[c] \in Addrs
<1>1. c \in 1..Len(src) BY MaxPacketsNat DEF IndInv, TypeOK, RunTypeOK, ReadLoopInv
<1>2. src \in Seq(Addrs) BY DEF IndInv, TypeOK, RunTypeOK
<1> QED BY <1>1, <1>2, ElementOfSeq

\* An entry of the table is a live Conn of that address.
LEMMA Routed ==
  ASSUME IndInv, NEW a \in Addrs, conns[a] # 0
  PROVE  conns[a] \in ConnIds /\ st[conns[a]] \in Live /\ src[conns[a]] = a
BY MaxPacketsNat DEF IndInv, TypeOK, SuperTypeOK, TableInv, RoutingTableExact

\* Only these actions change supConn's own fields.
LEMMA SuperFrame ==
  ASSUME [Next]_vars
  PROVE  \/ UNCHANGED <<accepting, doneCh, acceptCh, conns, connLock, connWG, readWG, errClose, readDone>>
         \/ ReadLoopCloseReadDone \/ ReadLoopWGDone \/ Lookup \/ SendAccept \/
            SendExceeded \/ Insert \/ CloserClosed \/ CloserDone \/ CloseBegin \/
            CloseDoneCh \/ CloseLock \/ CloseDrain \/ CloseDrained \/ CloseWGDone
         \/ \E a \in Acceptors : Accept(a) \/ AcceptAdd(a)
         \/ \E c \in ConnIds : ConnClose(c) \/ ConnDelete(c)
BY ZenonT(60) DEF Next, vars, ReadLoopStep, CloserStep, CloseStep, Environment,
   ConnCloseStep, ReadStep, ReadPacket, ReadLoopAt, ReadFailsOpen, ReadFails,
   ReadFailsClosed, Push, Pushed, CloserWait, CloserWoken, CloserClosing, CloseWait,
   CloseAt, AcceptTimeout, Returned, AcceptAt, ConnCloseDoneCh, CloseConnDoneCh,
   ConnCheckFinal, ConnWait, ConnQueueClose, Read, ReadAt, ReadPop, Popped, ReadClosed,
   ReadFailed, ReadTimeout, ReadRelease, Write, WritePacket

\* supConn's fields keep their types.
LEMMA SuperTypeStep ==
  ASSUME IndInv, [Next]_vars PROVE SuperTypeOK'
<1>1. SuperTypeOK BY DEF IndInv, TypeOK
<1>2. CASE CloseDrain
  <2>1. conns' \in [Addrs -> 0..MaxPackets] BY <1>1, <1>2, DeletedType DEF CloseDrain
  <2>2. acceptCh' \in Seq(ConnIds) BY <1>2, AcceptHead DEF CloseDrain
  <2> QED BY <1>1, <1>2, <2>1, <2>2 DEF CloseDrain, SuperTypeOK
<1>3. ASSUME NEW c \in ConnIds, ConnDelete(c) PROVE SuperTypeOK'
  BY <1>1, <1>3, DeletedType DEF ConnDelete, SuperTypeOK
<1>4. CASE SendAccept
  <2>1. Append(acceptCh, rlPkt) \in Seq(ConnIds)
    BY <1>1, <1>4, NewConn, AppendProperties DEF SuperTypeOK
  <2> QED BY <1>1, <1>4, <2>1, Zenon DEF SendAccept, SuperTypeOK
<1>5. ASSUME NEW a \in Acceptors, Accept(a) PROVE SuperTypeOK'
  BY <1>1, <1>5, AcceptHead, Zenon DEF Accept, SuperTypeOK
<1>6. CASE Insert
  BY <1>1, <1>6, Zenon DEF Insert, IndInv, TypeOK, RunTypeOK, SuperTypeOK
<1>7. CASE Lookup \/ SendExceeded \/ CloseLock \/ CloseDrained
  BY <1>1, <1>7 DEF Lookup, SendExceeded, CloseLock, CloseDrained, SuperTypeOK
<1>8. CASE ReadLoopWGDone \/ CloserDone
  BY <1>1, <1>8 DEF ReadLoopWGDone, CloserDone, ReadWGDone, SuperTypeOK
<1>9. CASE ReadLoopCloseReadDone \/ CloserClosed
  BY <1>1, <1>9, Zenon DEF ReadLoopCloseReadDone, CloserClosed, SuperTypeOK
<1>10. CASE CloseBegin \/ CloseDoneCh
  BY <1>1, <1>10, ZenonT(30) DEF CloseBegin, CloseDoneCh, SuperTypeOK
<1>11. ASSUME NEW a \in Acceptors, AcceptAdd(a) PROVE SuperTypeOK'
  BY <1>1, <1>11 DEF AcceptAdd, ConnWGAdd, SuperTypeOK
<1>12. ASSUME CloseWGDone \/ \E c \in ConnIds : ConnClose(c) PROVE SuperTypeOK'
  BY <1>1, <1>12 DEF CloseWGDone, ConnClose, ConnWGDone, SuperTypeOK
<1>13. CASE UNCHANGED <<accepting, doneCh, acceptCh, conns, connLock, connWG, readWG, errClose, readDone>>
  BY <1>1, <1>13 DEF SuperTypeOK
<1> QED BY <1>2, <1>3, <1>4, <1>5, <1>6, <1>7, <1>8, <1>11, <1>12, <1>13,
   <1>9, <1>10, SuperFrame

\* Only these actions change the socket, the read loop and the closer.
LEMMA RunFrame ==
  ASSUME [Next]_vars
  PROVE  \/ UNCHANGED <<sock, src, rlVars, closer, panic>>
         \/ ReadPacket \/ ReadFailsOpen \/ ReadFailsClosed \/ ReadLoopCloseReadDone \/
            ReadLoopWGDone \/ Lookup \/ SendAccept \/ SendExceeded \/ Insert \/ Push \/
            CloserWait \/ CloserWoken \/ CloserClosing \/ CloserClosed \/ CloserDone \/
            CloseDrain \/ CloseWGDone
         \/ \E c \in ConnIds : ConnClose(c) \/ ConnCloseDoneCh(c)
BY ZenonT(60) DEF Next, vars, ReadLoopStep, CloserStep, CloseStep, Environment,
   ConnCloseStep, ReadStep, CloseBegin, CloseAt, CloseDoneCh, WakeParked, CloseLock,
   CloseDrained, CloseWait, Accept, Returned, AcceptAt, AcceptTimeout, AcceptAdd,
   ConnWGAdd, ConnDelete, Deleted, ConnCheckFinal, ConnWait, ConnQueueClose, Read,
   ReadAt, ReadPop, Popped, ReadClosed, ReadFailed, ReadTimeout, ReadRelease, Write,
   WritePacket

\* The socket, the read loop and the closer keep their types.
LEMMA RunTypeStep ==
  ASSUME IndInv, [Next]_vars PROVE RunTypeOK'
<1>1. RunTypeOK BY DEF IndInv, TypeOK
<1> USE <1>1, MaxPacketsNat DEF RunTypeOK
<1>2. CASE ReadPacket
  BY <1>2 DEF ReadPacket, ReadLoopAt
<1>3. CASE Lookup
  <2>1. rlPkt \in 1..Len(src) BY <1>3, LenProperties DEF Lookup, IndInv, ReadLoopInv
  <2>2. src[rlPkt] \in Addrs BY <2>1, ElementOfSeq
  <2>3. conns[src[rlPkt]] \in 0..MaxPackets BY <2>2 DEF IndInv, TypeOK, SuperTypeOK
  <2> QED BY <1>3, <2>3 DEF Lookup, DropPacket, ReadLoopAt
<1>4. CASE \/ ReadFailsOpen \/ ReadFailsClosed \/ ReadLoopCloseReadDone
           \/ ReadLoopWGDone \/ SendExceeded \/ Push
  BY <1>4, SMTT(30) DEF ReadFailsOpen, ReadFailsClosed, ReadFails, ReadLoopCloseReadDone,
     ReadLoopWGDone, SendExceeded, DropPacket, Push, ReadLoopAt
<1>5. CASE SendAccept \/ Insert
  BY <1>5 DEF SendAccept, Insert, ReadLoopAt
<1>6. CASE CloserWait \/ CloserWoken \/ CloserClosing \/ CloserClosed \/ CloserDone
  BY <1>6 DEF CloserWait, CloserWoken, CloserClosing, CloserClosed, CloserDone
<1>7. ASSUME CloseWGDone \/ \E c \in ConnIds : ConnClose(c) PROVE RunTypeOK'
  BY <1>7 DEF CloseWGDone, ConnClose, ConnWGDone
<1>8. ASSUME CloseDrain \/ \E c \in ConnIds : ConnCloseDoneCh(c) PROVE RunTypeOK'
  BY <1>8 DEF CloseDrain, ConnCloseDoneCh, CloseConnDoneCh
<1>9. CASE UNCHANGED <<sock, src, rlVars, closer, panic>>
  BY <1>9
<1> QED BY <1>2, <1>3, <1>4, <1>5, <1>6, <1>7, <1>8, <1>9, RunFrame

\* Only these actions change the calls of Close and Accept.
LEMMA CallFrame ==
  ASSUME [Next]_vars
  PROVE  \/ UNCHANGED <<lcVars, accVars>>
         \/ ReadLoopCloseReadDone \/ SendAccept \/ CloseBegin \/ CloseDoneCh \/
            CloseLock \/ CloseDrained \/ CloseWGDone \/ CloseWait
         \/ \E a \in Acceptors : Accept(a) \/ AcceptTimeout(a) \/ AcceptAdd(a)
BY ZenonT(60) DEF Next, vars, ReadLoopStep, CloserStep, CloseStep, Environment,
   ConnCloseStep, ReadStep, ReadPacket, ReadLoopAt, ReadFailsOpen, ReadFails,
   ReadFailsClosed, ReadLoopWGDone, ReadWGDone, Lookup, DropPacket, MayCreate,
   SendExceeded, Insert, Push, Pushed, CloserWait, CloserWoken, CloserClosing,
   CloserClosed, CloserDone, CloseDrain, CloseConnDoneCh, Deleted, ConnClose,
   ConnWGDone, ConnCloseDoneCh, ConnDelete, ConnCheckFinal, ConnWait, ConnQueueClose,
   Read, ReadAt, ReadPop, Popped, ReadClosed, ReadFailed, ReadTimeout, ReadRelease,
   Write, WritePacket

\* A step of a call of Accept keeps the types of the calls.
LEMMA AcceptAtType ==
  ASSUME CallTypeOK, NEW a \in Acceptors, NEW pc \in {"idle", "parked", "add"},
         NEW conn \in 0..MaxPackets, AcceptAt(a, pc, conn), UNCHANGED lcVars
  PROVE  CallTypeOK'
BY DEF CallTypeOK, AcceptAt

\* The calls of Close and Accept keep their types.
LEMMA CallTypeStep ==
  ASSUME IndInv, [Next]_vars PROVE CallTypeOK'
<1>1. CallTypeOK BY DEF IndInv, TypeOK
<1>2. ASSUME NEW a \in Acceptors, Accept(a) PROVE CallTypeOK'
  <2>1. CASE acceptCh # <<>> /\ AcceptAt(a, "add", Head(acceptCh))
    BY <1>1, <1>2, <2>1, AcceptHead, AcceptAtType DEF Accept
  <2>2. CASE Returned(a)
    BY <1>1, <1>2, <2>2, MaxPacketsNat, AcceptAtType DEF Accept, Returned
  <2>3. CASE AcceptAt(a, "parked", 0)
    BY <1>1, <1>2, <2>3, MaxPacketsNat, AcceptAtType DEF Accept
  <2> QED BY <1>2, <2>1, <2>2, <2>3 DEF Accept
<1>3. ASSUME NEW a \in Acceptors, AcceptTimeout(a) \/ AcceptAdd(a) PROVE CallTypeOK'
  BY <1>1, <1>3, MaxPacketsNat, AcceptAtType DEF AcceptTimeout, AcceptAdd, Returned
<1>4. CASE SendAccept
  <2>1. ASSUME NEW a \in Parked, AcceptAt(a, "add", rlPkt) PROVE CallTypeOK'
    BY <1>1, <1>4, <2>1, NewConn, AcceptAtType DEF SendAccept, Parked
  <2>2. CASE UNCHANGED accVars
    BY <1>1, <1>4, <2>2 DEF SendAccept, CallTypeOK
  <2> QED BY <1>4, <2>1, <2>2 DEF SendAccept
<1>5. CASE ReadLoopCloseReadDone \/ CloseDoneCh
  BY <1>1, <1>5 DEF ReadLoopCloseReadDone, CloseDoneCh, WakeParked, CloseAt, CallTypeOK
<1>6. CASE CloseBegin \/ CloseLock \/ CloseWGDone
  <2>1. Overtaken \in BOOLEAN BY Zenon DEF Overtaken
  <2> QED BY <1>1, <1>6, <2>1, SMTT(20) DEF CloseBegin, CloseLock, CloseWGDone, CloseAt, CallTypeOK
<1>7. CASE CloseDrained
  BY <1>1, <1>7, TableSize DEF CloseDrained, CloseAt, NConns, CallTypeOK
<1>8. CASE CloseWait
  BY <1>1, <1>8 DEF CloseWait, CloseAt, IndInv, TypeOK, SuperTypeOK, CallTypeOK
<1>9. CASE UNCHANGED <<lcVars, accVars>>
  BY <1>1, <1>9 DEF CallTypeOK
<1> QED BY <1>2, <1>3, <1>4, <1>5, <1>6, <1>7, <1>8, <1>9, CallFrame

\* Only these actions change the Conns.
LEMMA ConnFrame ==
  ASSUME [Next]_vars
  PROVE  \/ UNCHANGED <<st, cDone, qClosed, queue, ccVars>>
         \/ SendAccept \/ Push \/ CloseDrain
         \/ \E a \in Acceptors : Accept(a) \/ AcceptAdd(a)
         \/ \E c \in ConnIds : ConnClose(c) \/ ConnCloseDoneCh(c) \/ ConnDelete(c) \/
            ConnCheckFinal(c) \/ ConnWait(c) \/ ConnQueueClose(c) \/ ReadPop(c)
BY ZenonT(60) DEF Next, vars, ReadLoopStep, CloserStep, CloseStep, Environment,
   ConnCloseStep, ReadStep, ReadPacket, ReadLoopAt, ReadFailsOpen, ReadFails,
   ReadFailsClosed, ReadLoopCloseReadDone, WakeParked, ReadLoopWGDone, ReadWGDone,
   Lookup, DropPacket, MayCreate, SendExceeded, Insert, CloserWait, CloserWoken,
   CloserClosing, CloserClosed, CloserDone, CloseBegin, CloseAt, CloseDoneCh,
   CloseLock, CloseDrained, CloseWGDone, ConnWGDone, IsFinal, CloseWait, AcceptTimeout,
   Returned, AcceptAt, Read, ReadAt, ReadClosed, ReadFailed, ReadTimeout, ReadRelease,
   Write, WritePacket

\* The Conns keep their types.
LEMMA ConnTypeStep ==
  ASSUME IndInv, [Next]_vars PROVE ConnTypeOK'
<1>1. ConnTypeOK BY DEF IndInv, TypeOK
<1> USE <1>1 DEF ConnTypeOK
<1>2. CASE SendAccept
  BY <1>2 DEF SendAccept
<1>3. CASE Push
  <2>1. rlPkt \in Packets
    BY <1>3, MaxPacketsNat DEF Push, IndInv, TypeOK, RunTypeOK, ReadLoopInv
  <2>2. \A q \in Seq(Packets) : Append(q, rlPkt) \in Seq(Packets) BY <2>1, AppendProperties
  <2>3. queue' \in [ConnIds -> Seq(Packets)] BY <1>3, <2>2, Zenon DEF Push, Pushed
  <2> QED BY <1>3, <2>3 DEF Push
<1>4. CASE CloseDrain
  BY <1>4, ZenonT(30) DEF CloseDrain, CloseConnDoneCh
<1>5. ASSUME NEW a \in Acceptors, Accept(a) \/ AcceptAdd(a) PROVE ConnTypeOK'
  BY <1>5 DEF Accept, AcceptAdd
<1>6. ASSUME NEW c \in ConnIds, ConnClose(c) \/ ConnCloseDoneCh(c) PROVE ConnTypeOK'
  BY <1>6, ZenonT(30) DEF ConnClose, ConnCloseDoneCh, CloseConnDoneCh
<1>7. ASSUME NEW c \in ConnIds, ConnDelete(c) PROVE ConnTypeOK'
  <2>1. NConns' \in Nat BY TableSize DEF NConns
  <2> QED BY <1>7, <2>1 DEF ConnDelete
<1>8. ASSUME NEW c \in ConnIds, ConnCheckFinal(c) PROVE ConnTypeOK'
  BY <1>8 DEF ConnCheckFinal
<1>9. ASSUME NEW c \in ConnIds, ConnQueueClose(c) PROVE ConnTypeOK'
  <2>1. queue' \in [ConnIds -> Seq(Packets)] BY <1>9, EmptySeq DEF ConnQueueClose
  <2> QED BY <1>9, <2>1 DEF ConnQueueClose
<1>10. ASSUME NEW c \in ConnIds, ConnWait(c) PROVE ConnTypeOK'
  BY <1>10 DEF ConnWait, IndInv, TypeOK, SuperTypeOK
<1>11. ASSUME NEW c \in ConnIds, ReadPop(c) PROVE ConnTypeOK'
  BY <1>11, Dequeue DEF ReadPop, Popped
<1>12. CASE UNCHANGED <<st, cDone, qClosed, queue, ccVars>>
  BY <1>12
<1> QED BY <1>2, <1>3, <1>4, <1>5, <1>6, <1>7, <1>8, <1>10, <1>11, <1>12,
   <1>9, ConnFrame

\* Only these actions change the calls of Read and Write.
LEMMA IoFrame ==
  ASSUME [Next]_vars
  PROVE  \/ UNCHANGED <<rdVars, wr, pooled>>
         \/ \E c \in ConnIds : ConnQueueClose(c) \/ Read(c) \/ ReadPop(c) \/
            ReadClosed(c) \/ ReadTimeout(c) \/ ReadRelease(c) \/ Write(c) \/
            WritePacket(c)
BY ZenonT(60) DEF Next, vars, ReadLoopStep, CloserStep, CloseStep, Environment,
   ConnCloseStep, ReadStep, ReadPacket, ReadLoopAt, ReadFailsOpen, ReadFails,
   ReadFailsClosed, ReadLoopCloseReadDone, WakeParked, ReadLoopWGDone, ReadWGDone,
   Lookup, DropPacket, MayCreate, SendAccept, Parked, AcceptAt, SendExceeded, Insert,
   Push, Pushed, CloserWait, CloserWoken, CloserClosing, CloserClosed, CloserDone,
   CloseBegin, CloseAt, CloseDoneCh, CloseLock, CloseDrain, CloseConnDoneCh, Deleted,
   CloseDrained, CloseWGDone, ConnWGDone, IsFinal, CloseWait, Accept, Returned,
   AcceptTimeout, AcceptAdd, ConnWGAdd, ConnClose, ConnCloseDoneCh, ConnDelete,
   ConnCheckFinal, ConnWait

\* The calls of Read and Write keep their types.
LEMMA IoTypeStep ==
  ASSUME IndInv, [Next]_vars PROVE IoTypeOK'
<1>1. IoTypeOK BY DEF IndInv, TypeOK
<1> USE <1>1, MaxPacketsNat DEF IoTypeOK
<1>2. ASSUME NEW c \in ConnIds, ConnQueueClose(c) PROVE IoTypeOK'
  <2>1. queue[c] \in Seq(Packets) BY DEF IndInv, TypeOK, ConnTypeOK
  <2>2. QueuedIn(c) \subseteq Packets BY <2>1, ElementOfSeq, SMTT(20) DEF QueuedIn
  <2> QED BY <1>2, <2>2, Zenon DEF ConnQueueClose
<1>3. ASSUME NEW c \in ConnIds, ReadPop(c) PROVE IoTypeOK'
  <2>1. Head(queue[c]) \in Packets
    BY <1>3, Dequeue, Zenon DEF ReadPop, IndInv, TypeOK, ConnTypeOK
  <2> QED BY <1>3, <2>1, SMTT(20) DEF ReadPop, ReadAt
<1>4. ASSUME NEW c \in ConnIds, ReadRelease(c) PROVE IoTypeOK'
  <2>1. rdPkt[c] \in Packets BY <1>4 DEF ReadRelease
  <2>2. pooled' \subseteq Packets BY <1>4, <2>1, Zenon DEF ReadRelease
  <2>3. \A d \in ConnIds : rdPc'[d] = "copy" => rdPkt'[d] # 0
    BY <1>4 DEF ReadRelease, ReadAt
  <2> QED BY <1>4, <2>1, <2>2, <2>3 DEF ReadRelease, ReadAt
<1>5. ASSUME NEW c \in ConnIds, Read(c) PROVE IoTypeOK'
  BY <1>5 DEF Read, ReadAt
<1>6. ASSUME NEW c \in ConnIds, ReadClosed(c) PROVE IoTypeOK'
  BY <1>6 DEF ReadClosed, ReadFailed, ReadAt
<1>7. ASSUME NEW c \in ConnIds, ReadTimeout(c) PROVE IoTypeOK'
  BY <1>7 DEF ReadTimeout, ReadFailed, ReadAt
<1>8. ASSUME NEW c \in ConnIds, Write(c) \/ WritePacket(c) PROVE IoTypeOK'
  BY <1>8, Zenon DEF Write, WritePacket
<1>9. CASE UNCHANGED <<rdVars, wr, pooled>>
  BY <1>9
<1> QED BY <1>2, <1>3, <1>4, <1>5, <1>6, <1>7, <1>8, <1>9, IoFrame, Zenon

\* Every step keeps every variable in its type.
LEMMA TypeStep ==
  ASSUME IndInv, [Next]_vars PROVE TypeOK'
BY SuperTypeStep, RunTypeStep, CallTypeStep, ConnTypeStep, IoTypeStep DEF TypeOK
=============================================================================
