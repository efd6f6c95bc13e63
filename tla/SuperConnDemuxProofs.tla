------------------------- MODULE SuperConnDemuxProofs -------------------------
(****************************************************************************)
(* TLAPS proof that SuperConn implements Demux: each step of the read loop, *)
(* of Accept, of Read and of both Closes is a step of Demux or changes      *)
(* nothing there.                                                           *)
(****************************************************************************)
EXTENDS SuperConnQueueProofs, SuperConnDemux

USE DEF chanVars, wgVars, errVars, netVars, rlVars, lcVars, accVars, ccVars,
        connVars, rdVars, ioVars, Packets, ConnIds, Live, Held, Closing

\* A step that changes no Conn's phase, no inbox and no packet in hand.
LEMMA DemuxStutter ==
  ASSUME IndInv, UNCHANGED <<src, rlPkt, queue>>,
         \A c \in ConnIds : Phase(c)' = Phase(c)
  PROVE  UNCHANGED D!vars
BY DEF D!vars

\* dispatchMsg drops a packet.
LEMMA DemuxLose ==
  ASSUME IndInv, QueueInv, rlPkt # 0, rlPkt' = 0, UNCHANGED <<src, queue, st, qClosed>>
  PROVE  D!Lose
<1>1. \A c \in ConnIds : Phase(c)' = Phase(c) BY DEF Phase
<1> QED BY <1>1 DEF D!Lose

\* Every step of the read loop is a step of Demux.
LEMMA DemuxReadLoop ==
  ASSUME IndInv, QueueInv,
         \/ ReadPacket \/ ReadFailsOpen \/ ReadFailsClosed \/ ReadLoopCloseReadDone
         \/ ReadLoopWGDone \/ Lookup \/ SendAccept \/ SendExceeded \/ Insert \/ Push
  PROVE  [D!Next]_(D!vars)
<1>1. CASE ReadPacket
  <2>1. rlPkt = 0 /\ rlPkt' # 0 /\ UNCHANGED <<st, qClosed, queue>>
    BY <1>1, QueueTypes DEF ReadPacket, ReadLoopAt, QueueInv, DispatchInv
  <2>2. \A c \in ConnIds : Phase(c)' = Phase(c) BY <2>1 DEF Phase
  <2>3. D!Arrive BY <1>1, <2>1, <2>2 DEF ReadPacket, D!Arrive
  <2> QED BY <2>3 DEF D!Next
<1>2. CASE ReadFailsOpen \/ ReadFailsClosed \/ ReadLoopCloseReadDone \/ ReadLoopWGDone
  <2>1. UNCHANGED <<src, rlPkt, queue, st, qClosed>>
    BY <1>2 DEF ReadFailsOpen, ReadFailsClosed, ReadFails, ReadLoopCloseReadDone,
       ReadLoopWGDone, ReadLoopAt, QueueInv, DispatchInv
  <2> QED BY <2>1, DemuxStutter DEF Phase
<1>3. CASE Lookup \/ SendExceeded \/ Insert
  <2>1. /\ rlPkt # 0 /\ rlPkt' \in {rlPkt, 0} /\ UNCHANGED <<src, queue, st, qClosed>>
    BY <1>3 DEF Lookup, SendExceeded, Insert, DropPacket, ReadLoopAt, QueueInv, DispatchInv
  <2>2. rlPkt' = rlPkt => UNCHANGED D!vars BY <2>1, DemuxStutter DEF Phase
  <2>3. rlPkt' = 0 => D!Next BY <2>1, DemuxLose DEF D!Next
  <2> QED BY <2>1, <2>2, <2>3
<1>4. CASE SendAccept
  <2>1. /\ rlPkt \in ConnIds /\ st[rlPkt] = "free" /\ rlPkt = Len(src) /\ rlPkt # 0
        /\ conns[src[rlPkt]] = 0 /\ rlPkt' = rlPkt /\ UNCHANGED <<src, queue, qClosed>>
    <3>1. rlPkt \in ConnIds /\ st[rlPkt] = "free" BY <1>4, NewConn
    <3>2. rlPc = "send" /\ rlPkt' = rlPkt /\ UNCHANGED <<src, queue, qClosed>>
      BY <1>4, Zenon DEF SendAccept, ReadLoopAt
    <3>3. rlPkt = Len(src) /\ Len(src) > 0 BY <3>2 DEF IndInv, ReadLoopInv
    <3>4. rlPkt # 0 BY <3>3, QueueTypes
    <3>5. conns[src[rlPkt]] = 0 BY <3>2 DEF IndInv, TableInv
    <3> QED BY <3>1, <3>2, <3>3, <3>4, <3>5
  <2>2. st'[rlPkt] \in Live /\ \A c \in ConnIds : c # rlPkt => st'[c] = st[c]
    BY <1>4, <2>1, ZenonT(30) DEF SendAccept, IndInv, TypeOK, ConnTypeOK
  <2>3. ASSUME NEW c \in ConnIds, st[c] \in Live PROVE src[c] # src[rlPkt]
    <3>1. conns[src[c]] = c
      BY <1>4, <2>3, Zenon DEF SendAccept, IndInv, TableInv, RoutingTableExact
    <3> QED BY <2>1, <3>1
  <2>4. \A c \in ConnIds : Phase(c) = "up" => st[c] \in Live BY DEF Phase
  <2>5. \A c \in ConnIds : Phase(c)' = IF c = rlPkt THEN "up" ELSE Phase(c)
    BY <2>1, <2>2 DEF Phase
  <2>6. Phase(rlPkt) = "none" BY <2>1 DEF Phase
  <2>7. \A c \in 1..Len(src) : c \in ConnIds BY QueueTypes
  <2>8. D!Up
    BY <2>1, <2>3, <2>4, <2>5, <2>6, <2>7, Zenon DEF D!Up, D!Last, D!ConnIds
  <2> QED BY <2>8 DEF D!Next
<1>5. CASE Push
  <2>1. /\ rlPkt # 0 /\ rlPkt = Len(src) /\ rlPkt' = 0 /\ rlConn \in ConnIds
        /\ src[rlConn] = src[rlPkt] /\ st[rlConn] # "free" /\ UNCHANGED <<src, st, qClosed>>
    BY <1>5, QueueTypes, SMTT(30) DEF Push, ReadLoopAt, IndInv, ReadLoopInv, QueueInv, DispatchInv
  <2>2. CASE queue' = queue
    BY <2>1, <2>2, DemuxLose DEF D!Next
  <2>3. CASE ~qClosed[rlConn] /\ queue' = [queue EXCEPT ![rlConn] = Append(@, rlPkt)]
    <3>1. Phase(rlConn) \in {"up", "down"} BY <2>1, <2>3 DEF Phase
    <3>2. \A c \in ConnIds : Phase(c)' = Phase(c) BY <2>1 DEF Phase
    <3>3. D!Deliver(rlConn) BY <2>1, <2>3, <3>1, <3>2 DEF D!Deliver, D!Last, D!ConnIds
    <3> QED BY <2>1, <3>3 DEF D!Next, D!ConnIds
  <2> QED BY <1>5, <2>2, <2>3 DEF Push, Pushed
<1> QED BY <1>1, <1>2, <1>3, <1>4, <1>5

\* Accept and the steps of Conn.Close that neither touch the table nor the queue
\* change nothing in Demux.
LEMMA DemuxSamePhase ==
  ASSUME IndInv, NEW c \in ConnIds, NEW x, st' = [st EXCEPT ![c] = x],
         st[c] # "free" /\ x # "free", st[c] \in Live <=> x \in Live,
         UNCHANGED <<src, rlPkt, queue, qClosed>>
  PROVE  UNCHANGED D!vars
<1>1. \A d \in ConnIds : st'[d] = IF d = c THEN x ELSE st[d]
  BY DEF IndInv, TypeOK, ConnTypeOK
<1>2. \A d \in ConnIds : Phase(d)' = Phase(d) BY <1>1 DEF Phase
<1> QED BY <1>2, DemuxStutter

\* A Conn whose entry leaves the table goes down.
LEMMA DemuxDown ==
  ASSUME IndInv, NEW c \in ConnIds, NEW x, st' = [st EXCEPT ![c] = x],
         st[c] \in Live, x \notin Live \cup {"free"}, UNCHANGED <<src, rlPkt, queue, qClosed>>
  PROVE  D!Next
<1>1. \A d \in ConnIds : st'[d] = IF d = c THEN x ELSE st[d]
  BY DEF IndInv, TypeOK, ConnTypeOK
<1>2. ~qClosed[c] BY DEF IndInv, DoneInv
<1>3. \A d \in ConnIds : Phase(d)' = IF d = c THEN "down" ELSE Phase(d)
  BY <1>1, <1>2 DEF Phase
<1>4. Phase(c) = "up" BY DEF Phase
<1>5. D!Down(c) BY <1>3, <1>4, Zenon DEF D!Down, D!ConnIds
<1> QED BY <1>5 DEF D!Next, D!ConnIds

\* queue.Close discards what the Conn holds.
LEMMA DemuxDiscard ==
  ASSUME IndInv, NEW c \in ConnIds, ConnQueueClose(c) PROVE D!Next
<1>1. /\ \A d \in ConnIds : st'[d] = IF d = c THEN "closed" ELSE st[d]
      /\ \A d \in ConnIds : qClosed'[d] = IF d = c THEN TRUE ELSE qClosed[d]
  BY DEF ConnQueueClose, IndInv, TypeOK, ConnTypeOK
<1>2. st[c] = "queueClose" /\ ~qClosed[c] BY DEF ConnQueueClose, IndInv, DoneInv
<1>3. \A d \in ConnIds : Phase(d)' = IF d = c THEN "discarded" ELSE Phase(d)
  BY <1>1, Zenon DEF Phase
<1>4. Phase(c) = "down" BY <1>2 DEF Phase
<1>5. D!Discard(c) BY <1>3, <1>4, Zenon DEF ConnQueueClose, D!Discard, D!ConnIds
<1> QED BY <1>5 DEF D!Next, D!ConnIds

\* Read takes the oldest packet.
LEMMA DemuxTake ==
  ASSUME IndInv, NEW c \in ConnIds, ReadPop(c) PROVE D!Next
<1>1. \A d \in ConnIds : Phase(d)' = Phase(d) BY DEF ReadPop, Phase
<1>2. D!Take(c) BY <1>1 DEF ReadPop, Popped, D!Take
<1> QED BY <1>2 DEF D!Next, D!ConnIds

\* Only these actions change anything Demux sees.
LEMMA DemuxFrame ==
  ASSUME [Next]_vars
  PROVE  \/ UNCHANGED <<src, rlPkt, queue, st, qClosed>>
         \/ ReadPacket \/ ReadFailsOpen \/ ReadFailsClosed \/ ReadLoopCloseReadDone \/
            ReadLoopWGDone \/ Lookup \/ SendAccept \/ SendExceeded \/ Insert \/ Push \/
            CloseDrain
         \/ \E a \in Acceptors : Accept(a) \/ AcceptAdd(a)
         \/ \E c \in ConnIds : ConnClose(c) \/ ConnCloseDoneCh(c) \/ ConnDelete(c) \/
            ConnCheckFinal(c) \/ ConnWait(c) \/ ConnQueueClose(c) \/ ReadPop(c)
BY ZenonT(60) DEF Next, vars, ReadLoopStep, CloserStep, CloseStep, Environment,
   ConnCloseStep, ReadStep, CloserWait, CloserWoken, CloserClosing, CloserClosed,
   CloserDone, CloseBegin, CloseAt, CloseDoneCh, WakeParked, CloseLock, CloseDrained,
   CloseWGDone, ConnWGDone, CloseWait, Returned, AcceptAt, AcceptTimeout, Read, ReadAt,
   ReadClosed, ReadFailed, ReadTimeout, ReadRelease, Write, WritePacket

\* Every step is a step of Demux or changes nothing there.
LEMMA DemuxStep ==
  ASSUME IndInv, QueueInv, [Next]_vars PROVE [D!Next]_(D!vars)
<1>1. CASE CloseDrain
  <2>1. Head(acceptCh) \in ConnIds /\ st[Head(acceptCh)] \in Live
    BY <1>1, AcceptHead DEF CloseDrain
  <2> QED BY <1>1, <2>1, DemuxDown, ZenonT(30) DEF CloseDrain
<1>2. ASSUME NEW c \in ConnIds, ConnDelete(c) PROVE D!Next
  BY <1>2, DemuxDown, ZenonT(30) DEF ConnDelete
<1>3. ASSUME NEW a \in Acceptors, Accept(a) PROVE UNCHANGED D!vars
  <2>1. UNCHANGED <<src, rlPkt, queue, qClosed>> BY <1>3 DEF Accept
  <2>2. CASE acceptCh # <<>> /\ st' = [st EXCEPT ![Head(acceptCh)] = "taken"]
    BY <2>1, <2>2, AcceptHead, DemuxSamePhase, Zenon
  <2>3. CASE UNCHANGED st
    BY <2>1, <2>3, DemuxStutter DEF Phase
  <2> QED BY <1>3, <2>2, <2>3 DEF Accept
<1>4. ASSUME NEW a \in Acceptors, AcceptAdd(a) PROVE UNCHANGED D!vars
  BY <1>4, AcceptTaken, DemuxSamePhase, Zenon DEF AcceptAdd
<1>5. ASSUME NEW c \in ConnIds, ConnClose(c) \/ ConnCloseDoneCh(c) PROVE UNCHANGED D!vars
  BY <1>5, DemuxSamePhase DEF ConnClose, ConnCloseDoneCh
<1>6. ASSUME NEW c \in ConnIds, ConnCheckFinal(c) \/ ConnWait(c) PROVE UNCHANGED D!vars
  BY <1>6, DemuxSamePhase DEF ConnCheckFinal, ConnWait
<1>7. CASE UNCHANGED <<src, rlPkt, queue, st, qClosed>>
  BY <1>7, DemuxStutter DEF Phase
<1> QED BY <1>1, <1>2, <1>3, <1>4, <1>5, <1>6, <1>7, DemuxReadLoop, DemuxDiscard,
      DemuxTake, DemuxFrame

\* SuperConn implements Demux: however the read loop, getSubConn, dispatchMsg,
\* Accept, Read and the Closes interleave, each packet is lost or delivered to
\* the one Conn of its sender, in order, and a Conn that went down stays down.
THEOREM DemuxRefinement == Spec => ImplementsDemux
<1>1. Init => D!Init
  BY DEF Init, Phase, D!Init, D!ConnIds
<1>2. IndInv /\ QueueInv /\ [Next]_vars => [D!Next]_(D!vars) BY DemuxStep
<1> QED BY <1>1, <1>2, Invariance, QueueInvariance, PTL DEF Spec, ImplementsDemux, D!Spec
=============================================================================
