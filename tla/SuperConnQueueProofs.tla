------------------------- MODULE SuperConnQueueProofs -------------------------
(****************************************************************************)
(* TLAPS proofs about the packets of a supConn: which Conn a packet goes    *)
(* to, in which order Read returns it and who holds its buffers.            *)
(****************************************************************************)
EXTENDS SuperConnProofs

USE DEF chanVars, wgVars, errVars, netVars, rlVars, lcVars, accVars, ccVars,
        connVars, rdVars, ioVars, Packets, ConnIds, Live, Held, Closing

\* Only these actions change what QueueInv is about, the life of a Conn aside.
LEMMA QueueFrame ==
  ASSUME [Next]_vars
  PROVE  \/ UNCHANGED <<rlVars, src, queue, rdPc, rdPkt, rdLast, pooled>>
         \/ ReadPacket \/ ReadFailsOpen \/ ReadFailsClosed \/ ReadLoopCloseReadDone \/
            ReadLoopWGDone \/ Lookup \/ SendAccept \/ SendExceeded \/ Insert \/ Push
         \/ \E c \in ConnIds : ConnQueueClose(c) \/ Read(c) \/ ReadPop(c) \/
            ReadClosed(c) \/ ReadTimeout(c) \/ ReadRelease(c)
BY ZenonT(60) DEF Next, vars, ReadLoopStep, CloserStep, CloseStep, Environment,
   ConnCloseStep, ReadStep, CloserWait, CloserWoken, CloserClosing, CloserClosed,
   CloserDone, CloseBegin, CloseAt, CloseDoneCh, WakeParked, CloseLock, CloseDrain,
   CloseConnDoneCh, Deleted, CloseDrained, CloseWGDone, ConnWGDone, CloseWait, Accept,
   Returned, AcceptAt, AcceptTimeout, AcceptAdd, ConnWGAdd, ConnClose,
   ConnCloseDoneCh, ConnDelete, ConnCheckFinal, ConnWait, Write, WritePacket

\* A Conn, once created, is never a free slot again.
LEMMA NeverFree ==
  ASSUME IndInv, [Next]_vars, NEW c \in ConnIds, st[c] # "free" PROVE st'[c] # "free"
<1> USE DEF IndInv, TypeOK, ConnTypeOK
<1>1. CASE SendAccept BY <1>1, NewConn, ZenonT(30) DEF SendAccept
<1>2. CASE CloseDrain BY <1>2, AcceptHead, ZenonT(30) DEF CloseDrain
<1>3. ASSUME NEW a \in Acceptors, Accept(a) \/ AcceptAdd(a) PROVE st'[c] # "free"
  BY <1>3, ZenonT(30) DEF Accept, AcceptAdd
<1>4. ASSUME NEW d \in ConnIds,
             \/ ConnClose(d) \/ ConnCloseDoneCh(d) \/ ConnDelete(d)
             \/ ConnCheckFinal(d) \/ ConnWait(d) \/ ConnQueueClose(d)
      PROVE  st'[c] # "free"
  BY <1>4, ZenonT(30) DEF ConnClose, ConnCloseDoneCh, ConnDelete, ConnCheckFinal, ConnWait,
     ConnQueueClose
<1>5. CASE UNCHANGED <<cDone, qClosed, st>> BY <1>5
<1> QED BY <1>1, <1>2, <1>3, <1>4, <1>5, DoneInvFrame

\* The types the proofs below use.
LEMMA QueueTypes ==
  ASSUME IndInv
  PROVE  /\ rlPkt \in 0..MaxPackets /\ src \in Seq(Addrs) /\ Len(src) \in Nat
         /\ Len(src) <= MaxPackets /\ MaxPackets \in Nat
         /\ queue \in [ConnIds -> Seq(Packets)]
         /\ \A c \in ConnIds : /\ Len(queue[c]) \in Nat
                               /\ \A i \in 1..Len(queue[c]) : queue[c][i] \in Packets
         /\ rdPc \in [ConnIds -> {"idle", "pop", "copy"}]
         /\ rdPkt \in [ConnIds -> 0..MaxPackets] /\ rdLast \in [ConnIds -> 0..MaxPackets]
         /\ pooled \subseteq Packets
<1>1. queue \in [ConnIds -> Seq(Packets)] BY DEF IndInv, TypeOK, ConnTypeOK
<1>2. \A c \in ConnIds : /\ Len(queue[c]) \in Nat
                         /\ \A i \in 1..Len(queue[c]) : queue[c][i] \in Packets
  BY <1>1, LenProperties, ElementOfSeq, Zenon
<1> QED BY <1>1, <1>2, MaxPacketsNat, LenProperties DEF IndInv, TypeOK, RunTypeOK, IoTypeOK

\* Every step keeps the read loop's packet with a Conn of its sender.
LEMMA DispatchStep ==
  ASSUME IndInv, DispatchInv, [Next]_vars PROVE DispatchInv'
<1>1. \A c \in ConnIds : st[c] # "free" => st'[c] # "free" BY NeverFree
<1>2. rlPc = "push" => rlConn \in ConnIds
  BY QueueTypes DEF IndInv, ReadLoopInv
<1> USE QueueTypes DEF DispatchInv
<1>3. CASE ReadPacket
  <2>1. rlPkt' = Len(src) + 1 /\ rlPc' = "lookup" /\ UNCHANGED <<rdPkt, rdPc>>
    BY <1>3 DEF ReadPacket, ReadLoopAt
  <2> QED BY <2>1
<1>4. CASE ReadFailsOpen \/ ReadFailsClosed \/ ReadLoopCloseReadDone \/ ReadLoopWGDone
  BY <1>4 DEF ReadFailsOpen, ReadFailsClosed, ReadFails, ReadLoopCloseReadDone,
     ReadLoopWGDone, ReadLoopAt
<1>5. CASE Lookup
  <2> DEFINE d == conns[src[rlPkt]]
  <2>1. src[rlPkt] \in Addrs /\ rlPkt # 0
    BY <1>5, ElementOfSeq DEF Lookup, IndInv, ReadLoopInv
  <2>2. d # 0 => src[d] = src[rlPkt] /\ st[d] # "free" BY <2>1, Routed, Zenon
  <2> QED BY <1>5, <2>1, <2>2 DEF Lookup, DropPacket, ReadLoopAt
<1>6. CASE SendAccept \/ SendExceeded \/ Push
  BY <1>6 DEF SendAccept, SendExceeded, Push, DropPacket, ReadLoopAt
<1>7. CASE Insert
  BY <1>7 DEF Insert, ReadLoopAt, IndInv, ReadLoopInv, TableInv
<1>8. ASSUME NEW c \in ConnIds, ReadPop(c) PROVE DispatchInv'
  <2>1. queue[c] \in Seq(Packets) /\ queue[c] # <<>> BY <1>8, Zenon DEF ReadPop
  <2>2. Head(queue[c]) \in Packets BY <2>1, Dequeue, Zenon
  <2> QED BY <1>1, <1>2, <1>8, <2>2 DEF ReadPop, ReadAt
<1>9. ASSUME NEW c \in ConnIds, Read(c) \/ ReadRelease(c) PROVE DispatchInv'
  <2>1. CASE Read(c) BY <1>1, <1>2, <2>1 DEF Read, ReadAt
  <2>2. CASE ReadRelease(c) BY <1>1, <1>2, <2>2 DEF ReadRelease, ReadAt
  <2> QED BY <1>9, <2>1, <2>2
<1>10. ASSUME NEW c \in ConnIds, ReadClosed(c) \/ ReadTimeout(c) PROVE DispatchInv'
  BY <1>1, <1>2, <1>10, ZenonT(30) DEF ReadClosed, ReadTimeout, ReadFailed, ReadAt
<1>11. ASSUME NEW c \in ConnIds, ConnQueueClose(c) PROVE DispatchInv'
  BY <1>1, <1>2, <1>11 DEF ConnQueueClose
<1>12. CASE UNCHANGED <<rlVars, src, queue, rdPc, rdPkt, rdLast, pooled>>
  BY <1>1, <1>2, <1>12
<1> QED BY <1>3, <1>4, <1>5, <1>6, <1>7, <1>8, <1>9, <1>10, <1>11, <1>12, QueueFrame

\* A step that moves no packet, except perhaps out of the read loop.
LEMMA PacketsKeep ==
  ASSUME IndInv, QueueInv, UNCHANGED <<src, queue, rdPkt, rdLast, pooled>>,
         rlPkt' \in {rlPkt, 0}
  PROVE  HeldInv' /\ OrderInv'
<1>1. \A c \in ConnIds, p \in Packets : Holds(c, p)' <=> Holds(c, p) BY DEF Holds
<1>2. HeldInv' BY <1>1, QueueTypes DEF QueueInv, HeldInv
<1>3. OrderInv' BY <1>1, QueueTypes DEF QueueInv, OrderInv
<1> QED BY <1>2, <1>3

\* A new packet arrives: it is younger than all others.
LEMMA PacketsArrive ==
  ASSUME IndInv, QueueInv, ReadPacket PROVE HeldInv' /\ OrderInv'
<1>1. PICK a \in Addrs : src' = Append(src, a) BY DEF ReadPacket
<1>2. /\ Len(src') = Len(src) + 1 /\ \A i \in 1..Len(src) : src'[i] = src[i]
      /\ rlPkt' = Len(src) + 1 /\ UNCHANGED <<queue, rdPkt, rdLast, pooled>>
  BY <1>1, QueueTypes, AppendProperties DEF ReadPacket, ReadLoopAt
<1>3. \A c \in ConnIds, p \in Packets : Holds(c, p)' <=> Holds(c, p) BY <1>2 DEF Holds
<1>4. ASSUME NEW c \in ConnIds, NEW p \in Packets, p \in c..Len(src), src[p] = src[c]
      PROVE  p \in c..Len(src') /\ src'[p] = src'[c] /\ p # rlPkt'
  <2>1. Len(src) \in Nat /\ MaxPackets \in Nat BY QueueTypes
  <2>2. c \in 1..Len(src) /\ p \in 1..Len(src) BY <1>4, <2>1
  <2> QED BY <1>2, <1>4, <2>1, <2>2
<1>5. HeldInv'
  <2>1. \A c \in ConnIds, p \in Packets : Holds(c, p) =>
          /\ p \in c..Len(src) /\ src[p] = src[c] /\ p \notin pooled
          /\ \A d \in ConnIds : Holds(d, p) => d = c
    BY DEF QueueInv, HeldInv
  <2>2. \A p \in pooled : p <= Len(src') /\ p # rlPkt'
    BY <1>2, QueueTypes DEF QueueInv, HeldInv
  <2> QED BY <1>2, <1>3, <1>4, <2>1, <2>2 DEF HeldInv
<1>6. OrderInv'
  <2>1. \A c \in ConnIds : rdLast[c] # 0 => rdLast[c] \in Packets BY QueueTypes
  <2> QED BY <1>2, <1>3, <1>4, <2>1 DEF QueueInv, OrderInv
<1> QED BY <1>5, <1>6

\* Push appends the youngest packet to a queue of its sender, or drops it.
LEMMA PacketsPush ==
  ASSUME IndInv, QueueInv, Push PROVE HeldInv' /\ OrderInv'
<1>1. CASE queue' = queue
  BY <1>1, PacketsKeep DEF Push, ReadLoopAt
<1>2. CASE queue' = [queue EXCEPT ![rlConn] = Append(queue[rlConn], rlPkt)]
  <2> DEFINE c == rlConn  q == queue[c]
  <2>1. /\ c \in ConnIds /\ c <= rlPkt /\ rlPkt = Len(src) /\ rlPkt \in Packets
        /\ src[c] = src[rlPkt] /\ rlPkt' = 0 /\ UNCHANGED <<src, rdPkt, rdLast, pooled>>
    BY QueueTypes DEF Push, ReadLoopAt, IndInv, ReadLoopInv, QueueInv, DispatchInv
  <2>2. /\ q \in Seq(Packets) /\ Len(q) \in Nat
        /\ queue'[c] = Append(q, rlPkt) /\ \A d \in ConnIds : d # c => queue'[d] = queue[d]
    BY <1>2, <2>1, QueueTypes, Zenon
  <2>3. /\ Len(queue'[c]) = Len(q) + 1 /\ queue'[c][Len(q) + 1] = rlPkt
        /\ \A i \in 1..Len(q) : queue'[c][i] = q[i]
    BY <2>1, <2>2, AppendProperties, SMTT(30)
  <2>4. ASSUME NEW d \in ConnIds, NEW p \in Packets, Holds(d, p)'
        PROVE  Holds(d, p) \/ (d = c /\ p = rlPkt)
    <3>1. CASE d # c BY <2>1, <2>2, <2>4, <3>1 DEF Holds
    <3>2. CASE d = c
      <4>1. \A i \in 1..Len(queue'[c]) : i = Len(q) + 1 \/ i \in 1..Len(q) BY <2>2, <2>3
      <4>2. (p # 0 /\ p = rdPkt[c]) \/ \E i \in 1..Len(queue'[c]) : queue'[c][i] = p
        BY <2>1, <2>4, <3>2 DEF Holds
      <4> QED BY <2>3, <3>2, <4>1, <4>2 DEF Holds
    <3> QED BY <3>1, <3>2
  <2>5. \A d \in ConnIds, p \in Packets : Holds(d, p) => p # rlPkt /\ p <= Len(src)
    BY QueueTypes DEF QueueInv, HeldInv
  <2>6. HeldInv'
    <3>1. rlPkt \notin pooled BY DEF QueueInv, HeldInv
    <3> QED BY <2>1, <2>4, <2>5, <3>1, QueueTypes DEF QueueInv, HeldInv
  <2>7. \A d \in ConnIds : \A i \in 1..Len(queue[d]) : queue[d][i] < rlPkt
    <3>1. \A d \in ConnIds : \A i \in 1..Len(queue[d]) :
            Holds(d, queue[d][i]) /\ queue[d][i] \in Packets
      BY QueueTypes DEF Holds
    <3>2. \A p \in Packets : p # rlPkt /\ p <= Len(src) => p < rlPkt BY <2>1
    <3> QED BY <2>5, <3>1, <3>2
  <2>8. \A d \in ConnIds : rdPkt[d] < rlPkt /\ rdLast[d] < rlPkt
    <3>1. \A d \in ConnIds : rdPkt[d] # 0 => Holds(d, rdPkt[d]) BY DEF Holds
    <3>2. \A p \in 0..MaxPackets : p = 0 \/ (p # rlPkt /\ p <= Len(src)) => p < rlPkt
      BY <2>1, MaxPacketsNat
    <3>3. \A d \in ConnIds : /\ rdPkt[d] \in 0..MaxPackets /\ rdLast[d] \in 0..MaxPackets
                             /\ rdPkt[d] # 0 => rdPkt[d] \in Packets
      <4>1. \A d \in ConnIds : rdPkt[d] \in 0..MaxPackets /\ rdLast[d] \in 0..MaxPackets
        BY QueueTypes, Zenon
      <4> QED BY <4>1, MaxPacketsNat
    <3>4. \A d \in ConnIds : rdLast[d] = 0 \/ (rdLast[d] # rlPkt /\ rdLast[d] <= Len(src))
      BY QueueTypes DEF QueueInv, OrderInv
    <3> QED BY <2>5, <3>1, <3>2, <3>3, <3>4
  <2>9. OrderInv'
    <3> SUFFICES ASSUME NEW d \in ConnIds
        PROVE /\ \A i, j \in 1..Len(queue'[d]) : i < j => queue'[d][i] < queue'[d][j]
              /\ \A i \in 1..Len(queue'[d]) : rdPkt[d] < queue'[d][i]
              /\ \A p \in Packets : Holds(d, p)' => rdLast[d] < p
              /\ rdLast[d] # 0 => rdLast[d] \in d..Len(src) /\ src[rdLast[d]] = src[d]
      BY <2>1, QueueTypes, SMTT(30) DEF OrderInv
    <3>1. /\ \A i, j \in 1..Len(queue[d]) : i < j => queue[d][i] < queue[d][j]
          /\ \A i \in 1..Len(queue[d]) : rdPkt[d] < queue[d][i]
          /\ \A p \in Packets : Holds(d, p) => rdLast[d] < p
          /\ rdLast[d] # 0 => rdLast[d] \in d..Len(src) /\ src[rdLast[d]] = src[d]
      BY DEF QueueInv, OrderInv
    <3>2. \A p \in Packets : Holds(d, p)' => rdLast[d] < p BY <2>4, <2>8, <3>1
    <3>3. CASE d # c BY <2>2, <3>1, <3>2, <3>3
    <3>4. CASE d = c
      <4>1. \A i \in 1..Len(queue'[c]) : i = Len(q) + 1 \/ i \in 1..Len(q) BY <2>2, <2>3
      <4>2. \A i, j \in 1..Len(queue'[c]) : i < j => queue'[c][i] < queue'[c][j]
        BY <2>1, <2>2, <2>3, <2>7, <3>1, <3>4, <4>1
      <4>3. \A i \in 1..Len(queue'[c]) : rdPkt[c] < queue'[c][i]
        BY <2>1, <2>3, <2>8, <3>1, <3>4, <4>1
      <4> QED BY <3>1, <3>2, <3>4, <4>2, <4>3
    <3> QED BY <3>3, <3>4
  <2> QED BY <2>6, <2>9
<1> QED BY <1>1, <1>2 DEF Push, Pushed

\* Pop moves the oldest packet of a Conn from its queue to Read.
LEMMA PacketsPop ==
  ASSUME IndInv, QueueInv, NEW c \in ConnIds, ReadPop(c) PROVE HeldInv' /\ OrderInv'
<1> DEFINE q == queue[c]
<1>1. q \in Seq(Packets) /\ q # <<>> BY QueueTypes, SMTT(30) DEF ReadPop
<1>2. /\ Head(q) \in Packets /\ Head(q) = q[1] /\ Len(q) \in Nat /\ Len(q) > 0
      /\ Len(Tail(q)) = Len(q) - 1 /\ \A i \in 1..Len(Tail(q)) : Tail(q)[i] = q[i+1]
  BY <1>1, Dequeue, Zenon
<1>3. /\ UNCHANGED <<src, rlPkt, rdLast, pooled>>
      /\ queue'[c] = Tail(q) /\ rdPkt'[c] = q[1]
      /\ \A d \in ConnIds : d # c => queue'[d] = queue[d] /\ rdPkt'[d] = rdPkt[d]
  BY <1>2, QueueTypes DEF ReadPop, ReadAt, Popped
<1>4. \A i \in 1..Len(queue'[c]) : /\ queue'[c][i] = q[i+1] /\ i + 1 \in 1..Len(q)
                                   /\ 1 < i + 1
  BY <1>2, <1>3
<1>5. ASSUME NEW d \in ConnIds, NEW p \in Packets, Holds(d, p)' PROVE Holds(d, p)
  <2>1. 1 \in 1..Len(q) BY <1>2
  <2>2. CASE d # c BY <1>3, <1>5, <2>2 DEF Holds
  <2>3. CASE d = c BY <1>3, <1>4, <1>5, <2>1, <2>3, ZenonT(30) DEF Holds
  <2> QED BY <2>2, <2>3
<1>6. HeldInv' BY <1>3, <1>5, QueueTypes, ZenonT(30) DEF QueueInv, HeldInv
<1>7. OrderInv'
  <2>1. 1 \in 1..Len(q) BY <1>2
  <2>2. \A i, j \in 1..Len(queue'[c]) : i < j => queue'[c][i] < queue'[c][j]
    BY <1>4, QueueTypes, SMTT(30) DEF QueueInv, OrderInv
  <2>3. \A i \in 1..Len(queue'[c]) : rdPkt'[c] < queue'[c][i]
    BY <1>3, <1>4, <2>1, ZenonT(30) DEF QueueInv, OrderInv
  <2> QED BY <1>3, <1>5, <2>2, <2>3, QueueTypes, ZenonT(30) DEF QueueInv, OrderInv
<1> QED BY <1>6, <1>7

\* Read releases the buffers of the packet it copied and forgets them.
LEMMA PacketsRelease ==
  ASSUME IndInv, QueueInv, NEW c \in ConnIds, ReadRelease(c) PROVE HeldInv' /\ OrderInv'
<1>1. /\ UNCHANGED <<src, rlPkt, queue>> /\ pooled' = pooled \cup {rdPkt[c]}
      /\ rdPkt'[c] = 0 /\ rdLast'[c] = rdPkt[c] /\ rdPkt[c] \in Packets
      /\ \A d \in ConnIds : d # c => rdPkt'[d] = rdPkt[d] /\ rdLast'[d] = rdLast[d]
  <2>1. rdPkt[c] \in Packets BY QueueTypes DEF ReadRelease, QueueInv, DispatchInv
  <2>2. UNCHANGED <<src, rlPkt, queue>> /\ pooled' = pooled \cup {rdPkt[c]}
    BY DEF ReadRelease
  <2>3. ReadAt(c, "idle", 0, rdPkt[c], "none") BY DEF ReadRelease
  <2> QED BY <2>1, <2>2, <2>3, QueueTypes DEF ReadAt
<1>2. Holds(c, rdPkt[c]) BY <1>1 DEF Holds
<1>3. ASSUME NEW d \in ConnIds, NEW p \in Packets, Holds(d, p)'
      PROVE  Holds(d, p) /\ p # rdPkt[c] /\ (d = c => rdPkt[c] < p)
  <2>1. Holds(d, p) BY <1>1, <1>3 DEF Holds
  <2>2. CASE d = c
    <3>1. \E i \in 1..Len(queue[c]) : queue[c][i] = p BY <1>1, <1>3, <2>2 DEF Holds
    <3>2. rdPkt[c] < p BY <3>1 DEF QueueInv, OrderInv
    <3> QED BY <1>1, <2>1, <3>2
  <2>3. CASE d # c BY <1>1, <1>2, <2>1, <2>3 DEF QueueInv, HeldInv
  <2> QED BY <2>1, <2>2, <2>3
<1>4. HeldInv' BY <1>1, <1>2, <1>3, QueueTypes, SMTT(30) DEF QueueInv, HeldInv
<1>5. OrderInv'
  <2>1. \A d \in ConnIds : \A i \in 1..Len(queue[d]) : rdPkt'[d] < queue[d][i]
    <3>1. \A i \in 1..Len(queue[c]) : 0 < queue[c][i] BY QueueTypes
    <3> QED BY <1>1, <3>1 DEF QueueInv, OrderInv
  <2>2. rdPkt[c] \in c..Len(src) /\ src[rdPkt[c]] = src[c] /\ rdPkt[c] # rlPkt
    BY <1>1, <1>2 DEF QueueInv, HeldInv
  <2> QED BY <1>1, <1>3, <2>1, <2>2, SMTT(30) DEF QueueInv, OrderInv
<1> QED BY <1>4, <1>5

\* queue.Close puts the buffers of every queued packet back and empties the queue.
LEMMA PacketsDiscard ==
  ASSUME IndInv, QueueInv, NEW c \in ConnIds, ConnQueueClose(c)
  PROVE  HeldInv' /\ OrderInv'
<1>1. /\ UNCHANGED <<src, rlPkt, rdPkt, rdLast>> /\ pooled' = pooled \cup QueuedIn(c)
      /\ queue'[c] = <<>> /\ \A d \in ConnIds : d # c => queue'[d] = queue[d]
  BY QueueTypes DEF ConnQueueClose
<1>2. \A p \in QueuedIn(c) : p \in Packets /\ Holds(c, p) /\ rdPkt[c] < p
  BY QueueTypes DEF QueuedIn, Holds, QueueInv, OrderInv
<1>3. ASSUME NEW d \in ConnIds, NEW p \in Packets, Holds(d, p)'
      PROVE  Holds(d, p) /\ p \notin QueuedIn(c)
  <2>1. CASE d = c
    <3>1. p = rdPkt[c] /\ p # 0 BY <1>1, <1>3, <2>1 DEF Holds
    <3> QED BY <1>2, <2>1, <3>1 DEF Holds
  <2>2. CASE d # c
    <3>1. Holds(d, p) BY <1>1, <1>3, <2>2 DEF Holds
    <3> QED BY <1>2, <2>2, <3>1 DEF QueueInv, HeldInv
  <2> QED BY <2>1, <2>2
<1>4. HeldInv' BY <1>1, <1>2, <1>3, QueueTypes DEF QueueInv, HeldInv
<1>5. OrderInv'
  <2>1. \A i \in 1..Len(queue'[c]) : FALSE BY <1>1
  <2>2. \A d \in ConnIds, p \in Packets : Holds(d, p)' => rdLast[d] < p
    BY <1>3 DEF QueueInv, OrderInv
  <2>3. \A d \in ConnIds : d # c =>
          /\ \A i, j \in 1..Len(queue'[d]) : i < j => queue'[d][i] < queue'[d][j]
          /\ \A i \in 1..Len(queue'[d]) : rdPkt[d] < queue'[d][i]
    BY <1>1 DEF QueueInv, OrderInv
  <2> QED BY <1>1, <2>1, <2>2, <2>3 DEF QueueInv, OrderInv
<1> QED BY <1>4, <1>5

\* Every step keeps the packets where they belong.
LEMMA QueueStep ==
  ASSUME IndInv, QueueInv, [Next]_vars PROVE QueueInv'
<1>1. DispatchInv' BY DispatchStep DEF QueueInv
<1>2. CASE \/ ReadFailsOpen \/ ReadFailsClosed \/ ReadLoopCloseReadDone
           \/ ReadLoopWGDone \/ Lookup \/ SendAccept \/ SendExceeded \/ Insert
  <2>1. UNCHANGED <<src, queue, rdPkt, rdLast, pooled>> /\ rlPkt' \in {rlPkt, 0}
    BY <1>2, Zenon DEF ReadFailsOpen, ReadFailsClosed, ReadFails, ReadLoopCloseReadDone,
       ReadLoopWGDone, Lookup, SendAccept, SendExceeded, Insert, DropPacket, ReadLoopAt
  <2> QED BY <1>1, <2>1, PacketsKeep DEF QueueInv
<1>3. ASSUME NEW c \in ConnIds, Read(c) \/ ReadClosed(c) \/ ReadTimeout(c)
      PROVE  QueueInv'
  <2>1. rdPkt[c] = 0 BY <1>3 DEF Read, ReadClosed, ReadTimeout, ReadFailed, QueueInv, DispatchInv
  <2>2. UNCHANGED <<src, queue, rlPkt, pooled>>
    BY <1>3 DEF Read, ReadClosed, ReadTimeout, ReadFailed
  <2>3. \E res, pc : ReadAt(c, pc, 0, rdLast[c], res)
    BY <1>3 DEF Read, ReadClosed, ReadTimeout, ReadFailed
  <2>4. UNCHANGED <<rdPkt, rdLast>> BY <2>1, <2>3, QueueTypes DEF ReadAt
  <2> QED BY <1>1, <2>2, <2>4, PacketsKeep DEF QueueInv
<1>4. CASE UNCHANGED <<rlVars, src, queue, rdPc, rdPkt, rdLast, pooled>>
  BY <1>1, <1>4, PacketsKeep DEF QueueInv
<1> QED BY <1>1, <1>2, <1>3, <1>4, PacketsArrive, PacketsPush, PacketsPop,
      PacketsRelease, PacketsDiscard, QueueFrame DEF QueueInv

\* The inductive invariant about the packets holds in every reachable state.
THEOREM QueueInvariance == Spec => []QueueInv
<1>1. Init => QueueInv
  <2> SUFFICES ASSUME Init PROVE QueueInv OBVIOUS
  <2>1. DispatchInv BY DEF Init, DispatchInv
  <2>2. \A c \in ConnIds, p \in Packets : ~Holds(c, p) BY DEF Init, Holds
  <2>3. HeldInv BY <2>2 DEF Init, HeldInv
  <2>4. OrderInv BY <2>2 DEF Init, OrderInv
  <2> QED BY <2>1, <2>3, <2>4 DEF QueueInv
<1>2. IndInv /\ QueueInv /\ [Next]_vars => QueueInv' BY QueueStep
<1> QED BY <1>1, <1>2, Invariance, PTL DEF Spec

\* Older packets in order before younger ones in order are in order.
LEMMA InOrderConcat ==
  ASSUME NEW c \in ConnIds, NEW s \in Seq(Packets), NEW t \in Seq(Packets),
         InOrder(c, s), InOrder(c, t),
         \A i \in 1..Len(s), j \in 1..Len(t) : s[i] < t[j]
  PROVE  /\ s \o t \in Seq(Packets) /\ InOrder(c, s \o t)
         /\ \A i \in 1..Len(s \o t) :
              \/ \E j \in 1..Len(s) : (s \o t)[i] = s[j]
              \/ \E j \in 1..Len(t) : (s \o t)[i] = t[j]
<1> DEFINE u == s \o t
<1>1. /\ u \in Seq(Packets) /\ Len(s) \in Nat /\ Len(t) \in Nat /\ Len(u) = Len(s) + Len(t)
      /\ \A i \in 1..Len(u) : u[i] = IF i <= Len(s) THEN s[i] ELSE t[i - Len(s)]
  BY ConcatProperties, LenProperties
<1> HIDE DEF u
<1>2. \A i \in 1..Len(u) : \/ i \in 1..Len(s) /\ u[i] = s[i]
                           \/ i - Len(s) \in 1..Len(t) /\ u[i] = t[i - Len(s)]
  BY <1>1
<1>3. ASSUME NEW i \in 1..Len(u), i > 1 PROVE u[i-1] < u[i]
  <2>1. i - 1 \in 1..Len(u) BY <1>1, <1>3
  <2>2. CASE i <= Len(s)
    <3>1. i \in 1..Len(s) /\ u[i] = s[i] /\ u[i-1] = s[i-1] BY <1>1, <1>3, <2>1, <2>2
    <3> QED BY <1>3, <3>1 DEF InOrder
  <2>3. CASE i = Len(s) + 1
    <3>1. /\ i - 1 \in 1..Len(s) /\ 1 \in 1..Len(t) /\ u[i] = t[1] /\ u[i-1] = s[i-1]
      BY <1>1, <1>3, <2>1, <2>3
    <3> QED BY <3>1
  <2>4. CASE i > Len(s) + 1
    <3> DEFINE k == i - Len(s)
    <3>1. /\ k \in 1..Len(t) /\ k > 1 /\ (i - 1) - Len(s) = k - 1
          /\ ~(i <= Len(s)) /\ ~(i - 1 <= Len(s))
      BY <1>1, <1>3, <2>4
    <3>2. u[i] = t[k] /\ u[i-1] = t[k-1] BY <1>1, <2>1, <3>1, Zenon
    <3> QED BY <3>1, <3>2 DEF InOrder
  <2> QED BY <1>1, <2>2, <2>3, <2>4
<1>4. \A i \in 1..Len(u) : src[u[i]] = src[c] /\ u[i] >= c
  BY <1>2 DEF InOrder
<1>5. InOrder(c, u) BY <1>3, <1>4 DEF InOrder
<1>6. \A i \in 1..Len(u) : \/ \E j \in 1..Len(s) : u[i] = s[j]
                           \/ \E j \in 1..Len(t) : u[i] = t[j]
  BY <1>2
<1> QED BY <1>1, <1>5, <1>6 DEF u

\* A Conn's queue, the packet being read and the packet last read come from the
\* Conn's own address, in the order of arrival and without duplicates.
THEOREM DemultiplexedHolds == Spec => []Demultiplexed
<1>1. IndInv /\ QueueInv => Demultiplexed
  <2> SUFFICES ASSUME IndInv, QueueInv PROVE Demultiplexed OBVIOUS
  <2>1. rlPc = "push" => src[rlConn] = src[rlPkt] /\ rlConn <= rlPkt
    BY QueueTypes DEF IndInv, ReadLoopInv, QueueInv, DispatchInv
  <2>2. ASSUME NEW c \in ConnIds
        PROVE  InOrder(c, (IF rdLast[c] = 0 THEN <<>> ELSE <<rdLast[c]>>)
                 \o (IF rdPkt[c] = 0 THEN <<>> ELSE <<rdPkt[c]>>) \o queue[c])
    <3> DEFINE l == IF rdLast[c] = 0 THEN <<>> ELSE <<rdLast[c]>>
               r == IF rdPkt[c] = 0 THEN <<>> ELSE <<rdPkt[c]>>
               q == queue[c]
    <3>1. /\ rdLast[c] \in 0..MaxPackets /\ rdPkt[c] \in 0..MaxPackets
          /\ q \in Seq(Packets) /\ Len(q) \in Nat /\ \A i \in 1..Len(q) : q[i] \in Packets
      BY QueueTypes, Zenon
    <3>2. rdPkt[c] # 0 => rdPkt[c] \in Packets /\ Holds(c, rdPkt[c])
      <4>1. rdPkt[c] \in 0..MaxPackets BY <3>1
      <4>2. rdPkt[c] # 0 => rdPkt[c] \in Packets BY <4>1, MaxPacketsNat
      <4>3. rdPkt[c] # 0 => Holds(c, rdPkt[c]) BY Zenon DEF Holds
      <4> QED BY <4>2, <4>3
    <3>3. \A i \in 1..Len(q) : Holds(c, q[i]) BY DEF Holds
    <3>4. \A p \in Packets : Holds(c, p) => src[p] = src[c] /\ p >= c /\ rdLast[c] < p
      BY QueueTypes DEF QueueInv, HeldInv, OrderInv
    <3>5. /\ \A i, j \in 1..Len(q) : i < j => q[i] < q[j]
          /\ \A i \in 1..Len(q) : rdPkt[c] < q[i]
          /\ rdLast[c] # 0 => rdLast[c] >= c /\ src[rdLast[c]] = src[c]
      BY QueueTypes DEF QueueInv, OrderInv
    <3>6. l \in Seq(Packets) /\ (\A i \in 1..Len(l) : l[i] = rdLast[c]) /\ InOrder(c, l)
      <4>1. CASE rdLast[c] = 0 BY <4>1 DEF InOrder
      <4>2. CASE rdLast[c] # 0
        <5>1. rdLast[c] \in Packets BY <3>1, <4>2, MaxPacketsNat
        <5>2. l = <<rdLast[c]>> /\ Len(l) = 1 /\ l[1] = rdLast[c] BY <4>2
        <5> QED BY <3>5, <4>2, <5>1, <5>2 DEF InOrder
      <4> QED BY <4>1, <4>2
    <3>7. r \in Seq(Packets) /\ (\A i \in 1..Len(r) : r[i] = rdPkt[c] /\ r[i] # 0) /\ InOrder(c, r)
      <4>1. CASE rdPkt[c] = 0 BY <4>1 DEF InOrder
      <4>2. CASE rdPkt[c] # 0
        <5>1. r = <<rdPkt[c]>> /\ Len(r) = 1 /\ r[1] = rdPkt[c] BY <4>2
        <5> QED BY <3>2, <3>4, <4>2, <5>1 DEF InOrder
      <4> QED BY <4>1, <4>2
    <3>8. InOrder(c, q)
      <4>1. \A i \in 1..Len(q) : i > 1 => i - 1 \in 1..Len(q) /\ i - 1 < i BY <3>1
      <4> QED BY <3>1, <3>3, <3>4, <3>5, <4>1 DEF InOrder
    <3> HIDE DEF l, r, q
    <3>9. \A i \in 1..Len(l), j \in 1..Len(r) : l[i] < r[j] BY <3>2, <3>4, <3>6, <3>7
    <3>10. /\ l \o r \in Seq(Packets) /\ InOrder(c, l \o r)
           /\ \A i \in 1..Len(l \o r) : (l \o r)[i] \in {rdLast[c], rdPkt[c]}
      <4>1. /\ l \o r \in Seq(Packets) /\ InOrder(c, l \o r)
            /\ \A i \in 1..Len(l \o r) : \/ \E j \in 1..Len(l) : (l \o r)[i] = l[j]
                                         \/ \E j \in 1..Len(r) : (l \o r)[i] = r[j]
        BY <3>6, <3>7, <3>9, InOrderConcat, Zenon
      <4> QED BY <3>6, <3>7, <4>1, Zenon
    <3>11. \A j \in 1..Len(q) : rdLast[c] < q[j] /\ rdPkt[c] < q[j]
      BY <3>1, <3>3, <3>4, <3>5
    <3>12. \A i \in 1..Len(l \o r), j \in 1..Len(q) : (l \o r)[i] < q[j]
      BY <3>10, <3>11, SMTT(30)
    <3>13. InOrder(c, (l \o r) \o q) BY <3>1, <3>8, <3>10, <3>12, InOrderConcat, Zenon
    <3> QED BY <3>13 DEF l, r, q
  <2> QED BY <2>1, <2>2, Zenon DEF Demultiplexed, InOrder
<1> QED BY <1>1, Invariance, QueueInvariance, PTL

\* A buffer in bufPool is in no other hand: not queued, not being copied by a
\* Read and not being dispatched.
THEOREM BuffersExclusive == Spec => []BufferExclusive
<1>1. IndInv /\ QueueInv => BufferExclusive
  <2> SUFFICES ASSUME IndInv, QueueInv PROVE BufferExclusive OBVIOUS
  <2>1. rlPkt \notin pooled BY DEF QueueInv, HeldInv
  <2>2. \A c \in ConnIds, p \in Packets : Holds(c, p) => p \notin pooled
    BY DEF QueueInv, HeldInv
  <2>3. ASSUME NEW c \in ConnIds PROVE rdPkt[c] \notin pooled
    BY <2>2, QueueTypes DEF Holds
  <2>4. ASSUME NEW c \in ConnIds PROVE QueuedIn(c) \cap pooled = {}
    BY <2>2, QueueTypes DEF Holds, QueuedIn
  <2> QED BY <2>1, <2>3, <2>4 DEF BufferExclusive
<1> QED BY <1>1, Invariance, QueueInvariance, PTL
=============================================================================
