--------------------------- MODULE SuperConnProofs ---------------------------
(****************************************************************************)
(* TLAPS proofs about SuperConn, for any addresses, callers of Accept,      *)
(* backlogs, queue capacity and number of packets, with and without Accept  *)
(* overlapping supConn.Close, read errors and deadlines.  IndInv            *)
(* (SuperConnInv) is shown to be inductive, one lemma per part of it; the   *)
(* theorems at the end follow from it.                                      *)
(****************************************************************************)
EXTENDS SuperConnTypeProofs

USE DEF chanVars, wgVars, errVars, netVars, rlVars, lcVars, accVars, ccVars,
        connVars, rdVars, ioVars, Packets, ConnIds, Live, Held, Closing

\* Only these actions change what ReadLoopInv and TableInv are about.
LEMMA TableInvFrame ==
  ASSUME [Next]_vars
  PROVE  \/ UNCHANGED <<conns, rlVars, src, st>>
         \/ ReadPacket \/ ReadFailsOpen \/ ReadFailsClosed \/ ReadLoopCloseReadDone \/
            ReadLoopWGDone \/ Lookup \/ SendAccept \/ SendExceeded \/ Insert \/ Push \/
            CloseDrain
         \/ \E a \in Acceptors : Accept(a) \/ AcceptAdd(a)
         \/ \E c \in ConnIds : ConnClose(c) \/ ConnCloseDoneCh(c) \/ ConnDelete(c) \/
            ConnCheckFinal(c) \/ ConnWait(c) \/ ConnQueueClose(c)
BY ZenonT(60) DEF Next, vars, ReadLoopStep, CloserStep, CloseStep, Environment,
   ConnCloseStep, ReadStep, CloserWait, CloserWoken, CloserClosing, CloserClosed,
   CloserDone, ReadWGDone, CloseBegin, CloseAt, CloseDoneCh, WakeParked, CloseLock,
   CloseDrained, CloseWGDone, ConnWGDone, IsFinal, CloseWait, AcceptTimeout, Returned,
   AcceptAt, Read, ReadAt, ReadPop, Popped, ReadClosed, ReadFailed, ReadTimeout,
   ReadRelease, Write, WritePacket

\* The read loop's part of the invariant.
LEMMA ReadLoopInvStep ==
  ASSUME IndInv, [Next]_vars PROVE ReadLoopInv'
<1>1. /\ ReadLoopInv /\ Len(src) \in Nat /\ rlPkt \in 0..MaxPackets
      /\ src \in Seq(Addrs)
  BY LenProperties DEF IndInv, TypeOK, RunTypeOK
<1>2. st \in [ConnIds -> Live \cup Held \cup {"free", "drained"}]
  BY DEF IndInv, TypeOK, ConnTypeOK
<1> USE <1>1, <1>2, MaxPacketsNat DEF ReadLoopInv
<1>3. CASE ReadPacket
  <2>1. Len(src') = Len(src) + 1 BY <1>3, AppendProperties DEF ReadPacket
  <2> QED BY <1>3, <2>1 DEF ReadPacket, ReadLoopAt
<1>4. CASE Lookup
  <2> DEFINE d == conns[src[rlPkt]]
  <2>1. src[rlPkt] \in Addrs BY <1>4, ElementOfSeq DEF Lookup
  <2>2. d # 0 => d \in 1..Len(src) BY <2>1, Routed, LiveConn
  <2> QED BY <1>4, <2>2 DEF Lookup, ReadLoopAt, DropPacket
<1>5. CASE SendAccept
  BY <1>5, NewConn DEF SendAccept, ReadLoopAt
<1>6. CASE Insert
  BY <1>6 DEF Insert, ReadLoopAt
<1>7. CASE \/ ReadFailsOpen \/ ReadFailsClosed \/ ReadLoopCloseReadDone
           \/ ReadLoopWGDone \/ SendExceeded \/ Push
  BY <1>7 DEF ReadFailsOpen, ReadFailsClosed, ReadFails, ReadLoopCloseReadDone,
     ReadLoopWGDone, SendExceeded, DropPacket, Push, ReadLoopAt
<1>8. CASE CloseDrain
  BY <1>8, AcceptHead DEF CloseDrain
<1>9. ASSUME NEW a \in Acceptors, Accept(a) PROVE ReadLoopInv'
  BY <1>9, AcceptHead DEF Accept
<1>10. ASSUME NEW a \in Acceptors, AcceptAdd(a) PROVE ReadLoopInv'
  BY <1>10, AcceptTaken, Zenon DEF AcceptAdd
<1>11. ASSUME NEW c \in ConnIds, ConnClose(c) \/ ConnCloseDoneCh(c) \/ ConnDelete(c)
       PROVE  ReadLoopInv'
  BY <1>11 DEF ConnClose, ConnCloseDoneCh, ConnDelete
<1>12. ASSUME NEW c \in ConnIds, ConnCheckFinal(c) \/ ConnWait(c) \/ ConnQueueClose(c)
       PROVE  ReadLoopInv'
  BY <1>12 DEF ConnCheckFinal, ConnWait, ConnQueueClose
<1>13. CASE UNCHANGED <<conns, rlVars, src, st>>
  BY <1>13
<1> QED BY <1>3, <1>4, <1>5, <1>6, <1>7, <1>8, <1>9, <1>10, <1>11, <1>12, <1>13, TableInvFrame

\* Only these actions change what LockInv is about.
LEMMA LockInvFrame ==
  ASSUME [Next]_vars
  PROVE  \/ UNCHANGED <<connLock, rlVars, lcVars, accepting>>
         \/ ReadPacket \/ ReadFailsOpen \/ ReadFailsClosed \/ ReadLoopCloseReadDone \/
            ReadLoopWGDone \/ Lookup \/ SendAccept \/ SendExceeded \/ Insert \/ Push \/
            CloseBegin \/ CloseDoneCh \/ CloseLock \/ CloseDrained \/ CloseWGDone \/
            CloseWait
BY ZenonT(60) DEF Next, vars, ReadLoopStep, CloserStep, CloseStep, Environment,
   ConnCloseStep, ReadStep, CloserWait, CloserWoken, CloserClosing, CloserClosed,
   CloserDone, ReadWGDone, CloseDrain, CloseConnDoneCh, Deleted, Accept, Returned,
   AcceptAt, AcceptTimeout, AcceptAdd, ConnWGAdd, ConnClose, ConnWGDone,
   ConnCloseDoneCh, ConnDelete, ConnCheckFinal, ConnWait, ConnQueueClose, Read, ReadAt,
   ReadPop, Popped, ReadClosed, ReadFailed, ReadTimeout, ReadRelease, Write,
   WritePacket

\* The lock's part of the invariant.
LEMMA LockInvStep ==
  ASSUME IndInv, [Next]_vars PROVE LockInv'
<1>1. LockInv /\ accepting \in BOOLEAN BY DEF IndInv, TypeOK, SuperTypeOK
<1> USE <1>1 DEF LockInv
<1>2. CASE ReadPacket \/ Push
  BY <1>2 DEF ReadPacket, Push, ReadLoopAt
<1>3. CASE ReadFailsOpen \/ ReadFailsClosed \/ ReadLoopCloseReadDone \/ ReadLoopWGDone
  BY <1>3 DEF ReadFailsOpen, ReadFailsClosed, ReadFails, ReadLoopCloseReadDone,
     ReadLoopWGDone, ReadLoopAt
<1>4. CASE Lookup
  BY <1>4 DEF Lookup, DropPacket, MayCreate, ReadLoopAt
<1>5. CASE SendAccept \/ SendExceeded \/ Insert
  BY <1>5 DEF SendAccept, SendExceeded, Insert, DropPacket, ReadLoopAt
<1>6. CASE CloseBegin \/ CloseDoneCh
  BY <1>6 DEF CloseBegin, CloseDoneCh, CloseAt
<1>7. CASE CloseLock \/ CloseDrained
  BY <1>7 DEF CloseLock, CloseDrained, CloseAt
<1>8. CASE CloseWGDone \/ CloseWait
  BY <1>8 DEF CloseWGDone, CloseWait, CloseAt
<1>9. CASE UNCHANGED <<connLock, rlVars, lcVars, accepting>>
  BY <1>9
<1> QED BY <1>2, <1>3, <1>4, <1>5, <1>6, <1>7, <1>8, <1>9, LockInvFrame

\* delete(conns, rAddr) by the Close of a live Conn, or of supConn for an unaccepted
\* one, keeps the table exact: the entry removed is the Conn's own.
LEMMA TableRemove ==
  ASSUME IndInv, NEW c \in ConnIds, st[c] \in Live, rlPc \notin {"send", "insert"},
         NEW x, x \notin Live, st' = [st EXCEPT ![c] = x], conns' = Deleted(c),
         UNCHANGED <<src, rlVars>>
  PROVE  TableInv'
<1> USE DEF TableInv, RoutingTableExact
<1>1. src[c] \in Addrs BY LiveConn
<1>2. conns[src[c]] = c BY DEF IndInv
<1>3. \A a \in Addrs : conns'[a] = IF a = src[c] THEN 0 ELSE conns[a]
  BY DEF IndInv, TypeOK, SuperTypeOK, Deleted
<1>4. \A d \in ConnIds : st'[d] = IF d = c THEN x ELSE st[d]
  BY DEF IndInv, TypeOK, ConnTypeOK
<1>5. ASSUME NEW a \in Addrs, conns'[a] # 0
      PROVE  src'[conns'[a]] = a /\ st'[conns'[a]] \in Live
  BY <1>2, <1>3, <1>4, <1>5, Routed
<1>6. ASSUME NEW d \in ConnIds, st'[d] \in Live PROVE conns'[src'[d]] = d
  <2>1. d # c /\ st[d] \in Live BY <1>4, <1>6
  <2>2. src[d] \in Addrs /\ conns[src[d]] = d BY <2>1, LiveConn DEF IndInv
  <2> QED BY <2>1, <2>2, <1>2, <1>3
<1> QED BY <1>5, <1>6

\* Steps of the life cycle inside or outside Live leave the table exact.
LEMMA TableKeep ==
  ASSUME IndInv, UNCHANGED <<conns, src, rlVars>>,
         \A d \in ConnIds : st'[d] \in Live <=> st[d] \in Live
  PROVE  TableInv'
<1> USE DEF TableInv, RoutingTableExact
<1>1. ASSUME NEW a \in Addrs, conns'[a] # 0
      PROVE  src'[conns'[a]] = a /\ st'[conns'[a]] \in Live
  BY <1>1, Routed
<1>2. rlPc = "insert" => rlConn \in ConnIds
  BY MaxPacketsNat DEF IndInv, TypeOK, RunTypeOK, ReadLoopInv
<1> QED BY <1>1, <1>2 DEF IndInv

\* The routing table's part of the invariant.
LEMMA TableInvStep ==
  ASSUME IndInv, [Next]_vars PROVE TableInv'
<1>1. CASE ReadPacket
  <2>1. PICK a \in Addrs : src' = Append(src, a) BY <1>1 DEF ReadPacket
  <2>2. \A i \in 1..Len(src) : src'[i] = src[i]
    BY <2>1, AppendProperties DEF IndInv, TypeOK, RunTypeOK
  <2>3. \A c \in ConnIds : st[c] \in Live => src'[c] = src[c] BY <2>2, LiveConn
  <2>4. \A b \in Addrs : conns[b] # 0 => src'[conns[b]] = b /\ st[conns[b]] \in Live
    BY <2>3, Routed
  <2>5. \A c \in ConnIds : st[c] \in Live => conns[src[c]] = c
    BY <1>1 DEF IndInv, TableInv, RoutingTableExact, ReadPacket
  <2>6. UNCHANGED <<conns, st>> /\ rlPc' = "lookup" BY <1>1 DEF ReadPacket, ReadLoopAt
  <2> QED BY <2>3, <2>4, <2>5, <2>6 DEF TableInv, RoutingTableExact
<1>2. CASE Insert
  <2>1. rlConn \in ConnIds /\ st[rlConn] \in Live /\ conns[src[rlConn]] = 0
    BY <1>2, MaxPacketsNat DEF IndInv, TypeOK, RunTypeOK, ReadLoopInv, TableInv, Insert
  <2>2. src[rlConn] \in Addrs BY <2>1, LiveConn
  <2>3. \A a \in Addrs : conns'[a] = IF a = src[rlConn] THEN rlConn ELSE conns[a]
    BY <1>2 DEF IndInv, TypeOK, SuperTypeOK, Insert
  <2>4. UNCHANGED <<src, st>> /\ rlPc' = "push" BY <1>2 DEF Insert, ReadLoopAt
  <2>5. \A a \in Addrs : conns'[a] # 0 => src[conns'[a]] = a /\ st[conns'[a]] \in Live
    BY <2>1, <2>3, Routed
  <2>6. ASSUME NEW d \in ConnIds, st[d] \in Live PROVE conns'[src[d]] = d
    <3>1. src[d] \in Addrs /\ (conns[src[d]] = d \/ d = rlConn) /\ d # 0
      BY <2>6, LiveConn DEF IndInv, TableInv, RoutingTableExact
    <3> QED BY <2>1, <2>3, <3>1
  <2> QED BY <2>4, <2>5, <2>6 DEF TableInv, RoutingTableExact
<1>3. CASE CloseDrain
  <2>1. rlPc \notin {"send", "insert"} BY <1>3 DEF IndInv, LockInv, CloseDrain
  <2>2. UNCHANGED <<src, rlVars>> BY <1>3 DEF CloseDrain
  <2> QED BY <1>3, <2>1, <2>2, AcceptHead, TableRemove, Zenon DEF CloseDrain
<1>4. ASSUME NEW c \in ConnIds, ConnDelete(c) PROVE TableInv'
  <2>1. rlPc \notin {"send", "insert"} BY <1>4 DEF IndInv, LockInv, ConnDelete
  <2>2. UNCHANGED <<src, rlVars>> BY <1>4 DEF ConnDelete
  <2> QED BY <1>4, <2>1, <2>2, TableRemove, ZenonT(30) DEF ConnDelete
<1>5. ASSUME NEW a \in Acceptors, Accept(a) PROVE TableInv'
  <2>1. \A d \in ConnIds : st'[d] \in Live <=> st[d] \in Live
    BY <1>5, AcceptHead, Zenon DEF Accept, IndInv, TypeOK, ConnTypeOK
  <2> QED BY <1>5, <2>1, TableKeep DEF Accept
<1>6. ASSUME NEW a \in Acceptors, AcceptAdd(a) PROVE TableInv'
  <2>1. \A d \in ConnIds : st'[d] \in Live <=> st[d] \in Live
    BY <1>6, AcceptTaken, Zenon DEF AcceptAdd, IndInv, TypeOK, ConnTypeOK
  <2> QED BY <1>6, <2>1, TableKeep DEF AcceptAdd
<1>7. ASSUME NEW c \in ConnIds,
             \/ ConnClose(c) \/ ConnCloseDoneCh(c) \/ ConnCheckFinal(c)
             \/ ConnWait(c) \/ ConnQueueClose(c)
      PROVE  TableInv'
  <2>1. \A d \in ConnIds : st'[d] \in Live <=> st[d] \in Live
    BY <1>7, ZenonT(30) DEF ConnClose, ConnCloseDoneCh, ConnCheckFinal, ConnWait, ConnQueueClose,
       IndInv, TypeOK, ConnTypeOK
  <2>2. UNCHANGED <<conns, src, rlVars>>
    BY <1>7 DEF ConnClose, ConnCloseDoneCh, ConnCheckFinal, ConnWait, ConnQueueClose
  <2> QED BY <2>1, <2>2, TableKeep
<1>8. CASE \/ ReadFailsOpen \/ ReadFailsClosed \/ ReadLoopCloseReadDone
           \/ ReadLoopWGDone \/ SendExceeded \/ Push
  <2>1. /\ UNCHANGED <<conns, src, st>>
        /\ rlPc # "insert" /\ rlPc' \notin {"send", "insert"}
    BY <1>8, SMTT(20) DEF ReadFailsOpen, ReadFailsClosed, ReadFails, ReadLoopCloseReadDone,
       ReadLoopWGDone, SendExceeded, DropPacket, Push, ReadLoopAt
  <2> QED BY <2>1 DEF IndInv, TableInv, RoutingTableExact
<1>9. CASE Lookup
  <2>1. /\ UNCHANGED <<conns, src, st>> /\ rlPc = "lookup" /\ rlPc' # "insert"
        /\ rlPc' = "send" => conns[src[rlPkt]] = 0 /\ rlPkt' = rlPkt
    BY <1>9, Zenon DEF Lookup, DropPacket, ReadLoopAt
  <2> QED BY <2>1 DEF IndInv, TableInv, RoutingTableExact
<1>10. CASE SendAccept
  <2>1. /\ rlPkt \in ConnIds /\ st[rlPkt] = "free" /\ st'[rlPkt] \in Live
        /\ \A c \in ConnIds : c # rlPkt => st'[c] = st[c]
    BY <1>10, NewConn, ZenonT(30) DEF SendAccept, IndInv, TypeOK, ConnTypeOK
  <2>2. /\ UNCHANGED <<conns, src>> /\ rlPc = "send" /\ conns[src[rlPkt]] = 0
        /\ rlPc' = "insert" /\ rlPkt' = rlPkt /\ rlConn' = rlPkt
    BY <1>10, Zenon DEF SendAccept, ReadLoopAt, IndInv, TableInv
  <2>3. \A a \in Addrs : conns[a] # 0 =>
          conns[a] \in ConnIds /\ conns[a] # rlPkt /\ src[conns[a]] = a /\ st[conns[a]] \in Live
    BY <2>1, Routed
  <2>4. \A a \in Addrs : conns'[a] # 0 => src'[conns'[a]] = a /\ st'[conns'[a]] \in Live
    BY <2>1, <2>2, <2>3, Zenon
  <2>5. ASSUME NEW c \in ConnIds, st'[c] \in Live
        PROVE  \/ conns'[src'[c]] = c
               \/ rlPc' = "insert" /\ rlConn' = c /\ conns'[src'[c]] = 0
    <3>1. CASE c = rlPkt BY <2>2, <3>1, Zenon
    <3>2. CASE c # rlPkt
      <4>1. st[c] \in Live BY <2>1, <2>5, <3>2, Zenon
      <4>2. conns[src[c]] = c \/ rlPc = "insert"
        BY <4>1, Zenon DEF IndInv, TableInv, RoutingTableExact
      <4> QED BY <2>2, <4>2
    <3> QED BY <3>1, <3>2, Zenon
  <2>6. conns'[src'[rlPkt']] = 0 /\ st'[rlConn'] \in Live BY <2>1, <2>2, Zenon
  <2> QED BY <2>4, <2>5, <2>6, Zenon DEF TableInv, RoutingTableExact
<1>11. CASE UNCHANGED <<conns, rlVars, src, st>>
  BY <1>11 DEF IndInv, TableInv, RoutingTableExact
<1> QED BY <1>1, <1>2, <1>3, <1>4, <1>5, <1>6, <1>7, <1>8, <1>9, <1>10, <1>11, TableInvFrame

\* Only these actions change what AcceptInv is about.
LEMMA AcceptInvFrame ==
  ASSUME [Next]_vars
  PROVE  \/ UNCHANGED <<acceptCh, st, accVars, lcVars>>
         \/ ReadLoopCloseReadDone \/ SendAccept \/ CloseBegin \/ CloseDoneCh \/
            CloseLock \/ CloseDrain \/ CloseDrained \/ CloseWGDone \/ CloseWait
         \/ \E a \in Acceptors : Accept(a) \/ AcceptTimeout(a) \/ AcceptAdd(a)
         \/ \E c \in ConnIds : ConnClose(c) \/ ConnCloseDoneCh(c) \/ ConnDelete(c) \/
            ConnCheckFinal(c) \/ ConnWait(c) \/ ConnQueueClose(c)
BY ZenonT(60) DEF Next, vars, ReadLoopStep, CloserStep, CloseStep, Environment,
   ConnCloseStep, ReadStep, ReadPacket, ReadLoopAt, ReadFailsOpen, ReadFails,
   ReadFailsClosed, ReadLoopWGDone, ReadWGDone, Lookup, DropPacket, MayCreate,
   SendExceeded, Insert, Push, Pushed, CloserWait, CloserWoken, CloserClosing,
   CloserClosed, CloserDone, Read, ReadAt, ReadPop, Popped, ReadClosed, ReadFailed,
   ReadTimeout, ReadRelease, Write, WritePacket

\* A receive from acceptCh leaves the other pending Conns, each once.
LEMMA Channel ==
  ASSUME IndInv, acceptCh # <<>>, NEW x, x # "pending", acceptCh' = Tail(acceptCh),
         st' = [st EXCEPT ![Head(acceptCh)] = x]
  PROVE  /\ \A i \in 1..Len(acceptCh') : st'[acceptCh'[i]] = "pending"
         /\ \A i, j \in 1..Len(acceptCh') : acceptCh'[i] = acceptCh'[j] => i = j
         /\ \A c \in ConnIds : st'[c] = "pending" =>
              \E i \in 1..Len(acceptCh') : acceptCh'[i] = c
<1> DEFINE h == Head(acceptCh)  q == Tail(acceptCh)
<1>1. /\ h \in ConnIds /\ h = acceptCh[1] /\ Len(acceptCh) \in Nat /\ Len(acceptCh) > 0
      /\ Len(q) = Len(acceptCh) - 1 /\ \A i \in 1..Len(q) : q[i] = acceptCh[i+1]
  <2>1. acceptCh \in Seq(ConnIds) BY DEF IndInv, TypeOK, SuperTypeOK
  <2> QED BY <2>1, Dequeue, Zenon
<1>2. \A i \in 1..Len(q) : i + 1 \in 1..Len(acceptCh) /\ i + 1 # 1 BY <1>1
<1>3. \A i \in 1..Len(q) : q[i] # h BY <1>1, <1>2 DEF IndInv, AcceptInv
<1>4. \A c \in ConnIds : st'[c] = IF c = h THEN x ELSE st[c]
  BY DEF IndInv, TypeOK, ConnTypeOK
<1>5. \A i \in 1..Len(q) : q[i] \in ConnIds /\ st[q[i]] = "pending"
  <2>1. acceptCh \in Seq(ConnIds) BY DEF IndInv, TypeOK, SuperTypeOK
  <2>2. \A i \in 1..Len(acceptCh) : acceptCh[i] \in ConnIds BY <2>1, ElementOfSeq, ZenonT(30)
  <2> QED BY <1>1, <1>2, <2>2 DEF IndInv, AcceptInv
<1>6. \A i, j \in 1..Len(q) : q[i] = q[j] => i = j
  BY <1>1, <1>2 DEF IndInv, AcceptInv
<1>7. ASSUME NEW c \in ConnIds, st'[c] = "pending" PROVE \E i \in 1..Len(q) : q[i] = c
  <2>1. PICK k \in 1..Len(acceptCh) : acceptCh[k] = c BY <1>4, <1>7 DEF IndInv, AcceptInv
  <2>2. k # 1 BY <1>1, <1>4, <1>7, <2>1
  <2>3. k - 1 \in 1..Len(q) /\ q[k-1] = acceptCh[k] BY <1>1, <2>2
  <2> QED BY <2>1, <2>3
<1> QED BY <1>3, <1>4, <1>5, <1>6, <1>7

\* Steps that neither receive from acceptCh nor take a Conn from it.
LEMMA AcceptKeep ==
  ASSUME IndInv, UNCHANGED acceptCh,
         \A c \in ConnIds : /\ st'[c] = "pending" <=> st[c] = "pending"
                            /\ st[c] = "taken" => st'[c] = "taken" \/
                                 \E a \in Acceptors : accPc[a] = "add" /\ accConn[a] = c /\ accPc'[a] # "add",
         \A a \in Acceptors : accPc'[a] = "add" => accPc[a] = "add" /\ accConn'[a] = accConn[a],
         lcPc' \in {"wgDone", "wait", "returned"} => acceptCh = <<>>
  PROVE  AcceptInv'
<1>1. \A i \in 1..Len(acceptCh) : acceptCh[i] \in ConnIds
  BY ElementOfSeq, ZenonT(30) DEF IndInv, TypeOK, SuperTypeOK
<1>2. \A i \in 1..Len(acceptCh') : st'[acceptCh'[i]] = "pending"
  BY <1>1 DEF IndInv, AcceptInv
<1>3. \A c \in ConnIds : st'[c] = "pending" => \E i \in 1..Len(acceptCh') : acceptCh'[i] = c
  BY DEF IndInv, AcceptInv
<1>4. \A a \in Acceptors : accPc'[a] = "add" =>
        /\ accConn'[a] \in ConnIds /\ st'[accConn'[a]] = "taken"
        /\ \A b \in Acceptors : accPc'[b] = "add" /\ accConn'[b] = accConn'[a] => a = b
  BY DEF IndInv, AcceptInv
<1> QED BY <1>2, <1>3, <1>4 DEF IndInv, AcceptInv

\* The accept channel's part of the invariant.
LEMMA AcceptInvStep ==
  ASSUME IndInv, [Next]_vars PROVE AcceptInv'
<1>1. CASE SendAccept
  <2> rlPkt \in ConnIds /\ st[rlPkt] = "free" BY <1>1, NewConn
  <2> USE DEF IndInv
  <2>1. \A c \in ConnIds : st[c] = "pending" \/ st[c] = "taken" => c # rlPkt OBVIOUS
  <2>2. \A c \in ConnIds : c # rlPkt => st'[c] = st[c] BY <1>1, Zenon DEF SendAccept, TypeOK, ConnTypeOK
  <2>3. acceptCh \in Seq(ConnIds) /\ \A i \in 1..Len(acceptCh) : acceptCh[i] \in ConnIds
    BY ElementOfSeq, ZenonT(30) DEF TypeOK, SuperTypeOK
  <2>4. lcPc' \notin {"wgDone", "wait", "returned"} BY <1>1 DEF SendAccept, LockInv
  <2>5. ASSUME NEW a \in Parked, AcceptAt(a, "add", rlPkt),
               st' = [st EXCEPT ![rlPkt] = "taken"], UNCHANGED acceptCh
        PROVE  AcceptInv'
    BY <2>1, <2>2, <2>3, <2>4, <2>5, SMTT(30) DEF AcceptInv, AcceptAt, Parked, TypeOK, ConnTypeOK, CallTypeOK
  <2>6. CASE /\ acceptCh' = Append(acceptCh, rlPkt)
             /\ st' = [st EXCEPT ![rlPkt] = "pending"] /\ UNCHANGED accVars
    <3>1. /\ Len(acceptCh) \in Nat /\ Len(acceptCh') = Len(acceptCh) + 1
          /\ acceptCh'[Len(acceptCh')] = rlPkt
          /\ \A i \in 1..Len(acceptCh) : acceptCh'[i] = acceptCh[i]
      BY <2>3, <2>6, AppendProperties, LenProperties
    <3>2. \A i \in 1..Len(acceptCh') : i # Len(acceptCh') => i \in 1..Len(acceptCh)
      BY <3>1
    <3>3. \A i \in 1..Len(acceptCh) : i \in 1..Len(acceptCh') BY <3>1
    <3>4. Len(acceptCh') \in 1..Len(acceptCh') BY <3>1
    <3>5. st'[rlPkt] = "pending" BY <2>6 DEF TypeOK, ConnTypeOK
    <3>6. \A i \in 1..Len(acceptCh) : st[acceptCh[i]] = "pending" /\ acceptCh[i] # rlPkt
      BY <2>1, <2>3 DEF AcceptInv
    <3>7. \A i \in 1..Len(acceptCh') : st'[acceptCh'[i]] = "pending"
      BY <2>2, <2>3, <3>1, <3>2, <3>5, <3>6
    <3>8. \A i, j \in 1..Len(acceptCh') : acceptCh'[i] = acceptCh'[j] => i = j
      BY <3>1, <3>2, <3>6 DEF AcceptInv
    <3>9. \A c \in ConnIds : st'[c] = "pending" => \E i \in 1..Len(acceptCh') : acceptCh'[i] = c
      BY <2>2, <3>1, <3>3, <3>4 DEF AcceptInv
    <3>10. \A a \in Acceptors : accPc'[a] = "add" =>
             /\ accConn'[a] \in ConnIds /\ st'[accConn'[a]] = "taken"
             /\ \A b \in Acceptors : accPc'[b] = "add" /\ accConn'[b] = accConn'[a] => a = b
      BY <2>1, <2>2, <2>6 DEF AcceptInv
    <3> QED BY <2>4, <3>7, <3>8, <3>9, <3>10 DEF AcceptInv
  <2> QED BY <1>1, <2>5, <2>6 DEF SendAccept
<1>2. CASE CloseDrain
  <2>1. \A a \in Acceptors : accPc'[a] = "add" =>
             /\ accConn'[a] \in ConnIds /\ st'[accConn'[a]] = "taken"
             /\ \A b \in Acceptors : accPc'[b] = "add" /\ accConn'[b] = accConn'[a] => a = b
    BY <1>2, AcceptHead DEF CloseDrain, IndInv, AcceptInv, TypeOK, ConnTypeOK
  <2>2. lcPc' \notin {"wgDone", "wait", "returned"} BY <1>2 DEF CloseDrain
  <2> QED BY <1>2, <2>1, <2>2, Channel, Zenon DEF CloseDrain, AcceptInv
<1>3. ASSUME NEW a \in Acceptors, Accept(a) PROVE AcceptInv'
  <2>1. CASE /\ acceptCh # <<>> /\ acceptCh' = Tail(acceptCh)
             /\ st' = [st EXCEPT ![Head(acceptCh)] = "taken"]
             /\ AcceptAt(a, "add", Head(acceptCh))
    <3>1. \A b \in Acceptors : accPc'[b] = "add" =>
             /\ accConn'[b] \in ConnIds /\ st'[accConn'[b]] = "taken"
             /\ \A d \in Acceptors : accPc'[d] = "add" /\ accConn'[d] = accConn'[b] => b = d
      BY <2>1, AcceptHead, SMTT(20) DEF AcceptAt, IndInv, AcceptInv, TypeOK, ConnTypeOK, CallTypeOK
    <3>2. lcPc' \notin {"wgDone", "wait", "returned"}
      BY <1>3, <2>1, ZenonT(30) DEF Accept, IndInv, AcceptInv
    <3> QED BY <2>1, <3>1, <3>2, Channel, Zenon DEF AcceptInv
  <2>2. ASSUME UNCHANGED <<acceptCh, st>>, NEW p \in {"idle", "parked"},
               AcceptAt(a, p, 0)
        PROVE  AcceptInv'
    BY <1>3, <2>2, SMTT(20) DEF Accept, AcceptAt, IndInv, AcceptInv, TypeOK, CallTypeOK
  <2> QED BY <1>3, <2>1, <2>2 DEF Accept, Returned
<1>4. CASE ReadLoopCloseReadDone \/ CloseDoneCh
  <2>1. /\ UNCHANGED <<acceptCh, st, accConn>>
        /\ lcPc' \in {"wgDone", "wait", "returned"} => lcPc' = lcPc
        /\ \A a \in Acceptors : accPc'[a] = "add" => accPc[a] = "add"
    BY <1>4, ZenonT(30) DEF ReadLoopCloseReadDone, CloseDoneCh, WakeParked, CloseAt
  <2> QED BY <2>1, AcceptKeep, ZenonT(30) DEF IndInv, AcceptInv
<1>5. CASE CloseBegin \/ CloseLock \/ CloseDrained \/ CloseWGDone \/ CloseWait
  <2>1. /\ UNCHANGED <<acceptCh, st, accPc, accConn>>
        /\ lcPc' \in {"wgDone", "wait", "returned"} =>
             acceptCh = <<>> \/ lcPc \in {"wgDone", "wait", "returned"}
    BY <1>5, SMTT(20) DEF CloseBegin, CloseLock, CloseDrained, CloseWGDone, CloseWait, CloseAt
  <2> QED BY <2>1, AcceptKeep, ZenonT(30) DEF IndInv, AcceptInv
<1>6. ASSUME NEW a \in Acceptors, AcceptTimeout(a) PROVE AcceptInv'
  <2>1. /\ UNCHANGED <<acceptCh, st, lcPc>>
        /\ \A b \in Acceptors : accPc'[b] = "add" => accPc[b] = "add" /\ accConn'[b] = accConn[b]
    BY <1>6, SMTT(20) DEF AcceptTimeout, Returned, AcceptAt, IndInv, TypeOK, CallTypeOK
  <2> QED BY <2>1, AcceptKeep, ZenonT(30) DEF IndInv, AcceptInv
<1>7. ASSUME NEW a \in Acceptors, AcceptAdd(a) PROVE AcceptInv'
  <2>1. /\ UNCHANGED <<acceptCh, lcPc>> /\ accPc'[a] # "add"
        /\ \A b \in Acceptors : accPc'[b] = "add" => accPc[b] = "add" /\ accConn'[b] = accConn[b]
    BY <1>7 DEF AcceptAdd, Returned, AcceptAt, IndInv, TypeOK, CallTypeOK
  <2>2. \A c \in ConnIds : st'[c] = IF c = accConn[a] THEN "open" ELSE st[c]
    BY <1>7, Zenon DEF AcceptAdd, IndInv, TypeOK, ConnTypeOK
  <2>3. accConn[a] \in ConnIds /\ st[accConn[a]] = "taken" /\ accPc[a] = "add"
    BY <1>7, AcceptTaken, ZenonT(30) DEF AcceptAdd
  <2> QED BY <2>1, <2>2, <2>3, AcceptKeep, ZenonT(30) DEF IndInv, AcceptInv
<1>8. ASSUME NEW c \in ConnIds,
             \/ ConnClose(c) \/ ConnCloseDoneCh(c) \/ ConnDelete(c)
             \/ ConnCheckFinal(c) \/ ConnWait(c) \/ ConnQueueClose(c)
      PROVE  AcceptInv'
  <2>1. UNCHANGED <<acceptCh, accPc, accConn, lcPc>>
    BY <1>8, ZenonT(30) DEF ConnClose, ConnCloseDoneCh, ConnDelete, ConnCheckFinal, ConnWait,
       ConnQueueClose
  <2>2. \A d \in ConnIds : /\ st'[d] = "pending" <=> st[d] = "pending"
                           /\ st[d] = "taken" => st'[d] = "taken"
    BY <1>8, ZenonT(30) DEF ConnClose, ConnCloseDoneCh, ConnDelete, ConnCheckFinal, ConnWait,
       ConnQueueClose, IndInv, TypeOK, ConnTypeOK
  <2> QED BY <2>1, <2>2, AcceptKeep, Zenon DEF IndInv, AcceptInv
<1>9. CASE UNCHANGED <<acceptCh, st, accVars, lcVars>>
  BY <1>9, AcceptKeep, SMTT(20) DEF IndInv, AcceptInv
<1> QED BY <1>1, <1>2, <1>3, <1>4, <1>5, <1>6, <1>7, <1>8, <1>9, AcceptInvFrame, SMTT(20)

\* Only these actions change what DoneInv is about.
LEMMA DoneInvFrame ==
  ASSUME [Next]_vars
  PROVE  \/ UNCHANGED <<cDone, qClosed, st>>
         \/ SendAccept \/ CloseDrain
         \/ \E a \in Acceptors : Accept(a) \/ AcceptAdd(a)
         \/ \E c \in ConnIds : ConnClose(c) \/ ConnCloseDoneCh(c) \/ ConnDelete(c) \/
            ConnCheckFinal(c) \/ ConnWait(c) \/ ConnQueueClose(c)
BY ZenonT(60) DEF Next, vars, ReadLoopStep, CloserStep, CloseStep, Environment,
   ConnCloseStep, ReadStep, ReadPacket, ReadLoopAt, ReadFailsOpen, ReadFails,
   ReadFailsClosed, ReadLoopCloseReadDone, WakeParked, ReadLoopWGDone, ReadWGDone,
   Lookup, DropPacket, MayCreate, SendExceeded, Insert, Push, Pushed, CloserWait,
   CloserWoken, CloserClosing, CloserClosed, CloserDone, CloseBegin, CloseAt,
   CloseDoneCh, CloseLock, CloseDrained, CloseWGDone, ConnWGDone, IsFinal, CloseWait,
   AcceptTimeout, Returned, AcceptAt, Read, ReadAt, ReadPop, Popped, ReadClosed,
   ReadFailed, ReadTimeout, ReadRelease, Write, WritePacket

\* The part of the invariant about doneCh and the queues.
LEMMA DoneInvStep ==
  ASSUME IndInv, [Next]_vars PROVE DoneInv'
<1>1. DoneInv /\ ConnTypeOK BY DEF IndInv, TypeOK
<1> USE <1>1 DEF DoneInv, ConnTypeOK
<1>2. CASE SendAccept BY <1>2, NewConn, Zenon DEF SendAccept
<1>3. CASE CloseDrain BY <1>3, AcceptHead DEF CloseDrain, CloseConnDoneCh
<1>4. ASSUME NEW a \in Acceptors, Accept(a) PROVE DoneInv'
  BY <1>4, AcceptHead, Zenon DEF Accept
<1>5. ASSUME NEW a \in Acceptors, AcceptAdd(a) PROVE DoneInv'
  BY <1>5, AcceptTaken, Zenon DEF AcceptAdd
<1>6. ASSUME NEW c \in ConnIds, ConnCloseDoneCh(c) PROVE DoneInv'
  BY <1>6 DEF ConnCloseDoneCh, CloseConnDoneCh
<1>7. ASSUME NEW c \in ConnIds, ConnClose(c) \/ ConnDelete(c) PROVE DoneInv'
  BY <1>7, ZenonT(30) DEF ConnClose, ConnDelete
<1>8. ASSUME NEW c \in ConnIds, ConnCheckFinal(c) \/ ConnWait(c) PROVE DoneInv'
  BY <1>8, ZenonT(30) DEF ConnCheckFinal, ConnWait
<1>9. ASSUME NEW c \in ConnIds, ConnQueueClose(c) PROVE DoneInv'
  BY <1>9 DEF ConnQueueClose
<1>10. CASE UNCHANGED <<cDone, qClosed, st>> BY <1>10, SMTT(20)
<1> QED BY <1>2, <1>3, <1>4, <1>5, <1>6, <1>7, <1>8, <1>9, <1>10, DoneInvFrame

\* Only these actions change what FinalInv and WaitGroupExact are about.
LEMMA WaitGroupFrame ==
  ASSUME [Next]_vars
  PROVE  \/ UNCHANGED <<connWG, lcVars, st>>
         \/ SendAccept \/ CloseBegin \/ CloseDoneCh \/ CloseLock \/ CloseDrain \/
            CloseDrained \/ CloseWGDone \/ CloseWait
         \/ \E a \in Acceptors : Accept(a) \/ AcceptAdd(a)
         \/ \E c \in ConnIds : ConnClose(c) \/ ConnCloseDoneCh(c) \/ ConnDelete(c) \/
            ConnCheckFinal(c) \/ ConnWait(c) \/ ConnQueueClose(c)
BY ZenonT(60) DEF Next, vars, ReadLoopStep, CloserStep, CloseStep, Environment,
   ConnCloseStep, ReadStep, ReadPacket, ReadLoopAt, ReadFailsOpen, ReadFails,
   ReadFailsClosed, ReadLoopCloseReadDone, WakeParked, ReadLoopWGDone, ReadWGDone,
   Lookup, DropPacket, MayCreate, SendExceeded, Insert, Push, Pushed, CloserWait,
   CloserWoken, CloserClosing, CloserClosed, CloserDone, AcceptTimeout, Returned,
   AcceptAt, Read, ReadAt, ReadPop, Popped, ReadClosed, ReadFailed, ReadTimeout,
   ReadRelease, Write, WritePacket

\* The part of the invariant about a waiting supConn.Close.
LEMMA FinalInvStep ==
  ASSUME IndInv, [Next]_vars PROVE FinalInv'
<1>1. CASE SendAccept
  BY <1>1 DEF SendAccept, IndInv, LockInv, FinalInv
<1>2. CASE CloseDrained
  <2>1. NConns = 0 => \A a \in Addrs : conns[a] = 0 BY TableSize DEF NConns
  <2>2. rlPc # "insert" BY <1>2 DEF IndInv, LockInv, CloseDrained
  <2>3. \A c \in ConnIds : st[c] \in Live => src[c] \in Addrs /\ conns[src[c]] # 0
    <3>1. \A c \in ConnIds : st[c] \in Live => conns[src[c]] = c
      BY <2>2, SMTT(20) DEF IndInv, TableInv, RoutingTableExact
    <3> QED BY <3>1, LiveConn
  <2> QED BY <1>2, <2>1, <2>3 DEF CloseDrained, CloseAt, FinalInv
<1>3. ASSUME NEW a \in Acceptors, Accept(a) PROVE FinalInv'
  BY <1>3, AcceptHead, Zenon DEF Accept, IndInv, FinalInv, TypeOK, ConnTypeOK
<1>4. ASSUME NEW a \in Acceptors, AcceptAdd(a) PROVE FinalInv'
  BY <1>4, AcceptTaken, ZenonT(30) DEF AcceptAdd, IndInv, FinalInv, TypeOK, ConnTypeOK
<1>5. CASE CloseBegin \/ CloseDoneCh \/ CloseLock \/ CloseDrain
  BY <1>5 DEF CloseBegin, CloseDoneCh, CloseLock, CloseDrain, CloseAt, FinalInv
<1>6. CASE CloseWGDone \/ CloseWait
  BY <1>6 DEF CloseWGDone, CloseWait, CloseAt, IsFinal, IndInv, FinalInv
<1>7. ASSUME NEW c \in ConnIds,
             \/ ConnClose(c) \/ ConnCloseDoneCh(c) \/ ConnDelete(c)
             \/ ConnCheckFinal(c) \/ ConnWait(c) \/ ConnQueueClose(c)
      PROVE  FinalInv'
  <2>1. UNCHANGED <<lcPc, lcN>>
    BY <1>7, ZenonT(30) DEF ConnClose, ConnCloseDoneCh, ConnDelete, ConnCheckFinal, ConnWait,
       ConnQueueClose
  <2>2. \A d \in ConnIds : st[d] \notin Live => st'[d] \notin Live
    BY <1>7, ZenonT(30) DEF ConnClose, ConnCloseDoneCh, ConnDelete, ConnCheckFinal, ConnWait,
       ConnQueueClose, IndInv, TypeOK, ConnTypeOK
  <2> QED BY <2>1, <2>2, SMTT(20) DEF IndInv, FinalInv
<1>8. CASE UNCHANGED <<connWG, lcVars, st>>
  BY <1>8 DEF IndInv, FinalInv
<1> QED BY <1>1, <1>2, <1>3, <1>4, <1>5, <1>6, <1>7, <1>8, WaitGroupFrame

\* The open Conns are finitely many.
LEMMA OpenSize ==
  /\ IsFiniteSet(Open) /\ Cardinality(Open) \in Nat
  /\ \A c \in Open : Cardinality(Open) > 0
<1>1. IsFiniteSet(1..MaxPackets) BY MaxPacketsNat, FS_Interval
<1>2. IsFiniteSet(Open) BY <1>1, FS_Subset, ZenonT(30) DEF Open
<1>3. Cardinality(Open) \in Nat BY <1>2, FS_CardinalityType
<1>4. Cardinality(Open) = 0 <=> Open = {} BY <1>2, FS_EmptySet
<1> QED BY <1>2, <1>3, <1>4

\* How one step of a Conn's life cycle changes the number of open Conns.
LEMMA OpenStep ==
  ASSUME IndInv, NEW c \in ConnIds, NEW x, st' = [st EXCEPT ![c] = x]
  PROVE  /\ st[c] # "open" /\ x # "open" => Open' = Open
         /\ st[c] # "open" /\ x = "open" => Cardinality(Open') = Cardinality(Open) + 1
         /\ st[c] = "open" /\ x # "open" => Cardinality(Open') = Cardinality(Open) - 1
<1>1. \A d \in ConnIds : st'[d] = IF d = c THEN x ELSE st[d]
  BY DEF IndInv, TypeOK, ConnTypeOK
<1>2. st[c] # "open" /\ x # "open" => Open' = Open BY <1>1 DEF Open
<1>3. CASE st[c] # "open" /\ x = "open"
  <2>1. c \notin Open /\ Open' = Open \cup {c} BY <1>1, <1>3 DEF Open
  <2> QED BY <2>1, <1>3, OpenSize, FS_AddElement, Zenon
<1>4. CASE st[c] = "open" /\ x # "open"
  <2>1. c \in Open /\ Open' = Open \ {c} BY <1>1, <1>4 DEF Open
  <2> QED BY <2>1, <1>4, OpenSize, FS_RemoveElement
<1> QED BY <1>2, <1>3, <1>4

\* connWG stays exact.
LEMMA WaitGroupStep ==
  ASSUME IndInv, [Next]_vars PROVE WaitGroupExact'
<1>1. CASE SendAccept
  <2>1. Open' = Open BY <1>1, NewConn, OpenStep, ZenonT(30) DEF SendAccept
  <2> QED BY <1>1, <2>1, SMTT(20) DEF SendAccept, IndInv, WaitGroupExact
<1>2. CASE CloseDrain
  <2>1. acceptCh # <<>> /\ st' = [st EXCEPT ![Head(acceptCh)] = "drained"] BY <1>2 DEF CloseDrain
  <2>2. Head(acceptCh) \in ConnIds /\ st[Head(acceptCh)] # "open" BY <2>1, AcceptHead
  <2>3. "drained" # "open" OBVIOUS
  <2>4. Open' = Open BY <2>1, <2>2, <2>3, OpenStep, Zenon
  <2> QED BY <1>2, <2>4 DEF CloseDrain, IndInv, WaitGroupExact
<1>3. CASE CloseWGDone
  <2>1. Open' = Open BY <1>3 DEF CloseWGDone, Open
  <2>2. Cardinality(Open) \in Nat BY OpenSize
  <2> QED BY <1>3, <2>1, <2>2 DEF CloseWGDone, CloseAt, ConnWGDone, IndInv, WaitGroupExact
<1>4. ASSUME NEW a \in Acceptors, Accept(a) PROVE WaitGroupExact'
  <2>1. UNCHANGED st => Open' = Open BY DEF Open
  <2>2. acceptCh # <<>> /\ st' = [st EXCEPT ![Head(acceptCh)] = "taken"] => Open' = Open
    <3>1. "taken" # "open" OBVIOUS
    <3>2. acceptCh # <<>> => Head(acceptCh) \in ConnIds /\ st[Head(acceptCh)] # "open"
      BY AcceptHead
    <3> QED BY <3>1, <3>2, OpenStep, Zenon
  <2>3. Open' = Open BY <1>4, <2>1, <2>2, SMTT(20) DEF Accept
  <2> QED BY <1>4, <2>3 DEF Accept, IndInv, WaitGroupExact
<1>5. ASSUME NEW a \in Acceptors, AcceptAdd(a) PROVE WaitGroupExact'
  <2>1. Cardinality(Open') = Cardinality(Open) + 1 BY <1>5, AcceptTaken, OpenStep, ZenonT(30) DEF AcceptAdd
  <2>2. Cardinality(Open) \in Nat BY OpenSize
  <2> QED BY <1>5, <2>1, <2>2, SMTT(20) DEF AcceptAdd, ConnWGAdd, IndInv, WaitGroupExact
<1>6. ASSUME NEW c \in ConnIds, ConnClose(c) PROVE WaitGroupExact'
  <2>1. st[c] = "open" /\ st' = [st EXCEPT ![c] = "wgDone"] BY <1>6 DEF ConnClose
  <2>2. "wgDone" # "open" OBVIOUS
  <2>3. Cardinality(Open') = Cardinality(Open) - 1 BY <2>1, <2>2, OpenStep, Zenon
  <2>4. Cardinality(Open) \in Nat BY OpenSize, SMTT(20)
  <2> QED BY <1>6, <2>3, <2>4 DEF ConnClose, ConnWGDone, IndInv, WaitGroupExact
<1>7. ASSUME NEW c \in ConnIds,
             \/ ConnCloseDoneCh(c) \/ ConnDelete(c) \/ ConnCheckFinal(c)
             \/ ConnWait(c) \/ ConnQueueClose(c)
      PROVE  WaitGroupExact'
  <2>1. Open' = Open
    BY <1>7, OpenStep, ZenonT(30) DEF ConnCloseDoneCh, ConnDelete, ConnCheckFinal, ConnWait, ConnQueueClose
  <2> QED BY <1>7, <2>1, ZenonT(30) DEF ConnCloseDoneCh, ConnDelete, ConnCheckFinal, ConnWait,
        ConnQueueClose, IndInv, WaitGroupExact
<1>8. CASE CloseBegin \/ CloseDoneCh \/ CloseLock \/ CloseDrained \/ CloseWait
  <2>1. Open' = Open
    BY <1>8 DEF CloseBegin, CloseDoneCh, CloseLock, CloseDrained, CloseWait, Open
  <2> QED BY <1>8, <2>1, ZenonT(30) DEF CloseBegin, CloseDoneCh, CloseLock, CloseDrained, CloseWait,
        CloseAt, IndInv, WaitGroupExact
<1>9. CASE UNCHANGED <<connWG, lcVars, st>>
  BY <1>9, SMTT(20) DEF IndInv, WaitGroupExact, Open
<1> QED BY <1>1, <1>2, <1>3, <1>4, <1>5, <1>6, <1>7, <1>8, <1>9, WaitGroupFrame

\* Only these actions change panic.
LEMMA PanicFrame ==
  ASSUME [Next]_vars
  PROVE  \/ UNCHANGED <<panic>>
         \/ CloserWoken \/ CloseDrain \/ CloseWGDone
         \/ \E c \in ConnIds : ConnClose(c) \/ ConnCloseDoneCh(c)
BY ZenonT(60) DEF Next, vars, ReadLoopStep, CloserStep, CloseStep, Environment,
   ConnCloseStep, ReadStep, ReadPacket, ReadLoopAt, ReadFailsOpen, ReadFails,
   ReadFailsClosed, ReadLoopCloseReadDone, WakeParked, ReadLoopWGDone, ReadWGDone,
   Lookup, DropPacket, MayCreate, SendAccept, Parked, AcceptAt, SendExceeded, Insert,
   Push, Pushed, CloserWait, CloserClosing, CloserClosed, CloserDone, CloseBegin,
   CloseAt, CloseDoneCh, CloseLock, CloseDrained, CloseWait, Accept, Returned,
   AcceptTimeout, AcceptAdd, ConnWGAdd, ConnDelete, Deleted, ConnCheckFinal, ConnWait,
   ConnQueueClose, Read, ReadAt, ReadPop, Popped, ReadClosed, ReadFailed, ReadTimeout,
   ReadRelease, Write, WritePacket

\* Nothing is closed or counted down twice.
LEMMA PanicStep ==
  ASSUME IndInv, [Next]_vars PROVE CloseOnlyOnce'
<1>1. CASE CloseDrain
  BY <1>1, AcceptHead, SMTT(20) DEF CloseDrain, CloseConnDoneCh, Running, IndInv, DoneInv, CloseOnlyOnce
<1>2. CASE CloseWGDone
  BY <1>2, OpenSize DEF CloseWGDone, ConnWGDone, Running, IndInv, WaitGroupExact, CloseOnlyOnce
<1>3. ASSUME NEW c \in ConnIds, ConnClose(c) PROVE CloseOnlyOnce'
  <2>1. c \in Open BY <1>3 DEF ConnClose, Open
  <2>2. Cardinality(Open) \in Nat /\ Cardinality(Open) > 0 BY <2>1, OpenSize
  <2>3. connWG # 0 BY <2>2 DEF IndInv, WaitGroupExact
  <2>4. panic' = panic BY <1>3, <2>3 DEF ConnClose, ConnWGDone
  <2>5. panic = "none" BY <1>3 DEF ConnClose, Running
  <2> QED BY <2>4, <2>5 DEF CloseOnlyOnce
<1>4. ASSUME NEW c \in ConnIds, ConnCloseDoneCh(c) PROVE CloseOnlyOnce'
  BY <1>4 DEF ConnCloseDoneCh, CloseConnDoneCh, Running, IndInv, DoneInv, CloseOnlyOnce
<1> USE DEF IndInv, TypeOK, CloseOnlyOnce, RunTypeOK
<1>5. CASE CloserWoken
  BY <1>5 DEF CloserWoken
<1>6. CASE UNCHANGED <<panic>>
  BY <1>6
<1> QED BY <1>1, <1>2, <1>3, <1>4, <1>5, <1>6, PanicFrame

\* The initial state of wrapConn satisfies the invariant.
LEMMA InitInv == Init => IndInv
<1> SUFFICES ASSUME Init PROVE IndInv OBVIOUS
<1> USE MaxPacketsNat DEF Init
<1>1. SuperTypeOK
  <2>1. acceptCh \in Seq(ConnIds) BY EmptySeq
  <2>2. conns \in [Addrs -> 0..MaxPackets] OBVIOUS
  <2>3. connWG \in Int /\ readWG \in Int OBVIOUS
  <2> QED BY <2>1, <2>2, <2>3, Zenon DEF SuperTypeOK
<1>2. RunTypeOK BY DEF RunTypeOK
<1>3. CallTypeOK
  <2>1. accPc \in [Acceptors -> {"idle", "parked", "add"}] OBVIOUS
  <2>2. accConn \in [Acceptors -> 0..MaxPackets] OBVIOUS
  <2> QED BY <2>1, <2>2, ZenonT(30) DEF CallTypeOK
<1>4. ConnTypeOK BY DEF ConnTypeOK
<1>5. IoTypeOK BY DEF IoTypeOK
<1>6. ReadLoopInv /\ LockInv BY DEF ReadLoopInv, LockInv
<1>7. TableInv BY DEF TableInv, RoutingTableExact
<1>8. AcceptInv BY DEF AcceptInv
<1>9. DoneInv /\ FinalInv /\ CloseOnlyOnce BY DEF DoneInv, FinalInv, CloseOnlyOnce
<1>10. WaitGroupExact
  <2>1. Open = {} BY DEF Open
  <2>2. Cardinality(Open) = 0 BY <2>1, FS_EmptySet
  <2> QED BY <2>2 DEF WaitGroupExact
<1> QED BY <1>1, <1>2, <1>3, <1>4, <1>5, <1>6, <1>7, <1>8, <1>9, <1>10 DEF IndInv, TypeOK

\* Every step keeps the invariant.
LEMMA IndStep == IndInv /\ [Next]_vars => IndInv'
BY TypeStep, ReadLoopInvStep, LockInvStep, TableInvStep, AcceptInvStep, DoneInvStep,
   FinalInvStep, WaitGroupStep, PanicStep DEF IndInv

-----------------------------------------------------------------------------
(* Theorems *)

\* The inductive invariant holds in every reachable state.
THEOREM Invariance == Spec => []IndInv
BY InitInv, IndStep, PTL DEF Spec

\* Every variable of supConn, the Conns and their goroutines keeps its type.
THEOREM TypeCorrect == Spec => []TypeOK
<1>1. IndInv => TypeOK BY DEF IndInv
<1> QED BY <1>1, Invariance, PTL

\* connWG counts exactly the accepted Conns that are not closed plus the open
\* listener, however Accept, Conn.Close and supConn.Close interleave.
THEOREM WaitGroupCorrect == Spec => []WaitGroupExact
<1>1. IndInv => WaitGroupExact BY DEF IndInv
<1> QED BY <1>1, Invariance, PTL

\* connWG never goes negative and no Conn's doneCh is closed twice by the race
\* of supConn.Close and Accept for the Conns in acceptCh.
THEOREM ClosedOnlyOnce == Spec => []CloseOnlyOnce
<1>1. IndInv => CloseOnlyOnce BY DEF IndInv
<1> QED BY <1>1, Invariance, PTL

\* The table routes an address to a Conn exactly while that Conn is alive.
THEOREM RoutingCorrect == Spec => []RoutingTableExact
<1>1. IndInv => RoutingTableExact BY DEF IndInv, TableInv
<1> QED BY <1>1, Invariance, PTL

\* After the drain of supConn.Close no Conn is or will be left unaccepted.
THEOREM NoneStranded == Spec => []NoConnStranded
<1>1. IndInv => NoConnStranded
  BY SMTT(30) DEF IndInv, AcceptInv, LockInv, NoConnStranded
<1> QED BY <1>1, Invariance, PTL

\* supConn.Close waits for the goroutines only when no Conn is alive.
THEOREM ListenerWaitsLast == Spec => []ListenerWaitIsFinal
<1>1. IndInv => ListenerWaitIsFinal BY DEF IndInv, FinalInv, ListenerWaitIsFinal
<1> QED BY <1>1, Invariance, PTL

\* A Conn that has left the table stays out of it and is never handed out again.
LEMMA LifeCycle ==
  ASSUME IndInv, [Next]_vars, NEW c \in ConnIds, st[c] \notin Live \cup {"free"}
  PROVE  st'[c] \notin Live
<1> USE DEF IndInv, TypeOK, ConnTypeOK
<1>1. CASE SendAccept BY <1>1, NewConn, ZenonT(30) DEF SendAccept
<1>2. CASE CloseDrain BY <1>2, AcceptHead DEF CloseDrain
<1>3. ASSUME NEW a \in Acceptors, Accept(a) PROVE st'[c] \notin Live
  BY <1>3, AcceptHead, ZenonT(30) DEF Accept
<1>4. ASSUME NEW a \in Acceptors, AcceptAdd(a) PROVE st'[c] \notin Live
  BY <1>4, AcceptTaken, Zenon DEF AcceptAdd
<1>5. ASSUME NEW d \in ConnIds,
             \/ ConnClose(d) \/ ConnCloseDoneCh(d) \/ ConnDelete(d)
             \/ ConnCheckFinal(d) \/ ConnWait(d) \/ ConnQueueClose(d)
      PROVE  st'[c] \notin Live
  BY <1>5, ZenonT(30) DEF ConnClose, ConnCloseDoneCh, ConnDelete, ConnCheckFinal, ConnWait,
     ConnQueueClose
<1>6. CASE UNCHANGED <<cDone, qClosed, st>> BY <1>6
<1> QED BY <1>1, <1>2, <1>3, <1>4, <1>5, <1>6, DoneInvFrame

\* A closed or drained Conn is never routed to, accepted or opened again.
THEOREM ConnsDieOnceHolds == Spec => ConnsDieOnce
<1> DEFINE A == \A c \in ConnIds : st[c] \notin Live \cup {"free"} =>
                  st'[c] \notin Live /\ (\A a \in Addrs : conns'[a] # c)
<1>1. IndInv /\ IndInv' /\ [Next]_vars => [A]_vars
  <2> SUFFICES ASSUME IndInv, IndInv', [Next]_vars PROVE A OBVIOUS
  <2>1. \A c \in ConnIds : st[c] \notin Live \cup {"free"} => st'[c] \notin Live
    BY LifeCycle, SMTT(20)
  <2>2. \A a \in Addrs : conns'[a] # 0 => st'[conns'[a]] \in Live
    BY DEF IndInv, TableInv, RoutingTableExact
  <2> QED BY <2>1, <2>2, MaxPacketsNat
<1> QED BY <1>1, Invariance, PTL DEF Spec, ConnsDieOnce

\* A Read released by the closed queue finds doneCh closed.
LEMMA EOFStep ==
  ASSUME IndInv, ReleasedReadIsEOF, [Next]_vars PROVE ReleasedReadIsEOF'
<1> USE DEF IndInv, TypeOK, IoTypeOK, ReleasedReadIsEOF
<1>1. ASSUME NEW c \in ConnIds, ReadClosed(c) PROVE ReleasedReadIsEOF'
  <2>1. cDone[c] BY <1>1, SMTT(20) DEF ReadClosed, DoneInv
  <2> QED BY <1>1, <2>1 DEF ReadClosed, ReadFailed, ReadAt
<1>2. ASSUME NEW c \in ConnIds,
             Read(c) \/ ReadPop(c) \/ ReadTimeout(c) \/ ReadRelease(c)
      PROVE ReleasedReadIsEOF'
  BY <1>2, ZenonT(30) DEF Read, ReadPop, ReadTimeout, ReadFailed, ReadRelease, ReadAt
<1>3. ASSUME NEW c \in ConnIds, ConnQueueClose(c) \/ Write(c) \/ WritePacket(c)
      PROVE  ReleasedReadIsEOF'
  BY <1>3, ZenonT(30) DEF ConnQueueClose, Write, WritePacket
<1>4. CASE UNCHANGED <<rdVars, wr, pooled>> BY <1>4
<1> QED BY <1>1, <1>2, <1>3, <1>4, IoFrame

\* A Read released by Close returns io.EOF, never the queue's own error.
THEOREM ReleasedReadsSeeEOF == Spec => []ReleasedReadIsEOF
<1>1. Init => ReleasedReadIsEOF BY DEF Init, ReleasedReadIsEOF
<1>2. IndInv /\ ReleasedReadIsEOF /\ [Next]_vars => ReleasedReadIsEOF'
  BY EOFStep
<1> QED BY <1>1, <1>2, Invariance, PTL DEF Spec
=============================================================================
