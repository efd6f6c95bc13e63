----------------------- MODULE SuperConnShutdownProofs -----------------------
(****************************************************************************)
(* TLAPS proofs about the end of a supConn: the last of supConn.Close and   *)
(* the Conn.Closes waits for the read loop and the closer goroutine, so     *)
(* that nothing is left behind and no error of the socket is lost; and,     *)
(* unless supConn.Close overtakes an Accept between its receive and         *)
(* connWG.Add(1), the socket outlives every Conn the application holds and  *)
(* nothing panics.                                                          *)
(****************************************************************************)
EXTENDS SuperConnProofs

USE DEF chanVars, wgVars, errVars, netVars, rlVars, lcVars, accVars, ccVars,
        connVars, rdVars, ioVars, Packets, ConnIds, Live, Held, Closing

\* Only these actions change what ReadWaitGroupInv is about, or the socket's error.
LEMMA GoroutineFrame ==
  ASSUME [Next]_vars
  PROVE  \/ UNCHANGED <<readWG, errClose, sock, rlPc, closer>>
         \/ ReadPacket \/ ReadFailsOpen \/ ReadFailsClosed \/ ReadLoopCloseReadDone \/
            ReadLoopWGDone \/ Lookup \/ SendAccept \/ SendExceeded \/ Insert \/ Push \/
            CloserWait \/ CloserWoken \/ CloserClosing \/ CloserClosed \/ CloserDone \/
            CloseWGDone
         \/ \E c \in ConnIds : ConnClose(c)
BY ZenonT(60) DEF Next, vars, ReadLoopStep, CloserStep, CloseStep, Environment,
   ConnCloseStep, ReadStep, CloseBegin, CloseAt, CloseDoneCh, WakeParked, CloseLock,
   CloseDrain, CloseConnDoneCh, Deleted, CloseDrained, CloseWait, Accept, Returned,
   AcceptAt, AcceptTimeout, AcceptAdd, ConnWGAdd, ConnCloseDoneCh, ConnDelete,
   ConnCheckFinal, ConnWait, ConnQueueClose, Read, ReadAt, ReadPop, Popped,
   ReadClosed, ReadFailed, ReadTimeout, ReadRelease, Write, WritePacket

\* readWG stays exact, and once both goroutines are done neither it nor the
\* socket's error changes.
LEMMA ReadWaitGroupStep ==
  ASSUME IndInv, ReadWaitGroupInv, [Next]_vars
  PROVE  ReadWaitGroupInv' /\ (readWG = 0 => UNCHANGED <<readWG, errClose>>)
<1> USE DEF ReadWaitGroupInv
<1>1. CASE ReadLoopWGDone
  BY <1>1 DEF ReadLoopWGDone, ReadWGDone, ReadLoopAt
<1>2. CASE CloserDone
  BY <1>2 DEF CloserDone, ReadWGDone
<1>3. CASE CloserClosed
  BY <1>3 DEF CloserClosed
<1>4. CASE CloserWait \/ CloserWoken \/ CloserClosing
  BY <1>4 DEF CloserWait, CloserWoken, CloserClosing
<1>5. CASE ReadPacket \/ ReadFailsOpen \/ ReadFailsClosed \/ ReadLoopCloseReadDone
  BY <1>5 DEF ReadPacket, ReadFailsOpen, ReadFailsClosed, ReadFails,
     ReadLoopCloseReadDone, ReadLoopAt
<1>6. CASE Lookup \/ SendAccept \/ SendExceeded \/ Insert \/ Push
  <2>1. /\ rlPc # "ended" /\ rlPc' # "ended"
        /\ UNCHANGED <<readWG, errClose, sock, closer>>
    BY <1>6 DEF Lookup, SendAccept, SendExceeded, Insert, Push, DropPacket, ReadLoopAt
  <2> QED BY <2>1
<1>7. ASSUME CloseWGDone \/ \E c \in ConnIds : ConnClose(c)
      PROVE  ReadWaitGroupInv' /\ (readWG = 0 => UNCHANGED <<readWG, errClose>>)
  BY <1>7 DEF CloseWGDone, ConnClose, ConnWGDone
<1>8. CASE UNCHANGED <<readWG, errClose, sock, rlPc, closer>>
  BY <1>8
<1> QED BY <1>1, <1>2, <1>3, <1>4, <1>5, <1>6, <1>7, <1>8, GoroutineFrame

\* A table that is not empty routes to some live Conn.
LEMMA SomeoneLive ==
  ASSUME IndInv, NConns # 0 PROVE \E c \in ConnIds : st[c] \in Live
<1>1. PICK a \in Addrs : conns[a] # 0
  <2>1. {a \in Addrs : conns[a] # 0} # {} BY FS_EmptySet DEF NConns
  <2> QED BY <2>1
<1> QED BY <1>1, Routed

\* While supConn.Close is past its count, whoever answers for the goroutines
\* keeps answering or, deleting itself from a table that is not empty, leaves
\* the duty to a Conn still in it.
LEMMA AnswersStep ==
  ASSUME IndInv, ReadWaitGroupInv, [Next]_vars, lcPc \in {"wgDone", "returned"},
         NEW c \in ConnIds, Answers(c)
  PROVE  \E d \in ConnIds : Answers(d)'
<1>1. IndInv' BY IndStep
<1>2. ~accepting /\ rlPc # "send" /\ lcPc # "drain" BY DEF IndInv, LockInv
<1>3. readWG = 0 => readWG' = 0 /\ errClose' = errClose BY ReadWaitGroupStep
<1> USE DEF IndInv, TypeOK, ConnTypeOK
<1>4. ASSUME NEW d \in ConnIds, ConnDelete(d) PROVE \E e \in ConnIds : Answers(e)'
  <2>1. CASE NConns' = 0
    <3>1. st'[d] = "deleted" /\ ccN'[d] = 0 BY <1>4, <2>1 DEF ConnDelete
    <3> QED BY <3>1 DEF Answers, FoundEmpty
  <2>2. CASE NConns' # 0
    <3>1. PICK a \in Addrs : conns'[a] # 0
      <4>1. {a \in Addrs : conns'[a] # 0} # {} BY <2>2, FS_EmptySet, Zenon DEF NConns
      <4> QED BY <4>1
    <3>2. conns'[a] \in ConnIds /\ st'[conns'[a]] \in Live
      BY <1>1, <3>1, MaxPacketsNat, SMTT(30) DEF SuperTypeOK, TableInv, RoutingTableExact
    <3> QED BY <3>2 DEF Answers
  <2> QED BY <2>1, <2>2
<1>5. ASSUME UNCHANGED <<ccN, ccErr>>,
             st[c] \in Live => st'[c] \in Live,
             st[c] \notin Live => st'[c] = st[c] \/ (st[c] = "queueClose" /\ st'[c] = "closed")
      PROVE  Answers(c)'
  BY <1>3, <1>5 DEF Answers, FoundEmpty
<1>6. CASE CloseDrain \/ SendAccept
  BY <1>2, <1>6 DEF CloseDrain, SendAccept
<1>7. ASSUME NEW a \in Acceptors, Accept(a) PROVE Answers(c)'
  BY <1>5, <1>7, AcceptHead, ZenonT(30) DEF Accept
<1>8. ASSUME NEW a \in Acceptors, AcceptAdd(a) PROVE Answers(c)'
  BY <1>5, <1>8, AcceptTaken, ZenonT(30) DEF AcceptAdd
<1>9. ASSUME NEW d \in ConnIds, ConnClose(d) \/ ConnCloseDoneCh(d) \/ ConnQueueClose(d)
      PROVE  Answers(c)'
  BY <1>5, <1>9, ZenonT(30) DEF ConnClose, ConnCloseDoneCh, ConnQueueClose
<1>10. ASSUME NEW d \in ConnIds, ConnCheckFinal(d) PROVE Answers(c)'
  <2>1. CASE d = c
    BY <1>2, <1>10, <2>1 DEF ConnCheckFinal, IsFinal, Answers, FoundEmpty
  <2>2. CASE d # c
    BY <1>5, <1>10, <2>2, ZenonT(30) DEF ConnCheckFinal
  <2> QED BY <2>1, <2>2
<1>11. ASSUME NEW d \in ConnIds, ConnWait(d) PROVE Answers(c)'
  <2>1. CASE d = c
    BY <1>11, <2>1 DEF ConnWait, Answers
  <2>2. CASE d # c
    <3>1. st'[c] = st[c] /\ ccErr'[c] = ccErr[c] /\ ccN' = ccN
      BY <1>11, <2>2, ZenonT(30) DEF ConnWait
    <3> QED BY <1>3, <3>1 DEF Answers, FoundEmpty
  <2> QED BY <2>1, <2>2
<1>12. ASSUME Push \/ \E d \in ConnIds : ReadPop(d) PROVE Answers(c)'
  BY <1>5, <1>12, ZenonT(30) DEF Push, ReadPop
<1>13. CASE UNCHANGED <<st, cDone, qClosed, queue, ccVars>>
  BY <1>5, <1>13
<1> QED BY <1>4, <1>6, <1>7, <1>8, <1>9, <1>10, <1>11, <1>12, <1>13, ConnFrame

\* Every step keeps what is known about the end of the supConn.
LEMMA ShutdownStep ==
  ASSUME IndInv, ShutdownInv, [Next]_vars PROVE ShutdownInv'
<1>1. ReadWaitGroupInv' /\ (readWG = 0 => UNCHANGED <<readWG, errClose>>)
  BY ReadWaitGroupStep DEF ShutdownInv
<1>2. lcPc \in {"wgDone", "returned"} /\ lcN # 0 => \E c \in ConnIds : Answers(c)'
  BY AnswersStep, ZenonT(30) DEF ShutdownInv
<1>3. CASE UNCHANGED lcVars
  BY <1>1, <1>2, <1>3 DEF ShutdownInv
<1>4. CASE CloseBegin \/ CloseDoneCh \/ CloseLock
  BY <1>1, <1>4 DEF CloseBegin, CloseDoneCh, CloseLock, CloseAt, ShutdownInv
<1>5. CASE CloseDrained
  <2>1. lcPc' = "wgDone" /\ lcN' = NConns /\ st' = st BY <1>5 DEF CloseDrained, CloseAt
  <2>2. lcN' # 0 => \E c \in ConnIds : Answers(c)'
    BY <2>1, SomeoneLive, ZenonT(30) DEF Answers
  <2> QED BY <1>1, <2>1, <2>2 DEF ShutdownInv
<1>6. CASE CloseWGDone
  BY <1>1, <1>2, <1>6 DEF CloseWGDone, CloseAt, IsFinal, ShutdownInv
<1>7. CASE CloseWait
  BY <1>1, <1>7 DEF CloseWait, CloseAt, ShutdownInv
<1>8. ASSUME NEW a \in Acceptors, Accept(a) \/ AcceptTimeout(a) \/ AcceptAdd(a)
      PROVE  UNCHANGED lcVars
  BY <1>8 DEF Accept, AcceptTimeout, AcceptAdd
<1>9. CASE ReadLoopCloseReadDone \/ SendAccept
  BY <1>3, <1>9 DEF ReadLoopCloseReadDone, SendAccept
<1> QED BY <1>3, <1>4, <1>5, <1>6, <1>7, <1>8, <1>9, CallFrame

\* The inductive invariant of the shutdown holds in every reachable state.
THEOREM ShutdownInvariance == Spec => []ShutdownInv
<1>1. Init => ShutdownInv BY DEF Init, ShutdownInv, ReadWaitGroupInv
<1>2. IndInv /\ ShutdownInv /\ [Next]_vars => ShutdownInv' BY ShutdownStep
<1> QED BY <1>1, <1>2, Invariance, PTL DEF Spec

\* When supConn.Close and every Conn.Close have returned, the read loop and the
\* closer goroutine have ended and the socket is closed, however the Closes
\* raced for being the last one.
THEOREM NothingLeaks == Spec => []NoGoroutineLeak
<1>1. IndInv /\ ShutdownInv => NoGoroutineLeak
  <2> SUFFICES ASSUME IndInv, ShutdownInv, lcPc = "returned",
                      \A c \in ConnIds : st[c] \in {"free", "drained", "closed"}
               PROVE  rlPc = "ended" /\ closer = "ended" /\ sock = "closed"
    BY DEF NoGoroutineLeak
  <2>1. readWG = 0
    <3>1. \A c \in ConnIds : Answers(c) => readWG = 0 BY DEF Answers, FoundEmpty
    <3> QED BY <3>1 DEF ShutdownInv
  <2> QED BY <2>1 DEF ShutdownInv, ReadWaitGroupInv
<1> QED BY <1>1, Invariance, ShutdownInvariance, PTL

\* An error of pConn.Close reaches the application: once all Closes have
\* returned, supConn.Close or some Conn.Close has returned it.
THEOREM CloseErrorsReported == Spec => []CloseErrReported
<1>1. ShutdownInv => CloseErrReported
  BY Zenon DEF ShutdownInv, Answers, FoundEmpty, CloseErrReported
<1> QED BY <1>1, ShutdownInvariance, PTL

-----------------------------------------------------------------------------
(* "Wait if this is the final connection" *)

\* Every step keeps the Conns that a waiting Conn.Close has missed later ones.
LEMMA OnlyLaterStep ==
  ASSUME IndInv, OnlyLaterInv, [Next]_vars PROVE OnlyLaterInv'
<1> USE DEF IndInv, TypeOK, ConnTypeOK
<1>1. ASSUME \A c \in ConnIds : /\ FoundEmpty(c)' => FoundEmpty(c)
                                /\ st'[c] \in Live => st[c] \in Live
      PROVE  OnlyLaterInv'
  BY <1>1 DEF OnlyLaterInv
<1>2. CASE SendAccept
  <2>1. rlPkt \in ConnIds /\ st[rlPkt] = "free" /\ rlPkt = Len(src)
    BY <1>2, NewConn DEF SendAccept, ReadLoopInv
  <2>2. /\ st'[rlPkt] \in Live /\ ccN' = ccN
        /\ \A c \in ConnIds : c # rlPkt => st'[c] = st[c]
    BY <1>2, <2>1, ZenonT(30) DEF SendAccept
  <2>3. \A c \in ConnIds : FoundEmpty(c)' => FoundEmpty(c) /\ c # rlPkt
    BY <2>1, <2>2, SMTT(20) DEF FoundEmpty
  <2>4. \A c \in ConnIds : FoundEmpty(c) => c < rlPkt
    <3>1. \A c \in ConnIds : st[c] # "free" => c <= Len(src) /\ c # rlPkt
      BY <1>2 DEF SendAccept, ReadLoopInv
    <3>2. \A c \in ConnIds : FoundEmpty(c) => st[c] # "free" BY DEF FoundEmpty
    <3> HIDE DEF IndInv, FoundEmpty
    <3> QED BY <2>1, <3>1, <3>2, MaxPacketsNat
  <2> QED BY <2>2, <2>3, <2>4 DEF OnlyLaterInv
<1>3. CASE CloseDrain
  BY <1>1, <1>3, AcceptHead, ZenonT(30) DEF CloseDrain, FoundEmpty
<1>4. ASSUME NEW a \in Acceptors, Accept(a) PROVE OnlyLaterInv'
  BY <1>1, <1>4, AcceptHead, ZenonT(30) DEF Accept, FoundEmpty
<1>5. ASSUME NEW a \in Acceptors, AcceptAdd(a) PROVE OnlyLaterInv'
  BY <1>1, <1>5, AcceptTaken, ZenonT(30) DEF AcceptAdd, FoundEmpty
<1>6. ASSUME NEW c \in ConnIds, ConnClose(c) \/ ConnCloseDoneCh(c) PROVE OnlyLaterInv'
  BY <1>1, <1>6, ZenonT(30) DEF ConnClose, ConnCloseDoneCh, FoundEmpty
<1>7. ASSUME NEW e \in ConnIds, ConnDelete(e) PROVE OnlyLaterInv'
  <2>1. \A c \in ConnIds : /\ c # e /\ FoundEmpty(c)' => FoundEmpty(c)
                           /\ st'[c] \in Live => st[c] \in Live
    BY <1>7, ZenonT(30) DEF ConnDelete, FoundEmpty
  <2>2. ASSUME FoundEmpty(e)', NEW d \in ConnIds, st'[d] \in Live PROVE FALSE
    <3>1. NConns' = 0 BY <1>7, <2>2 DEF ConnDelete, FoundEmpty
    <3>2. \A a \in Addrs : conns'[a] = 0 BY <3>1, TableSize DEF NConns
    <3>3. rlPc' # "insert" BY <1>7 DEF ConnDelete, LockInv
    <3>4. st[d] \in Live BY <2>1, <2>2
    <3>5. src'[d] \in Addrs BY <1>7, <3>4, LiveConn DEF ConnDelete
    <3>6. conns'[src'[d]] = d BY <2>2, <3>3, IndStep DEF TableInv, RoutingTableExact
    <3> QED BY <3>2, <3>5, <3>6
  <2> QED BY <2>1, <2>2 DEF OnlyLaterInv
<1>8. ASSUME NEW c \in ConnIds, ConnCheckFinal(c) PROVE OnlyLaterInv'
  BY <1>1, <1>8, SMTT(20) DEF ConnCheckFinal, IsFinal, FoundEmpty
<1>9. ASSUME NEW c \in ConnIds, ConnWait(c) \/ ConnQueueClose(c) PROVE OnlyLaterInv'
  BY <1>1, <1>9, ZenonT(30) DEF ConnWait, ConnQueueClose, FoundEmpty
<1>10. ASSUME Push \/ \E c \in ConnIds : ReadPop(c) PROVE OnlyLaterInv'
  BY <1>1, <1>10, ZenonT(30) DEF Push, ReadPop, FoundEmpty
<1>11. CASE UNCHANGED <<st, cDone, qClosed, queue, ccVars>>
  BY <1>1, <1>11 DEF FoundEmpty
<1> QED BY <1>2, <1>3, <1>4, <1>5, <1>6, <1>7, <1>8, <1>9, <1>10, <1>11, ConnFrame

\* A Conn.Close that waits for the goroutines never waits for a Conn that was
\* there before it: those its count missed were created later.
THEOREM WaitMissesOnlyLater == Spec => []ConnWaitMissesOnlyLater
<1>1. Init => OnlyLaterInv BY DEF Init, OnlyLaterInv, FoundEmpty
<1>2. IndInv /\ OnlyLaterInv /\ [Next]_vars => OnlyLaterInv' BY OnlyLaterStep
<1>3. OnlyLaterInv => ConnWaitMissesOnlyLater
  BY DEF OnlyLaterInv, FoundEmpty, ConnWaitMissesOnlyLater, Open
<1> QED BY <1>1, <1>2, <1>3, Invariance, PTL DEF Spec

-----------------------------------------------------------------------------
(* supConn.Close and the Accepts it overlaps with *)

\* Every step keeps the Conns that are taken with their Accepts; no Accept
\* takes one after the drain, and CloseWGDone records those it overtakes.
LEMMA TakenStep ==
  ASSUME IndInv, TakenInv, [Next]_vars PROVE TakenInv'
<1> USE DEF IndInv, TypeOK, ConnTypeOK, CallTypeOK, TakenInv
<1>1. CASE SendAccept
  <2>1. rlPkt \in ConnIds /\ st[rlPkt] = "free" /\ UNCHANGED <<lcPc, lateAdd>>
    BY <1>1, NewConn DEF SendAccept
  <2>2. lcPc \notin {"wait", "returned"} BY <1>1 DEF SendAccept, LockInv
  <2>3. ASSUME NEW a \in Parked, AcceptAt(a, "add", rlPkt), st' = [st EXCEPT ![rlPkt] = "taken"]
        PROVE  TakenInv'
    <3>1. a \in Acceptors /\ accPc[a] = "parked" BY <2>3 DEF Parked
    <3> QED BY <2>1, <2>2, <2>3, <3>1, SMTT(20) DEF AcceptAt
  <2>4. CASE UNCHANGED accVars /\ st' = [st EXCEPT ![rlPkt] = "pending"]
    BY <2>1, <2>4, ZenonT(30)
  <2> QED BY <1>1, <2>3, <2>4 DEF SendAccept
<1>2. CASE ReadLoopCloseReadDone \/ CloseDoneCh
  <2>1. /\ UNCHANGED <<st, accConn, lateAdd>> /\ WakeParked
        /\ lcPc' \in {"wait", "returned"} <=> lcPc \in {"wait", "returned"}
    BY <1>2 DEF ReadLoopCloseReadDone, CloseDoneCh, WakeParked, CloseAt
  <2>2. \A a \in Acceptors : accPc'[a] = "add" <=> accPc[a] = "add"
    BY <2>1 DEF WakeParked
  <2> QED BY <2>1, <2>2
<1>3. CASE CloseBegin \/ CloseLock \/ CloseDrained \/ CloseWait
  <2>1. /\ UNCHANGED <<st, accPc, accConn, lateAdd>>
        /\ lcPc' \in {"wait", "returned"} <=> lcPc \in {"wait", "returned"}
    BY <1>3 DEF CloseBegin, CloseLock, CloseDrained, CloseWait, CloseAt
  <2> QED BY <2>1
<1>4. CASE CloseWGDone
  <2>1. /\ UNCHANGED <<st, accPc, accConn>> /\ lcPc' \in {"wait", "returned"}
        /\ lateAdd' = Overtaken
    BY <1>4 DEF CloseWGDone, CloseAt
  <2> QED BY <2>1, Zenon DEF Overtaken
<1>5. CASE CloseDrain
  BY <1>5, AcceptHead, ZenonT(30) DEF CloseDrain
<1>6. ASSUME NEW a \in Acceptors, Accept(a) PROVE TakenInv'
  <2>1. UNCHANGED <<lcPc, lateAdd>> /\ accPc[a] = "idle" BY <1>6 DEF Accept
  <2>2. CASE /\ acceptCh # <<>> /\ st' = [st EXCEPT ![Head(acceptCh)] = "taken"]
             /\ AcceptAt(a, "add", Head(acceptCh))
    <3>1. lcPc \notin {"wait", "returned"} BY <2>2 DEF AcceptInv
    <3> QED BY <2>1, <2>2, <3>1, AcceptHead, SMTT(20) DEF AcceptAt
  <2>3. ASSUME NEW pc, pc # "add", AcceptAt(a, pc, 0), UNCHANGED st PROVE TakenInv'
    BY <2>1, <2>3, SMTT(20) DEF AcceptAt
  <2> QED BY <1>6, <2>2, <2>3, Zenon DEF Accept, Returned
<1>7. ASSUME NEW a \in Acceptors, AcceptTimeout(a) PROVE TakenInv'
  BY <1>7, SMTT(20) DEF AcceptTimeout, Returned, AcceptAt
<1>8. ASSUME NEW a \in Acceptors, AcceptAdd(a) PROVE TakenInv'
  BY <1>8, AcceptTaken, SMTT(60) DEF AcceptAdd, Returned, AcceptAt
<1>9. ASSUME NEW c \in ConnIds,
             \/ ConnClose(c) \/ ConnCloseDoneCh(c) \/ ConnDelete(c)
             \/ ConnCheckFinal(c) \/ ConnWait(c) \/ ConnQueueClose(c)
      PROVE  TakenInv'
  <2>1. UNCHANGED <<accPc, accConn, lcPc, lateAdd>>
    BY <1>9, ZenonT(30) DEF ConnClose, ConnCloseDoneCh, ConnDelete, ConnCheckFinal, ConnWait,
       ConnQueueClose
  <2>2. \A d \in ConnIds : st'[d] = "taken" => st[d] = "taken"
    BY <1>9, ZenonT(30) DEF ConnClose, ConnCloseDoneCh, ConnDelete, ConnCheckFinal, ConnWait,
       ConnQueueClose
  <2> QED BY <2>1, <2>2
<1>10. CASE UNCHANGED <<acceptCh, st, accVars, lcVars>>
  BY <1>10
<1> QED BY <1>1, <1>2, <1>3, <1>4, <1>5, <1>6, <1>7, <1>8, <1>9, <1>10, AcceptInvFrame

\* What supConn.Close has overtaken it stays overtaken.
LEMMA LateAddStays ==
  ASSUME TakenInv, lateAdd, [Next]_vars PROVE lateAdd'
<1>1. lcPc \in {"wait", "returned"} BY DEF TakenInv
<1>2. CASE \/ CloseBegin \/ CloseDoneCh \/ CloseLock \/ CloseDrained \/ CloseWGDone
           \/ CloseWait \/ ReadLoopCloseReadDone \/ SendAccept
  BY <1>1, <1>2 DEF CloseBegin, CloseDoneCh, CloseLock, CloseDrained, CloseWGDone, CloseWait,
     ReadLoopCloseReadDone, SendAccept
<1>3. ASSUME NEW a \in Acceptors, Accept(a) \/ AcceptTimeout(a) \/ AcceptAdd(a) PROVE lateAdd'
  BY <1>3 DEF Accept, AcceptTimeout, AcceptAdd
<1> QED BY <1>2, <1>3, CallFrame

\* Only these actions change what CloserInv is about.
LEMMA CloserFrame ==
  ASSUME [Next]_vars
  PROVE  \/ UNCHANGED <<connWG, closer, sock, panic>>
         \/ CloserWait \/ CloserWoken \/ CloserClosing \/ CloserClosed \/ CloserDone \/
            CloseDrain \/ CloseWGDone
         \/ \E a \in Acceptors : AcceptAdd(a)
         \/ \E c \in ConnIds : ConnClose(c) \/ ConnCloseDoneCh(c)
BY ZenonT(60) DEF Next, vars, ReadLoopStep, CloserStep, CloseStep, Environment,
   ConnCloseStep, ReadStep, ReadPacket, ReadLoopAt, ReadFailsOpen, ReadFails,
   ReadFailsClosed, ReadLoopCloseReadDone, WakeParked, ReadLoopWGDone, ReadWGDone,
   Lookup, DropPacket, MayCreate, SendAccept, Parked, AcceptAt, SendExceeded, Insert,
   Push, Pushed, CloseBegin, CloseAt, CloseDoneCh, CloseLock, CloseDrained, CloseWait,
   Accept, Returned, AcceptTimeout, ConnDelete, Deleted, ConnCheckFinal, ConnWait,
   ConnQueueClose, Read, ReadAt, ReadPop, Popped, ReadClosed, ReadFailed, ReadTimeout,
   ReadRelease, Write, WritePacket

\* Every step keeps the closer behind connWG: once it has passed Wait the
\* count stays at 0, since no Accept that was not overtaken can raise it.
LEMMA CloserStays ==
  ASSUME IndInv, TakenInv, CloserInv, [Next]_vars PROVE CloserInv'
<1>1. CloseOnlyOnce' /\ (lateAdd => lateAdd') BY IndStep, LateAddStays DEF IndInv
<1> USE DEF CloserInv
<1>2. CASE CloserWait \/ CloserWoken \/ CloserClosing \/ CloserClosed \/ CloserDone
  BY <1>1, <1>2 DEF CloserWait, CloserWoken, CloserClosing, CloserClosed, CloserDone
<1>3. ASSUME CloseDrain \/ \E c \in ConnIds : ConnCloseDoneCh(c) PROVE CloserInv'
  BY <1>1, <1>3 DEF CloseDrain, ConnCloseDoneCh, CloseConnDoneCh, CloseOnlyOnce
<1>4. ASSUME CloseWGDone \/ \E c \in ConnIds : ConnClose(c) PROVE CloserInv'
  <2>1. ConnWGDone /\ sock' = sock BY <1>4 DEF CloseWGDone, ConnClose
  <2>2. connWG # 0 BY <1>1, <2>1 DEF ConnWGDone, CloseOnlyOnce
  <2> QED BY <1>1, <2>1, <2>2 DEF ConnWGDone
<1>5. ASSUME NEW a \in Acceptors, AcceptAdd(a) PROVE CloserInv'
  <2>1. ~lateAdd => lcPc \notin {"wait", "returned"} BY <1>5, Zenon DEF AcceptAdd, TakenInv
  <2>2. ~lateAdd => connWG # 0 BY <2>1, OpenSize DEF IndInv, WaitGroupExact
  <2> QED BY <1>1, <1>5, <2>2, Zenon DEF AcceptAdd
<1>6. CASE UNCHANGED <<connWG, closer, sock, panic>>
  BY <1>1, <1>6
<1> QED BY <1>2, <1>3, <1>4, <1>5, <1>6, CloserFrame

\* A Conn the application holds stays with it, and Accept alone opens one.
LEMMA HeldStays ==
  ASSUME IndInv, [Next]_vars, NEW c \in ConnIds
  PROVE  /\ st[c] \in Held => st'[c] \in Held
         /\ st'[c] = "open" => st[c] \in {"taken", "open"}
<1> USE DEF IndInv, TypeOK, ConnTypeOK
<1> DEFINE P == /\ st[c] \in Held => st'[c] \in Held
                /\ st'[c] = "open" => st[c] \in {"taken", "open"}
<1>1. CASE SendAccept BY <1>1, NewConn, ZenonT(30) DEF SendAccept
<1>2. CASE CloseDrain BY <1>2, AcceptHead, ZenonT(30) DEF CloseDrain
<1>3. ASSUME NEW a \in Acceptors, Accept(a) PROVE P
  BY <1>3, AcceptHead, ZenonT(30) DEF Accept
<1>4. ASSUME NEW a \in Acceptors, AcceptAdd(a) PROVE P
  BY <1>4, AcceptTaken, ZenonT(30) DEF AcceptAdd
<1>5. ASSUME NEW d \in ConnIds,
             \/ ConnClose(d) \/ ConnCloseDoneCh(d) \/ ConnDelete(d)
             \/ ConnCheckFinal(d) \/ ConnWait(d) \/ ConnQueueClose(d)
      PROVE  P
  BY <1>5, ZenonT(30) DEF ConnClose, ConnCloseDoneCh, ConnDelete, ConnCheckFinal, ConnWait,
     ConnQueueClose
<1>6. CASE UNCHANGED <<cDone, qClosed, st>> BY <1>6
<1> QED BY <1>1, <1>2, <1>3, <1>4, <1>5, <1>6, DoneInvFrame

\* A socket that is no longer open has no open Conn, and none to come, unless
\* supConn.Close overtook an Accept.
LEMMA ClosedSocket ==
  ASSUME IndInv, TakenInv, CloserInv, ~lateAdd, sock # "open", NEW c \in ConnIds
  PROVE  st[c] \notin {"pending", "taken", "open"}
<1>1. connWG = 0 BY DEF CloserInv
<1>2. Cardinality(Open) = 0 /\ lcPc \in {"wait", "returned"}
  BY <1>1, OpenSize DEF IndInv, WaitGroupExact
<1>3. c \notin Open BY <1>2, OpenSize
<1>4. st[c] # "taken" BY <1>2, Zenon DEF TakenInv
<1>5. st[c] # "pending" BY <1>2 DEF IndInv, AcceptInv
<1> QED BY <1>3, <1>4, <1>5 DEF Open

\* Every step keeps a failed Write with a Conn that is no longer open.
LEMMA WriterStep ==
  ASSUME IndInv, LateAddInv, [Next]_vars PROVE WriterInv' /\ WriteHitsOpenSocket'
<1>1. /\ wr \in [ConnIds -> {"idle", "checked", "socketClosed", "ErrClosedSuperConn",
                             "DeadlineExceeded"}]
      /\ WriterInv /\ WriteHitsOpenSocket
  BY DEF IndInv, TypeOK, IoTypeOK, LateAddInv
<1>2. ASSUME NEW c \in ConnIds
      PROVE  /\ st[c] \in Held => st'[c] \in Held
             /\ st'[c] = "open" => st[c] \in {"taken", "open"}
  BY HeldStays
<1> DEFINE W == WriterInv' /\ WriteHitsOpenSocket'
<1>7. TakenInv /\ CloserInv /\ (lateAdd => lateAdd') BY LateAddStays DEF LateAddInv
<1>3. CASE UNCHANGED wr
  BY <1>1, <1>2, <1>3, <1>7 DEF WriterInv, WriteHitsOpenSocket
<1>4. ASSUME NEW c \in ConnIds, Write(c) PROVE W
  BY <1>1, <1>2, <1>4, <1>7 DEF WriterInv, WriteHitsOpenSocket, Write
<1>5. ASSUME NEW c \in ConnIds, WritePacket(c) PROVE W
  <2>1. sock # "open" => lateAdd \/ st[c] # "open" BY <1>7, ClosedSocket
  <2> QED BY <1>1, <1>5, <1>7, <2>1 DEF WriterInv, WriteHitsOpenSocket, WritePacket
<1>6. ASSUME NEW c \in ConnIds,
             \/ ConnQueueClose(c) \/ Read(c) \/ ReadPop(c) \/ ReadClosed(c)
             \/ ReadTimeout(c) \/ ReadRelease(c)
      PROVE  UNCHANGED wr
  BY <1>6, ZenonT(30) DEF ConnQueueClose, Read, ReadPop, ReadClosed, ReadTimeout, ReadFailed, ReadRelease
<1> QED BY <1>3, <1>4, <1>5, <1>6, IoFrame

\* The inductive invariant of the overlap of supConn.Close with Accepts.
THEOREM LateAddInvariance == Spec => []LateAddInv
<1>1. Init => LateAddInv
  BY DEF Init, LateAddInv, TakenInv, CloserInv, WriterInv, WriteHitsOpenSocket
<1>2. IndInv /\ LateAddInv /\ [Next]_vars => LateAddInv'
  BY TakenStep, CloserStays, WriterStep DEF LateAddInv
<1> QED BY <1>1, <1>2, Invariance, PTL DEF Spec

\* No goroutine panics unless supConn.Close called connWG.Done while an Accept
\* was between its receive and connWG.Add(1), whatever else Accepts, the
\* listener's Close and the Conns' Closes do at the same time.
THEOREM PanicsNeedLateAdd == Spec => []PanicNeedsLateAdd
<1>1. LateAddInv => PanicNeedsLateAdd BY DEF LateAddInv, CloserInv, PanicNeedsLateAdd
<1> QED BY <1>1, LateAddInvariance, PTL

\* Unless supConn.Close overtook an Accept in that way, Conn.Write finds the
\* shared socket closed only on a Conn the application itself has closed.
THEOREM WritesHitOpenSocket == Spec => []WriteHitsOpenSocket
<1>1. LateAddInv => WriteHitsOpenSocket BY DEF LateAddInv
<1> QED BY <1>1, LateAddInvariance, PTL

\* When the socket does not fail by itself, and unless supConn.Close overtook
\* an Accept in that way, the read loop and the socket outlive every Conn the
\* application holds or may still be given.
THEOREM ReadLoopOutlives ==
  ASSUME ~ReadErrors PROVE Spec => []OutlivesUnlessLateAdd
<1>1. Init => ReadLoopEndInv BY DEF Init, ReadLoopEndInv
<1>2. IndInv /\ ReadLoopEndInv /\ [Next]_vars => ReadLoopEndInv'
  <2> SUFFICES ASSUME IndInv, ReadLoopEndInv, [Next]_vars PROVE ReadLoopEndInv' OBVIOUS
  <2> USE DEF ReadLoopEndInv
  <2>1. CASE \/ ReadPacket \/ ReadFailsOpen \/ ReadFailsClosed \/ ReadLoopCloseReadDone
             \/ ReadLoopWGDone
    BY <2>1 DEF ReadPacket, ReadFailsOpen, ReadFailsClosed, ReadFails,
       ReadLoopCloseReadDone, ReadLoopWGDone, ReadLoopAt
  <2>2. CASE Lookup \/ SendAccept \/ SendExceeded \/ Insert \/ Push
    BY <2>2 DEF Lookup, SendAccept, SendExceeded, Insert, Push, DropPacket, ReadLoopAt
  <2>3. CASE CloserWait \/ CloserWoken \/ CloserClosing \/ CloserClosed \/ CloserDone
    BY <2>3 DEF CloserWait, CloserWoken, CloserClosing, CloserClosed, CloserDone
  <2>4. ASSUME \/ CloseDrain \/ CloseWGDone
               \/ \E c \in ConnIds : ConnClose(c) \/ ConnCloseDoneCh(c)
        PROVE  ReadLoopEndInv'
    BY <2>4 DEF CloseDrain, CloseWGDone, ConnClose, ConnCloseDoneCh
  <2>5. CASE UNCHANGED <<sock, src, rlVars, closer, panic>>
    BY <2>5
  <2> QED BY <2>1, <2>2, <2>3, <2>4, <2>5, RunFrame
<1>3. IndInv /\ LateAddInv /\ ReadLoopEndInv => OutlivesUnlessLateAdd
  BY ClosedSocket DEF LateAddInv, ReadLoopEndInv, ReadLoopOutlivesConns, OutlivesUnlessLateAdd
<1> QED BY <1>1, <1>2, <1>3, Invariance, LateAddInvariance, PTL DEF Spec
=============================================================================
