------------------------------ MODULE SuperConn ------------------------------
(****************************************************************************)
(* supConn (super.go) splits one UDP socket into one Conn (conn.go) per     *)
(* remote address.  Its goroutines are the read loop, the closer started    *)
(* by wrapConn, and the application's calls of Accept, supConn.Close and    *)
(* Conn.Read / Write / Close, which run concurrently.                       *)
(*                                                                          *)
(* Packets are numbered in the order ReadPacket returns them; src[n] is the *)
(* sender of packet n.  The Conn that newSubConn makes for packet n is      *)
(* named n, so its rAddr is src[n].  0 stands for "no Conn", "no packet".   *)
(****************************************************************************)
EXTENDS Integers, Sequences, FiniteSets

CONSTANTS
  Addrs,              \* remote addresses
  Acceptors,          \* goroutines that call Accept
  CfgBacklog,         \* ListenConfig.Backlog
  DefaultBacklog,     \* defaultListenBacklog (128 in defs.go)
  ViaListen,          \* TRUE: ListenConfig.Listen; FALSE: WrapListenConn
  ReceiveBacklog,     \* capacity of a Conn's queue (1024 in defs.go)
  MaxPackets,         \* bound on the packets the socket receives
  Readers, Writers,   \* Conns the application reads from / writes to
  Closers,            \* Conns the application closes
  ReadErrors,         \* may ReadPacket fail while the socket is open?
  Deadlines           \* which of "accept", "read", "write" deadlines may expire

ASSUME ConstantsAssumption ==
  /\ MaxPackets \in Nat /\ ReceiveBacklog \in Nat
  /\ CfgBacklog \in Nat /\ DefaultBacklog \in Nat
  /\ ViaListen \in BOOLEAN /\ ReadErrors \in BOOLEAN
  /\ Deadlines \subseteq {"accept", "read", "write"}
  /\ IsFiniteSet(Addrs)

Packets == 1..MaxPackets
ConnIds == Packets

VARIABLES
  \* supConn
  accepting, doneCh, acceptCh, conns, connLock, connWG, readWG,
  errClose, readDone,
  \* the socket below (types.RawConn) and what it has received
  sock, src,
  \* goroutines: read loop, closer, supConn.Close, callers of Accept
  rlPc, rlPkt, rlConn, closer, lcPc, lcN, lcErr, accPc, accConn,
  \* Conns: st is the life cycle of a Conn, Conn.Close's program counter
  \* included; cDone is its doneCh; ccN, ccErr are locals of its Close
  st, cDone, queue, qClosed, ccN, ccErr, rdPc, rdPkt, rdLast, rdRes, wr,
  \* packets whose buffers were Put back into bufPool / oobPool
  pooled,
  panic,
  \* history: supConn.Close called connWG.Done while an Accept was between its
  \* receive from acceptCh and connWG.Add(1)
  lateAdd

chanVars == <<accepting, doneCh, acceptCh, conns, connLock>>
wgVars   == <<connWG, closer, panic>>
errVars  == <<readWG, errClose, readDone>>
netVars  == <<sock, src>>
rlVars   == <<rlPc, rlPkt, rlConn>>
lcVars   == <<lcPc, lcN, lcErr, lateAdd>>
accVars  == <<accPc, accConn>>
ccVars   == <<ccN, ccErr>>
connVars == <<cDone, queue, qClosed, ccVars>>
rdVars   == <<rdPc, rdPkt, rdLast, rdRes>>
ioVars   == <<rdVars, wr, pooled>>
vars == <<chanVars, wgVars, errVars, netVars, rlVars, lcVars, accVars, connVars,
          ioVars, st>>

\* Program counters and locals: of the read loop, of supConn.Close, of a call
\* of Accept and of a call of Conn.Read (last is the packet read before it).
ReadLoopAt(pc, pkt, conn) == rlPc' = pc /\ rlPkt' = pkt /\ rlConn' = conn
CloseAt(pc, n, err) == lcPc' = pc /\ lcN' = n /\ lcErr' = err
AcceptAt(a, pc, conn) ==
  /\ accPc' = [accPc EXCEPT ![a] = pc] /\ accConn' = [accConn EXCEPT ![a] = conn]
ReadAt(c, pc, pkt, last, res) ==
  /\ rdPc' = [rdPc EXCEPT ![c] = pc]
  /\ rdPkt' = [rdPkt EXCEPT ![c] = pkt]
  /\ rdLast' = [rdLast EXCEPT ![c] = last]
  /\ rdRes' = [rdRes EXCEPT ![c] = res]

\* States of a Conn before its entry leaves supConn.conns.
Live == {"pending", "taken", "open", "wgDone", "doneClosed"}
\* States in which the application holds the Conn.
Closing == {"wgDone", "doneClosed", "deleted", "wait", "queueClose"}
Held == {"open", "closed"} \cup Closing

\* Variants named <definition>_<bug> are what a slip in the code would make of
\* the definition that follows them; they are used by no specification.

\* What make(chan *Conn, backlog) receives: Listen replaces 0 by the default,
\* WrapListenConn does not.
Backlog == IF ViaListen /\ CfgBacklog = 0 THEN DefaultBacklog ELSE CfgBacklog

NConns_OffByOne == Cardinality({a \in Addrs : conns[a] # 0}) - 1
\* len(l.conns)
NConns == Cardinality({a \in Addrs : conns[a] # 0})

Deleted_NoDelete(c) == conns
\* delete(l.conns, c.rAddr.String())
Deleted(c) == [conns EXCEPT ![src[c]] = 0]

ConnWGAdd_Missing == UNCHANGED connWG
\* sync.WaitGroup.Add(1) on connWG.
ConnWGAdd == connWG' = connWG + 1

ReadWGDone_Missing == UNCHANGED readWG
\* sync.WaitGroup.Done on readWG.
ReadWGDone == readWG' = readWG - 1

\* sync.WaitGroup.Done on connWG: at zero it releases the closer blocked in
\* Wait, below zero it panics.
ConnWGDone ==
  /\ connWG' = connWG - 1
  /\ closer' = IF connWG = 1 /\ closer = "blocked" THEN "woken" ELSE closer
  /\ panic' = IF connWG = 0 THEN "negativeCounter" ELSE panic

CloseConnDoneCh_Missing(c) == UNCHANGED <<cDone, panic>>
\* close(c.doneCh): closing a closed channel panics.
CloseConnDoneCh(c) ==
  /\ cDone' = [cDone EXCEPT ![c] = TRUE]
  /\ panic' = IF cDone[c] THEN "closedTwice" ELSE panic

WakeParked_Lost == UNCHANGED accVars
\* A channel is closed: the Accepts parked in their select return an error.
WakeParked ==
  /\ accPc' = [a \in Acceptors |-> IF accPc[a] = "parked" THEN "idle" ELSE accPc[a]]
  /\ UNCHANGED accConn

\* A panic in any goroutine ends the program.
Running == panic = "none"

IsFinal_OffByOne(n) == n = 1
IsFinal_Early(n) == n <= 1
\* "Wait if this is the final connection", in both Close methods.
IsFinal(n) == n = 0

Init ==
  /\ accepting = TRUE /\ doneCh = FALSE /\ acceptCh = <<>>
  /\ conns = [a \in Addrs |-> 0] /\ connLock = "free"
  /\ connWG = 1 /\ readWG = 2
  /\ errClose = FALSE /\ readDone = FALSE
  /\ sock = "open" /\ src = <<>>
  /\ rlPc = "read" /\ rlPkt = 0 /\ rlConn = 0
  /\ closer = "start"
  /\ lcPc = "idle" /\ lcN = 0 /\ lcErr = FALSE
  /\ accPc = [a \in Acceptors |-> "idle"] /\ accConn = [a \in Acceptors |-> 0]
  /\ st = [c \in ConnIds |-> "free"]
  /\ cDone = [c \in ConnIds |-> FALSE]
  /\ queue = [c \in ConnIds |-> <<>>] /\ qClosed = [c \in ConnIds |-> FALSE]
  /\ ccN = [c \in ConnIds |-> 0] /\ ccErr = [c \in ConnIds |-> FALSE]
  /\ rdPc = [c \in ConnIds |-> "idle"] /\ rdRes = [c \in ConnIds |-> "none"]
  /\ rdPkt = [c \in ConnIds |-> 0] /\ rdLast = [c \in ConnIds |-> 0]
  /\ wr = [c \in ConnIds |-> "idle"]
  /\ pooled = {} /\ panic = "none" /\ lateAdd = FALSE

-----------------------------------------------------------------------------
(* readLoop, dispatchMsg, getSubConn *)

\* ReadPacket returns a packet.  A batch read before the socket was closed
\* can still be returned while pConn.Close is running.
ReadPacket ==
  /\ Running /\ rlPc = "read" /\ sock # "closed" /\ Len(src) < MaxPackets
  /\ \E a \in Addrs : src' = Append(src, a)
  /\ ReadLoopAt("lookup", Len(src) + 1, 0)
  /\ UNCHANGED <<chanVars, wgVars, errVars, connVars, ioVars, sock, lcVars, accVars, st>>

\* ReadPacket fails: the loop stores errRead and returns.
ReadFails ==
  /\ Running /\ rlPc = "read"
  /\ ReadLoopAt("failed", 0, 0)
  /\ UNCHANGED <<chanVars, wgVars, errVars, connVars, ioVars, netVars, lcVars, accVars, st>>
ReadFailsOpen   == ReadErrors /\ sock = "open" /\ ReadFails
ReadFailsClosed == sock # "open" /\ ReadFails

\* Deferred close(readDoneCh): Accepts parked in their select return.
ReadLoopCloseReadDone ==
  /\ Running /\ rlPc = "failed"
  /\ readDone' = TRUE
  /\ WakeParked
  /\ ReadLoopAt("readDone", 0, 0)
  /\ UNCHANGED <<chanVars, wgVars, readWG, errClose, connVars, ioVars,
                 netVars, lcVars, st>>

\* Deferred readWG.Done().
ReadLoopWGDone ==
  /\ Running /\ rlPc = "readDone"
  /\ ReadWGDone
  /\ ReadLoopAt("ended", 0, 0)
  /\ UNCHANGED <<chanVars, wgVars, errClose, readDone, connVars, ioVars,
                 netVars, lcVars, accVars, st>>

\* dispatchMsg drops the packet: getSubConn returned no Conn.
DropPacket == ReadLoopAt("read", 0, 0)

MayCreate_Unchecked == TRUE
\* getSubConn's isAccepting check, made under connLock.
MayCreate == accepting

\* getSubConn up to its select: the lock, the lookup, the accepting flag and
\* the accept filter.
Lookup ==
  /\ Running /\ rlPc = "lookup" /\ connLock = "free"
  /\ LET c == conns[src[rlPkt]] IN
     \/ c # 0 /\ ReadLoopAt("push", rlPkt, c) /\ UNCHANGED connLock
     \/ c = 0 /\ DropPacket /\ UNCHANGED connLock  \* not accepting, or filtered out
     \/ /\ c = 0 /\ MayCreate
        /\ ReadLoopAt("send", rlPkt, 0) /\ connLock' = "readLoop"
  /\ UNCHANGED <<accepting, doneCh, acceptCh, conns, wgVars, errVars, connVars,
                 ioVars, netVars, lcVars, accVars, st>>

Parked == {a \in Acceptors : accPc[a] = "parked"}

\* getSubConn's select on acceptCh <- conn: a parked Accept takes the Conn at
\* once, else it is buffered.
SendAccept ==
  /\ Running /\ rlPc = "send"
  /\ \/ \E a \in Parked :
          /\ AcceptAt(a, "add", rlPkt)
          /\ st' = [st EXCEPT ![rlPkt] = "taken"]
          /\ UNCHANGED acceptCh
     \/ /\ Parked = {} /\ Len(acceptCh) < Backlog
        /\ acceptCh' = Append(acceptCh, rlPkt)
        /\ st' = [st EXCEPT ![rlPkt] = "pending"]
        /\ UNCHANGED accVars
  /\ ReadLoopAt("insert", rlPkt, rlPkt)
  /\ UNCHANGED <<accepting, doneCh, conns, connLock, wgVars, errVars, connVars,
                 ioVars, netVars, lcVars>>

\* The select's default: ErrListenQueueExceeded, the new Conn is dropped.
SendExceeded ==
  /\ Running /\ rlPc = "send" /\ Parked = {} /\ Len(acceptCh) >= Backlog
  /\ DropPacket /\ connLock' = "free"
  /\ UNCHANGED <<accepting, doneCh, acceptCh, conns, wgVars, errVars, connVars,
                 ioVars, netVars, lcVars, accVars, st>>

\* l.conns[rAddr] = conn, then the deferred unlock.
Insert ==
  /\ Running /\ rlPc = "insert"
  /\ conns' = [conns EXCEPT ![src[rlConn]] = rlConn]
  /\ connLock' = "free"
  /\ ReadLoopAt("push", rlPkt, rlConn)
  /\ UNCHANGED <<accepting, doneCh, acceptCh, wgVars, errVars, connVars, ioVars,
                 netVars, lcVars, accVars, st>>

Pushed_Front(q, p) == <<p>> \o q
\* Push appends to the ring.
Pushed(q, p) == Append(q, p)

\* conn.queue.Push (ringqueue, WhenFullError), outside the lock; its error is
\* ignored, so a full or closed queue drops the packet.
Push ==
  /\ Running /\ rlPc = "push"
  /\ queue' = IF qClosed[rlConn] \/ Len(queue[rlConn]) >= ReceiveBacklog THEN queue
              ELSE [queue EXCEPT ![rlConn] = Pushed(@, rlPkt)]
  /\ ReadLoopAt("read", 0, 0)
  /\ UNCHANGED <<chanVars, wgVars, errVars, cDone, qClosed, ccVars, ioVars, netVars,
                 lcVars, accVars, st>>

-----------------------------------------------------------------------------
(* wrapConn's closer goroutine: connWG.Wait, pConn.Close, readWG.Done *)

CloserWait ==
  /\ Running /\ closer = "start"
  /\ closer' = IF connWG = 0 THEN "close" ELSE "blocked"
  /\ UNCHANGED <<chanVars, connWG, panic, errVars, connVars, ioVars, netVars, rlVars,
                 lcVars, accVars, st>>

\* A released Wait panics when the counter was raised again before it returned.
CloserWoken ==
  /\ Running /\ closer = "woken"
  /\ closer' = "close"
  /\ panic' = IF connWG # 0 THEN "wgReused" ELSE panic
  /\ UNCHANGED <<chanVars, connWG, errVars, connVars, ioVars, netVars, rlVars, lcVars,
                 accVars, st>>

CloserClosing ==
  /\ Running /\ closer = "close"
  /\ closer' = "closing" /\ sock' = "closing"
  /\ UNCHANGED <<chanVars, connWG, panic, errVars, connVars, ioVars, src, rlVars, lcVars,
                 accVars, st>>

CloserClosed ==
  /\ Running /\ closer = "closing"
  /\ closer' = "closed" /\ sock' = "closed"
  /\ \E failed \in BOOLEAN : errClose' = failed
  /\ UNCHANGED <<chanVars, connWG, panic, readWG, readDone, connVars,
                 ioVars, src, rlVars, lcVars, accVars, st>>

CloserDone ==
  /\ Running /\ closer = "closed"
  /\ closer' = "ended" /\ ReadWGDone
  /\ UNCHANGED <<chanVars, connWG, panic, errClose, readDone, connVars,
                 ioVars, netVars, rlVars, lcVars, accVars, st>>

-----------------------------------------------------------------------------
(* supConn.Accept *)

\* The call of a returns.
Returned(a) == AcceptAt(a, "idle", 0)

\* The select when it is entered: any ready case may be taken; with none
\* ready the goroutine parks.
Accept(a) ==
  /\ Running /\ accPc[a] = "idle"
  /\ \/ /\ acceptCh # <<>>
        /\ acceptCh' = Tail(acceptCh)
        /\ st' = [st EXCEPT ![Head(acceptCh)] = "taken"]
        /\ AcceptAt(a, "add", Head(acceptCh))
     \/ /\ \/ (readDone \/ doneCh \/ "accept" \in Deadlines) /\ Returned(a)
           \/ acceptCh = <<>> /\ ~readDone /\ ~doneCh /\ AcceptAt(a, "parked", 0)
        /\ UNCHANGED <<acceptCh, st>>
  /\ UNCHANGED <<accepting, doneCh, conns, connLock, wgVars, errVars, connVars,
                 ioVars, netVars, rlVars, lcVars>>

AcceptTimeout(a) ==
  /\ Running /\ "accept" \in Deadlines /\ accPc[a] = "parked"
  /\ Returned(a)
  /\ UNCHANGED <<chanVars, wgVars, errVars, connVars, ioVars, netVars, rlVars, lcVars, st>>

\* connWG.Add(1) and the return of the Conn to the application.
AcceptAdd(a) ==
  /\ Running /\ accPc[a] = "add"
  /\ ConnWGAdd
  /\ st' = [st EXCEPT ![accConn[a]] = "open"]
  /\ Returned(a)
  /\ UNCHANGED <<chanVars, closer, panic, errVars, connVars, ioVars, netVars, rlVars, lcVars>>

-----------------------------------------------------------------------------
(* supConn.Close *)

CloseBegin ==
  /\ Running /\ lcPc = "idle"
  /\ accepting' = FALSE
  /\ CloseAt("closeDone", lcN, lcErr) /\ UNCHANGED lateAdd
  /\ UNCHANGED <<doneCh, acceptCh, conns, connLock, wgVars, errVars, connVars,
                 ioVars, netVars, rlVars, accVars, st>>

\* close(l.doneCh): Accepts parked in their select return an error.
CloseDoneCh ==
  /\ Running /\ lcPc = "closeDone"
  /\ doneCh' = TRUE
  /\ WakeParked
  /\ CloseAt("lock", lcN, lcErr) /\ UNCHANGED lateAdd
  /\ UNCHANGED <<accepting, acceptCh, conns, connLock, wgVars, errVars, connVars,
                 ioVars, netVars, rlVars, st>>

CloseLock ==
  /\ Running /\ lcPc = "lock" /\ connLock = "free"
  /\ connLock' = "Close"
  /\ CloseAt("drain", lcN, lcErr) /\ UNCHANGED lateAdd
  /\ UNCHANGED <<accepting, doneCh, acceptCh, conns, wgVars, errVars, connVars,
                 ioVars, netVars, rlVars, accVars, st>>

\* One turn of lclose: an unaccepted Conn is closed and forgotten.
CloseDrain ==
  /\ Running /\ lcPc = "drain" /\ acceptCh # <<>>
  /\ LET c == Head(acceptCh) IN
     /\ CloseConnDoneCh(c)
     /\ conns' = Deleted(c)
     /\ st' = [st EXCEPT ![c] = "drained"]
  /\ acceptCh' = Tail(acceptCh)
  /\ UNCHANGED <<accepting, doneCh, connLock, connWG, closer, errVars, queue,
                 qClosed, ccVars, ioVars, netVars, rlVars, lcVars, accVars>>

CloseDrained ==
  /\ Running /\ lcPc = "drain" /\ acceptCh = <<>>
  /\ connLock' = "free"
  /\ CloseAt("wgDone", NConns, lcErr) /\ UNCHANGED lateAdd
  /\ UNCHANGED <<accepting, doneCh, acceptCh, conns, wgVars, errVars, connVars,
                 ioVars, netVars, rlVars, accVars, st>>

\* An Accept has a Conn that connWG does not count yet.
Overtaken == \E a \in Acceptors : accPc[a] = "add"

CloseWGDone ==
  /\ Running /\ lcPc = "wgDone"
  /\ lateAdd' = Overtaken
  /\ ConnWGDone
  /\ CloseAt(IF IsFinal(lcN) THEN "wait" ELSE "returned", lcN, lcErr)
  /\ UNCHANGED <<chanVars, errVars, connVars, ioVars, netVars, rlVars, accVars, st>>

CloseWait ==
  /\ Running /\ lcPc = "wait" /\ readWG = 0
  /\ CloseAt("returned", lcN, errClose) /\ UNCHANGED lateAdd
  /\ UNCHANGED <<chanVars, wgVars, errVars, connVars, ioVars, netVars, rlVars, accVars, st>>

-----------------------------------------------------------------------------
(* Conn.Close *)

ConnClose(c) ==
  /\ Running /\ c \in Closers /\ st[c] = "open"
  /\ ConnWGDone
  /\ st' = [st EXCEPT ![c] = "wgDone"]
  /\ UNCHANGED <<chanVars, errVars, connVars, ioVars, netVars, rlVars, lcVars, accVars>>

ConnCloseDoneCh(c) ==
  /\ Running /\ st[c] = "wgDone"
  /\ CloseConnDoneCh(c)
  /\ st' = [st EXCEPT ![c] = "doneClosed"]
  /\ UNCHANGED <<chanVars, connWG, closer, errVars, queue, qClosed, ccVars, ioVars,
                 netVars, rlVars, lcVars, accVars>>

\* The critical section: delete(conns, rAddr) and len(conns).
ConnDelete(c) ==
  /\ Running /\ st[c] = "doneClosed" /\ connLock = "free"
  /\ conns' = Deleted(c)
  /\ ccN' = [ccN EXCEPT ![c] = NConns']
  /\ st' = [st EXCEPT ![c] = "deleted"]
  /\ UNCHANGED <<accepting, doneCh, acceptCh, connLock, wgVars, errVars, cDone,
                 queue, qClosed, ccErr, ioVars, netVars, rlVars, lcVars, accVars>>

ConnCheckFinal(c) ==
  /\ Running /\ st[c] = "deleted"
  /\ st' = [st EXCEPT ![c] = IF IsFinal(ccN[c]) /\ ~accepting THEN "wait" ELSE "queueClose"]
  /\ UNCHANGED <<chanVars, wgVars, errVars, connVars, ioVars, netVars, rlVars, lcVars, accVars>>

ConnWait(c) ==
  /\ Running /\ st[c] = "wait" /\ readWG = 0
  /\ ccErr' = [ccErr EXCEPT ![c] = errClose]
  /\ st' = [st EXCEPT ![c] = "queueClose"]
  /\ UNCHANGED <<chanVars, wgVars, errVars, cDone, queue, qClosed, ccN, ioVars, netVars,
                 rlVars, lcVars, accVars>>

\* queue.Close: onQueueClose puts the buffers of every queued packet back.
QueuedIn(c) == {queue[c][i] : i \in 1..Len(queue[c])}
ConnQueueClose(c) ==
  /\ Running /\ st[c] = "queueClose"
  /\ pooled' = pooled \cup QueuedIn(c)
  /\ queue' = [queue EXCEPT ![c] = <<>>]
  /\ qClosed' = [qClosed EXCEPT ![c] = TRUE]
  /\ st' = [st EXCEPT ![c] = "closed"]
  /\ UNCHANGED <<chanVars, wgVars, errVars, cDone, ccVars, rdVars, wr, netVars, rlVars, lcVars, accVars>>

-----------------------------------------------------------------------------
(* Conn.Read: queue.Pop (ringqueue, WhenEmptyBlock), copy, release buffers *)

Read(c) ==
  /\ Running /\ c \in Readers /\ st[c] \in Held /\ rdPc[c] = "idle"
  /\ ReadAt(c, "pop", 0, rdLast[c], "none")
  /\ UNCHANGED <<chanVars, wgVars, errVars, connVars, wr, pooled, netVars, rlVars, lcVars,
                 accVars, st>>

Popped_Kept(q) == q
\* Pop removes the oldest packet.
Popped(q) == Tail(q)

ReadPop(c) ==
  /\ Running /\ rdPc[c] = "pop" /\ queue[c] # <<>>
  /\ ReadAt(c, "copy", Head(queue[c]), rdLast[c], "none")
  /\ queue' = [queue EXCEPT ![c] = Popped(@)]
  /\ UNCHANGED <<chanVars, wgVars, errVars, cDone, qClosed, ccVars, wr, pooled,
                 netVars, rlVars, lcVars, accVars, st>>

\* Pop fails; Read maps the error to io.EOF when doneCh is closed.
ReadFailed(c, err) ==
  /\ Running /\ rdPc[c] = "pop"
  /\ ReadAt(c, "idle", 0, rdLast[c], IF cDone[c] THEN "EOF" ELSE err)
  /\ UNCHANGED <<chanVars, wgVars, errVars, connVars, wr, pooled, netVars, rlVars, lcVars,
                 accVars, st>>
ReadClosed(c)  == qClosed[c] /\ ReadFailed(c, "queueClosed")
ReadTimeout(c) == "read" \in Deadlines /\ ReadFailed(c, "DeadlineExceeded")

ReadRelease(c) ==
  /\ Running /\ rdPc[c] = "copy"
  /\ pooled' = pooled \cup {rdPkt[c]}
  /\ ReadAt(c, "idle", 0, rdPkt[c], "none")
  /\ UNCHANGED <<chanVars, wgVars, errVars, connVars, wr, netVars, rlVars, lcVars, accVars, st>>

-----------------------------------------------------------------------------
(* Conn.Write: checkWriteDeadline, then WritePacket on the shared socket *)

Write(c) ==
  /\ Running /\ c \in Writers /\ st[c] \in Held /\ wr[c] # "checked"
  /\ \E r \in {"checked", "ErrClosedSuperConn", "DeadlineExceeded"} :
       /\ r = "checked" => ~cDone[c]
       /\ r = "ErrClosedSuperConn" => cDone[c]
       /\ r = "DeadlineExceeded" => "write" \in Deadlines
       /\ wr' = [wr EXCEPT ![c] = r]
  /\ UNCHANGED <<chanVars, wgVars, errVars, connVars, rdVars, pooled, netVars, rlVars, lcVars,
                 accVars, st>>

WritePacket(c) ==
  /\ Running /\ wr[c] = "checked"
  /\ wr' = [wr EXCEPT ![c] = IF sock = "open" THEN "idle" ELSE "socketClosed"]
  /\ UNCHANGED <<chanVars, wgVars, errVars, connVars, rdVars, pooled, netVars, rlVars, lcVars,
                 accVars, st>>

-----------------------------------------------------------------------------
\* The steps each goroutine takes by itself once started.
ReadLoopStep == \/ ReadFailsClosed \/ ReadLoopCloseReadDone \/ ReadLoopWGDone
                \/ Lookup \/ SendAccept \/ SendExceeded \/ Insert \/ Push
CloserStep == CloserWait \/ CloserWoken \/ CloserClosing \/ CloserClosed \/ CloserDone
CloseStep == \/ CloseDoneCh \/ CloseLock \/ CloseDrain \/ CloseDrained
             \/ CloseWGDone \/ CloseWait
ConnCloseStep(c) == \/ ConnCloseDoneCh(c) \/ ConnDelete(c) \/ ConnCheckFinal(c)
                    \/ ConnWait(c) \/ ConnQueueClose(c)
ReadStep(c) == ReadPop(c) \/ ReadClosed(c) \/ ReadRelease(c)
\* What the network and the application may do, or not.
Environment ==
  \/ ReadPacket \/ ReadFailsOpen \/ CloseBegin
  \/ \E a \in Acceptors : Accept(a) \/ AcceptTimeout(a)
  \/ \E c \in ConnIds : ConnClose(c) \/ Read(c) \/ ReadTimeout(c) \/ Write(c)

\* Everything is closed and every call has returned.
Quiescent ==
  /\ lcPc = "returned" /\ rlPc = "ended" /\ closer = "ended"
  /\ \A a \in Acceptors : accPc[a] = "idle"
  /\ \A c \in ConnIds : /\ st[c] \in {"free", "drained", "closed"}
                        /\ rdPc[c] = "idle" /\ wr[c] # "checked"

Next ==
  \/ ReadLoopStep \/ CloserStep \/ CloseStep \/ Environment
  \/ \E a \in Acceptors : AcceptAdd(a)
  \/ \E c \in ConnIds : ConnCloseStep(c) \/ ReadStep(c) \/ WritePacket(c)
  \/ (Quiescent \/ ~Running) /\ UNCHANGED vars

Spec == Init /\ [][Next]_vars

\* A running goroutine is eventually scheduled; sync.Mutex does not starve a
\* waiter, hence strong fairness where connLock is taken.
Fairness ==
  /\ SF_vars(ReadLoopStep) /\ WF_vars(CloserStep) /\ SF_vars(CloseStep)
  /\ \A a \in Acceptors : WF_vars(AcceptAdd(a))
  /\ \A c \in ConnIds : /\ SF_vars(ConnCloseStep(c))
                        /\ WF_vars(ReadStep(c))
FairSpec == Spec /\ Fairness

\* The same when the application eventually closes the listener and every
\* Conn it was given.
AppCloses == /\ WF_vars(CloseBegin)
             /\ \A c \in ConnIds : WF_vars(ConnClose(c))
ClosingSpec == FairSpec /\ AppCloses

-----------------------------------------------------------------------------
(* Properties *)

SuperTypeOK ==
  /\ accepting \in BOOLEAN /\ doneCh \in BOOLEAN
  /\ acceptCh \in Seq(ConnIds)
  /\ conns \in [Addrs -> 0..MaxPackets]
  /\ connLock \in {"free", "readLoop", "Close"}
  /\ connWG \in Int /\ readWG \in Int
  /\ errClose \in BOOLEAN /\ readDone \in BOOLEAN
RunTypeOK ==
  /\ sock \in {"open", "closing", "closed"}
  /\ src \in Seq(Addrs) /\ Len(src) <= MaxPackets
  /\ rlPc \in {"read", "lookup", "send", "insert", "push", "failed", "readDone", "ended"}
  /\ rlPkt \in 0..MaxPackets /\ rlConn \in 0..MaxPackets
  /\ closer \in {"start", "blocked", "woken", "close", "closing", "closed", "ended"}
  /\ panic \in {"none", "negativeCounter", "closedTwice", "wgReused"}
CallTypeOK ==
  /\ lcPc \in {"idle", "closeDone", "lock", "drain", "wgDone", "wait", "returned"}
  /\ lcN \in Nat /\ lcErr \in BOOLEAN /\ lateAdd \in BOOLEAN
  /\ accPc \in [Acceptors -> {"idle", "parked", "add"}]
  /\ accConn \in [Acceptors -> 0..MaxPackets]
ConnTypeOK ==
  /\ st \in [ConnIds -> Live \cup Held \cup {"free", "drained"}]
  /\ cDone \in [ConnIds -> BOOLEAN] /\ qClosed \in [ConnIds -> BOOLEAN]
  /\ queue \in [ConnIds -> Seq(Packets)]
  /\ ccN \in [ConnIds -> Nat] /\ ccErr \in [ConnIds -> BOOLEAN]
IoTypeOK ==
  /\ rdPc \in [ConnIds -> {"idle", "pop", "copy"}]
  /\ rdPkt \in [ConnIds -> 0..MaxPackets] /\ rdLast \in [ConnIds -> 0..MaxPackets]
  /\ \A c \in ConnIds : rdPc[c] = "copy" => rdPkt[c] # 0
  /\ rdRes \in [ConnIds -> {"none", "EOF", "queueClosed", "DeadlineExceeded"}]
  /\ wr \in [ConnIds -> {"idle", "checked", "socketClosed",
                         "ErrClosedSuperConn", "DeadlineExceeded"}]
  /\ pooled \subseteq Packets

\* Every variable of supConn, the Conns and their goroutines stays in its type.
TypeOK == SuperTypeOK /\ RunTypeOK /\ CallTypeOK /\ ConnTypeOK /\ IoTypeOK

\* Conns that Accept returned and whose Close has not called connWG.Done.
Open == {c \in ConnIds : st[c] = "open"}

\* connWG counts exactly the accepted Conns not yet closed, plus the
\* listener until supConn.Close has called connWG.Done: no path of Accept,
\* Conn.Close and supConn.Close counts a Conn twice or forgets one.
WaitGroupExact ==
  connWG = Cardinality(Open) + (IF lcPc \in {"wait", "returned"} THEN 0 ELSE 1)

\* connWG never goes negative and no Conn's doneCh is closed twice, although
\* supConn.Close (unaccepted Conns) and Conn.Close (accepted ones) both close
\* doneCh and race for Conns through acceptCh.
CloseOnlyOnce == panic \notin {"negativeCounter", "closedTwice"}

\* "Any blocked Accept operations will be unblocked and return errors"
\* (super.go): an Accept that supConn.Close overtakes does not end the program.
NoPanic == panic = "none"

\* The program panics only if supConn.Close calls connWG.Done while an Accept
\* is between its receive and connWG.Add(1).  Every other overlap of the two is
\* harmless, Accepts parked in their select or called after Close included:
\* nobody raises connWG between its fall to zero and the return of the closer's
\* Wait.
PanicNeedsLateAdd == panic # "none" => lateAdd

\* supConn.conns routes an address to a Conn exactly while that Conn is alive:
\* no second Conn for an address while one is live (also while the read loop
\* is between its send on acceptCh and the insertion), and a Conn being closed
\* never removes the entry of a successor with the same address.
RoutingTableExact ==
  /\ \A a \in Addrs : conns[a] # 0 => src[conns[a]] = a /\ st[conns[a]] \in Live
  /\ \A c \in ConnIds : st[c] \in Live =>
       conns[src[c]] = c \/ (rlPc = "insert" /\ rlConn = c /\ conns[src[c]] = 0)

\* "Unaccepted connections must be closed by supConn.Close()" (conn_test.go):
\* once the drain of acceptCh is over no Conn is waiting there and the read
\* loop can add none, since getSubConn checks accepting under connLock.
NoConnStranded ==
  lcPc \in {"wgDone", "wait", "returned"} =>
    /\ acceptCh = <<>> /\ rlPc \notin {"send", "insert"}
    /\ \A c \in ConnIds : st[c] # "pending"

\* supConn.Close waits for the goroutines only as the last closer: while it
\* waits no Conn is accepted, open or still in the table.
ListenerWaitIsFinal ==
  lcPc = "wait" => \A c \in ConnIds : st[c] \notin Live

\* "Wait if this is the final connection" (conn.go) is decided on a count taken
\* under connLock and an accepting flag read after the unlock: the count misses
\* a Conn only if that one was created later, so Conn.Close never waits for a
\* Conn that was there before it.
ConnWaitMissesOnlyLater ==
  \A c \in ConnIds : st[c] = "wait" => \A d \in Open : d > c

\* An error of pConn.Close is returned by supConn.Close or by some Conn.Close
\* once all of them have returned: the last closer waits for the socket.
CloseErrReported ==
  (errClose /\ lcPc = "returned" /\ \A c \in ConnIds : st[c] \in {"free", "drained", "closed"})
    => lcErr \/ \E c \in ConnIds : ccErr[c]

\* When supConn.Close and every Conn.Close have returned, the read loop and
\* the closer goroutine have ended and the socket is closed: nothing leaks.
NoGoroutineLeak ==
  (lcPc = "returned" /\ panic = "none"
    /\ \A c \in ConnIds : st[c] \in {"free", "drained", "closed"}
    /\ \A a \in Acceptors : accPc[a] # "add")
    => rlPc = "ended" /\ closer = "ended" /\ sock = "closed"

\* "It can therefore not be ended until all Conns are closed" (super.go): while
\* the application holds a Conn it has not closed, or may still be given one,
\* the read loop runs and the socket is open.
ReadLoopOutlivesConns ==
  (\E c \in ConnIds : st[c] \in {"pending", "taken", "open"})
    => rlPc \notin {"failed", "readDone", "ended"} /\ sock = "open"

\* supConn.Close overtaking an Accept between its receive and connWG.Add(1) is
\* the only way to break that promise: however else Accepts, supConn.Close and
\* the Conn.Closes interleave, the closer passes connWG.Wait last.
OutlivesUnlessLateAdd == lateAdd \/ ReadLoopOutlivesConns

\* A Write that passed checkWriteDeadline finds the shared socket closed only
\* if the application closed this very Conn in the meantime, or if
\* supConn.Close overtook an Accept as above.
WriteHitsOpenSocket ==
  lateAdd \/ \A c \in ConnIds : wr[c] = "socketClosed" => st[c] # "open"

\* Demultiplexing: a Conn's queue, the packet being read and the packet last
\* read all come from the Conn's own address, in the order of arrival, without
\* duplicates, and none is older than the packet that created the Conn.
Demultiplexed ==
  /\ rlPc = "push" => src[rlConn] = src[rlPkt] /\ rlConn <= rlPkt
  /\ \A c \in ConnIds :
       LET s == (IF rdLast[c] = 0 THEN <<>> ELSE <<rdLast[c]>>)
                \o (IF rdPkt[c] = 0 THEN <<>> ELSE <<rdPkt[c]>>) \o queue[c]
       IN \A i \in 1..Len(s) : /\ src[s[i]] = src[c] /\ s[i] >= c
                               /\ i > 1 => s[i-1] < s[i]

\* A buffer in bufPool is in no other hand: not queued on a Conn, not being
\* copied by Read, not being dispatched by the read loop.
BufferExclusive ==
  /\ rlPkt \notin pooled
  /\ \A c \in ConnIds : rdPkt[c] \notin pooled /\ QueuedIn(c) \cap pooled = {}

\* A Read released by Close sees io.EOF and never the queue's own error:
\* Close closes doneCh before the queue.
ReleasedReadIsEOF == \A c \in ConnIds : rdRes[c] # "queueClosed"

\* A Conn that left the table (Conn.Close's delete, the drain of supConn.Close)
\* never returns: no step routes to it, hands it to Accept or opens it again.
ConnsDieOnce ==
  [][\A c \in ConnIds : st[c] \notin Live \cup {"free"} =>
       st'[c] \notin Live /\ (\A a \in Addrs : conns'[a] # c)]_vars

\* supConn.Close returns, if the application closes the Conns it accepted.
ListenerCloseReturns == lcPc = "closeDone" ~> lcPc = "returned" \/ ~Running

\* Conn.Close returns, if the application closes the listener and its Conns.
ConnCloseReturns == \A c \in ConnIds : st[c] = "wgDone" ~> st[c] = "closed" \/ ~Running

\* Close "releases any Read calls" (conn.go).
ReadReleased == \A c \in ConnIds :
  (rdPc[c] = "pop" /\ st[c] \in Closing) ~> rdPc[c] # "pop" \/ ~Running

\* "Any blocked Accept operations will be unblocked" (super.go).
AcceptUnblocked == \A a \in Acceptors :
  (accPc[a] = "parked" /\ lcPc # "idle") ~> accPc[a] # "parked"
=============================================================================
