---------------------------- MODULE SuperConnInv ----------------------------
(* The inductive invariants behind the theorems about SuperConn.  IndInv is   *)
(* proved in SuperConnProofs; ShutdownInv, OnlyLaterInv and LateAddInv in     *)
(* SuperConnShutdownProofs and QueueInv in SuperConnQueueProofs build on it. *)
EXTENDS SuperConn

\* The read loop works on the packet received last; no Conn has the number
\* of a packet that has not been turned into one.
ReadLoopInv ==
  /\ rlPc \in {"lookup", "send", "insert", "push"} => rlPkt = Len(src) /\ Len(src) > 0
  /\ rlPc = "insert" => rlConn = rlPkt
  /\ rlPc = "push" => rlConn \in 1..Len(src)
  /\ \A c \in ConnIds : st[c] # "free" =>
       c <= Len(src) /\ (rlPc \in {"lookup", "send"} => c # rlPkt)

\* connLock is held by whoever is inside the critical section, and getSubConn
\* creates Conns only before the drain.
LockInv ==
  /\ connLock = "readLoop" <=> rlPc \in {"send", "insert"}
  /\ connLock = "Close" <=> lcPc = "drain"
  /\ accepting <=> lcPc = "idle"
  /\ rlPc \in {"send", "insert"} => lcPc \in {"idle", "closeDone", "lock"}

\* The table and the live Conns agree; the slot the read loop is about to fill
\* is empty and the Conn it is about to enter is live.
TableInv ==
  /\ RoutingTableExact
  /\ rlPc \in {"send", "insert"} => conns[src[rlPkt]] = 0
  /\ rlPc = "insert" => st[rlConn] \in Live

\* acceptCh holds every pending Conn once; an Accept between its receive and
\* connWG.Add(1) owns the Conn it took.
AcceptInv ==
  /\ \A i \in 1..Len(acceptCh) : st[acceptCh[i]] = "pending"
  /\ \A i, j \in 1..Len(acceptCh) : acceptCh[i] = acceptCh[j] => i = j
  /\ \A c \in ConnIds : st[c] = "pending" => \E i \in 1..Len(acceptCh) : acceptCh[i] = c
  /\ \A a \in Acceptors : accPc[a] = "add" =>
       /\ accConn[a] \in ConnIds /\ st[accConn[a]] = "taken"
       /\ \A b \in Acceptors : accPc[b] = "add" /\ accConn[b] = accConn[a] => a = b
  /\ lcPc \in {"wgDone", "wait", "returned"} => acceptCh = <<>>

\* doneCh and the queue of a Conn are closed at their places in its life cycle.
DoneInv ==
  \A c \in ConnIds :
    /\ cDone[c] <=> st[c] \in {"doneClosed", "deleted", "wait", "queueClose", "closed", "drained"}
    /\ qClosed[c] <=> st[c] = "closed"

\* supConn.Close that found the table empty is alone.
FinalInv ==
  lcPc = "wait" \/ (lcPc = "wgDone" /\ lcN = 0) =>
    \A c \in ConnIds : st[c] \notin Live

\* The induction hypothesis: all of the above, the exact WaitGroup count and
\* no panic but the reuse of connWG.
IndInv ==
  /\ TypeOK /\ ReadLoopInv /\ LockInv /\ TableInv /\ AcceptInv /\ DoneInv
  /\ FinalInv /\ WaitGroupExact /\ CloseOnlyOnce
-----------------------------------------------------------------------------
(* The end of a supConn: who waits for its goroutines. *)

\* readWG counts the read loop and the closer goroutine; the closer closes the
\* socket before it calls readWG.Done.
ReadWaitGroupInv ==
  /\ readWG = (IF rlPc = "ended" THEN 0 ELSE 1) + (IF closer = "ended" THEN 0 ELSE 1)
  /\ closer \in {"closed", "ended"} => sock = "closed"

\* Conn.Close found the table empty: it waits, or will if the listener is closed.
FoundEmpty(c) == st[c] = "wait" \/ (st[c] = "deleted" /\ ccN[c] = 0)

\* c answers for the end of the goroutines: its Close is still to take its
\* count, found the table empty, or has waited and holds the socket's error.
Answers(c) ==
  \/ st[c] \in Live \/ FoundEmpty(c)
  \/ st[c] \in {"queueClose", "closed"} /\ readWG = 0 /\ ccErr[c] = errClose

\* Once supConn.Close has taken its count, either it was the last one and waits
\* itself or some Conn answers for the end of the goroutines.
ShutdownInv ==
  /\ ReadWaitGroupInv
  /\ lcPc = "wait" => lcN = 0
  /\ lcPc = "returned" /\ lcN = 0 => readWG = 0 /\ lcErr = errClose
  /\ lcPc \in {"wgDone", "returned"} /\ lcN # 0 => \E c \in ConnIds : Answers(c)

\* The Conns that are alive when a Conn's Close has found the table empty were
\* created after it.
OnlyLaterInv ==
  \A c, d \in ConnIds : FoundEmpty(c) /\ st[d] \in Live => c < d

-----------------------------------------------------------------------------
(* supConn.Close does not overtake an Accept between its receive from acceptCh *)
(* and connWG.Add(1): ~lateAdd.                                                *)

\* A Conn taken from acceptCh belongs to an Accept about to count it.  Once
\* supConn.Close has called connWG.Done, such an Accept is one it overtook: the
\* drain has left no Conn to take.
TakenInv ==
  /\ \A c \in ConnIds : st[c] = "taken" =>
       \E a \in Acceptors : accPc[a] = "add" /\ accConn[a] = c
  /\ lateAdd => lcPc \in {"wait", "returned"}
  /\ ~lateAdd /\ lcPc \in {"wait", "returned"} => \A a \in Acceptors : accPc[a] # "add"

\* Only the closer closes the socket, and unless supConn.Close overtook an
\* Accept it passes connWG.Wait only when the listener and every accepted Conn
\* are closed.
CloserInv ==
  /\ sock = "open" <=> closer \notin {"closing", "closed", "ended"}
  /\ ~lateAdd => /\ closer \notin {"start", "blocked"} => connWG = 0
                 /\ panic = "none"

\* Only a Conn the application holds is written to.
WriterInv == \A c \in ConnIds : wr[c] # "idle" => st[c] \in Held

LateAddInv == TakenInv /\ CloserInv /\ WriterInv /\ WriteHitsOpenSocket

\* With no read error, the read loop ends only after the socket is closed.
ReadLoopEndInv == rlPc \in {"failed", "readDone", "ended"} => sock # "open"

-----------------------------------------------------------------------------
(* Where the packets are. *)

\* Conn c holds packet p: queued, or popped by a Read that is copying it.
Holds(c, p) == \/ p # 0 /\ p = rdPkt[c]
               \/ \E i \in 1..Len(queue[c]) : queue[c][i] = p

\* The read loop has a packet in hand exactly while it dispatches one, and
\* pushes it to a Conn of its sender; Read has one while it copies.
DispatchInv ==
  /\ rlPkt = 0 <=> rlPc \in {"read", "failed", "readDone", "ended"}
  /\ rlPc = "push" => src[rlConn] = src[rlPkt] /\ st[rlConn] # "free"
  /\ \A c \in ConnIds : rdPkt[c] # 0 <=> rdPc[c] = "copy"

\* A packet is in one place: with one Conn of its sender, at the read loop, or
\* its buffers are in the pool.
HeldInv ==
  /\ \A c \in ConnIds, p \in Packets : Holds(c, p) =>
       /\ p \in c..Len(src) /\ src[p] = src[c]
       /\ p # rlPkt /\ p \notin pooled
       /\ \A d \in ConnIds : Holds(d, p) => d = c
  /\ \A p \in pooled : p <= Len(src) /\ p # rlPkt

\* A Conn's packets are in the order of arrival.
OrderInv ==
  \A c \in ConnIds :
    /\ \A i, j \in 1..Len(queue[c]) : i < j => queue[c][i] < queue[c][j]
    /\ \A i \in 1..Len(queue[c]) : rdPkt[c] < queue[c][i]
    /\ \A p \in Packets : Holds(c, p) => rdLast[c] < p
    /\ rdLast[c] # 0 => /\ rdLast[c] \in c..Len(src) /\ src[rdLast[c]] = src[c]
                        /\ rdLast[c] # rlPkt

QueueInv == DispatchInv /\ HeldInv /\ OrderInv

\* s are packets of Conn c's sender from the one that created c on, in the
\* order of arrival, each once.
InOrder(c, s) ==
  \A i \in 1..Len(s) : src[s[i]] = src[c] /\ s[i] >= c /\ (i > 1 => s[i-1] < s[i])
=============================================================================
