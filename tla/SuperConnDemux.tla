--------------------------- MODULE SuperConnDemux ----------------------------
(* SuperConn implements Demux.                                                *)
EXTENDS SuperConn

\* A Conn is up from the send on acceptCh, which may hand it to an Accept at
\* once, until its entry leaves supConn.conns.
Phase(c) ==
  IF st[c] = "free" THEN "none"
  ELSE IF st[c] \in Live THEN "up"
  ELSE IF qClosed[c] THEN "discarded" ELSE "down"

D == INSTANCE Demux WITH
       arrived <- rlPkt # 0, phase <- [c \in ConnIds |-> Phase(c)], inbox <- queue

\* The read loop, getSubConn, dispatchMsg, Conn.Read, Conn.Close and the drain
\* in supConn.Close, interleaved in every way, do to the packets what Demux
\* allows: each step is a step of Demux or changes nothing there.
ImplementsDemux == D!Spec
=============================================================================
