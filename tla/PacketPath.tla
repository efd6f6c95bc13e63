------------------------------ MODULE PacketPath -----------------------------
(****************************************************************************)
(* The way of a packet through a RawConn set up by SocketSetup: Write of a  *)
(* SingleAddrConn (Conn.Write does the same) hands it to WritePacket of an  *)
(* oobConn or a BasicConn, which adds control messages for the segment size *)
(* and the ECN mark; Read of the other end, set up the same way, finds the  *)
(* mark in the control messages of ReadPacket.  A call has no shared state  *)
(* before its system call and is one step.  The oobConn has a basicWriter;  *)
(* BatchWriter has the other one and BatchReader the batches of its reader. *)
(****************************************************************************)
EXTENDS SocketSetup

CONSTANTS
  Lens,       \* lengths of the packets written
  GsoSizes,   \* gsoSize arguments
  OobLens,    \* lengths of the oob buffers given to Read, see MsgSpace
  Uint16,     \* 2^16
  MaxWrites   \* bound on the calls of Write

ASSUME PathAssumption ==
  /\ Uint16 \in Nat \ {0, 1} /\ MaxWrites \in Nat
  /\ Lens \subseteq 1..(Uint16 - 1) /\ GsoSizes \subseteq Nat /\ OobLens \subseteq Nat

VARIABLES
  net,      \* datagrams under way, each with the call of Write that sent it
  got,      \* what the last Read returned, and for which datagram
  nWrites,  \* calls of Write so far
  fate,     \* of the program: "running", "exit" (os.Exit) or "panic"
  fatal     \* the call that ended it

endVars == <<fate, fatal>>
pathVars == <<net, got, nWrites, endVars>>
vars == <<setupVars, pathVars>>

\* types.ECN: 0 ECNUnsupported, 1 ECNNon, 2 ECT1, 3 ECT0, 4 ECNCE.
Ecns == 0..4
ECNUnsupported == 0
ECNNon == 1
ECNCE == 4

ToHeaderBits_Swapped(ecn) == <<0, 2, 1, 3>>[ecn]
\* It panics for ECNUnsupported, which WritePacket never passes.
ToHeaderBits(ecn) == <<0, 1, 2, 3>>[ecn]
ParseECNHeaderBits(bits) == CHOOSE ecn \in 1..4 : bits = <<0, 1, 2, 3>>[ecn]

NoCall == [len |-> 0, gso |-> 0, ecn |-> ECNUnsupported]
Packet(from, len, tos, call) ==
  [from |-> from, len |-> len, tos |-> tos, ce |-> FALSE, call |-> call]
Nothing == [res |-> "none", ecn |-> ECNUnsupported, oobLen |-> 0, p |-> Packet("peer", 0, 0, NoCall)]

Init == SetupInit /\ net = {} /\ got = Nothing /\ nWrites = 0 /\ fate = "running" /\ fatal = NoCall

Running == pc = "ready" /\ fate = "running"

-----------------------------------------------------------------------------
(* SingleAddrConn.Write and WritePacket *)

\* SingleAddrConn.addr: nil when WrapConnectedConn made it, as Dial does, else
\* the remote address given to WrapUnconnectedConn; for a Conn its rAddr.
Target == IF pconn.connected THEN "nil" ELSE "peer"

GsoSize_Uint8(call) == call.gso % 2
\* uint16(gsoSize)
GsoSize(call) == call.gso % Uint16

\* Does the socket take cc.Write and cc.Read, without address?
UsesConnected == raw.isConnected /\ Has("ReadWrite")

\* log.Log with PanicLevel calls os.Exit.
Exits(call) == fate' = "exit" /\ fatal' = call /\ UNCHANGED net
Panics(call) == fate' = "panic" /\ fatal' = call /\ UNCHANGED net

\* Lengths of the datagrams the kernel makes of len bytes.
Segments(len, segment) ==
  IF segment = 0 THEN {len}
  ELSE {IF i * segment <= len THEN segment ELSE len % segment :
          i \in 1..((len + segment - 1) \div segment)}

\* Value of the last of the control messages msgs that has the type, or 0.
Value(msgs, type) ==
  LET found == {i \in DOMAIN msgs : msgs[i].type = type}
  IN IF found = {} THEN 0 ELSE msgs[Max(found)].value

\* The kernel sends with the control messages oob.  A closed socket sends
\* nothing, and Write returns the error.
Sends(call, oob) ==
  /\ net' = IF open THEN net \cup {Packet("peer", len, Value(oob, pconn.peer), call) :
                                     len \in Segments(call.len, Value(oob, "segment"))}
            ELSE net
  /\ UNCHANGED endVars

\* AppendUDPSegmentSizeMsg
SegmentMsg(segment) == [type |-> "segment", value |-> segment]
\* appendIPv4ECNMsg (type "v4") and appendIPv6ECNMsg ("v6")
ECNMsg(version, ecn) == [type |-> version, value |-> ToHeaderBits(ecn)]

\* The ECN message needs a *net.UDPAddr, whose IP version it takes.
ControlMessages(call) ==
  (IF GsoSize(call) > 0 THEN <<SegmentMsg(GsoSize(call))>> ELSE <<>>)
  \o (IF call.ecn # ECNUnsupported /\ Target # "nil"
      THEN <<ECNMsg(pconn.peer, call.ecn)>> ELSE <<>>)

\* The call asks for what Capabilities() does not have.
Missing(call) ==
  \/ GsoSize(call) > 0 /\ "GSO" \notin raw.caps
  \/ call.ecn # ECNUnsupported /\ "ECN" \notin raw.caps

\* basicWriter.Write: on a connected socket cc.Write, which takes no control
\* messages, else WriteMsgUDP; addr.(*net.UDPAddr) panics on a nil address.
BasicWriterWrite(call) ==
  \/ UsesConnected /\ Sends(call, <<>>)
  \/ ~UsesConnected /\ (raw.isConnected \/ Target = "nil") /\ Panics(call)
  \/ ~raw.isConnected /\ Target # "nil" /\ Sends(call, ControlMessages(call))

\* oobConn.WritePacket
OOBWritePacket(call) ==
  raw.type = "oob" /\ IF Missing(call) THEN Exits(call) ELSE BasicWriterWrite(call)

\* BasicConn.WritePacket; WriteTo without an address returns an error.
BasicWritePacket(call) ==
  /\ raw.type = "basic"
  /\ IF GsoSize(call) # 0 \/ call.ecn # ECNUnsupported THEN Exits(call)
     ELSE IF UsesConnected \/ (~raw.isConnected /\ Target # "nil") THEN Sends(call, <<>>)
     ELSE UNCHANGED <<net, endVars>>

Write ==
  /\ Running /\ nWrites < MaxWrites /\ nWrites' = nWrites + 1
  /\ \E len \in Lens, gso \in GsoSizes, ecn \in Ecns :
       LET call == [len |-> len, gso |-> gso, ecn |-> ecn]
       IN OOBWritePacket(call) \/ BasicWritePacket(call)
  /\ UNCHANGED <<setupVars, got>>

-----------------------------------------------------------------------------
(* The network *)

Becomes(p, q) == net' = (net \ {p}) \cup {q}

\* A router sets CE on a packet of an ECN-capable transport ...
RouterMarks ==
  /\ Running
  /\ \E p \in net : p.tos % 4 \in {1, 2} /\ Becomes(p, [p EXCEPT !.tos = @ - (@ % 4) + 3, !.ce = TRUE])
  /\ UNCHANGED <<setupVars, got, nWrites, endVars>>
\* ... or changes the DSCP, the upper bits of the traffic class.
RouterSetsDSCP ==
  /\ Running /\ \E p \in net : p.tos < 4 /\ Becomes(p, [p EXCEPT !.tos = @ + 4])
  /\ UNCHANGED <<setupVars, got, nWrites, endVars>>

\* A packet from another address; a connected socket does not receive it.
ForeignPacket ==
  /\ Running /\ ~pconn.connected /\ \A p \in net : p.from = "peer"
  /\ net' = net \cup {Packet("other", 1, 2, NoCall)}
  /\ UNCHANGED <<setupVars, got, nWrites, endVars>>

-----------------------------------------------------------------------------
(* ReadPacket and SingleAddrConn.Read *)

\* Size of a control message, header included: a short buffer cuts one.
MsgSpace == 2

\* The control messages the kernel delivers with p.
Control(p) ==
  (IF <<"pi", pconn.peer>> \in ctlOn THEN <<[type |-> "pktinfo", value |-> 0]>> ELSE <<>>)
  \o (IF <<"ecn", pconn.peer>> \in ctlOn THEN <<[type |-> "tos", value |-> p.tos]>> ELSE <<>>)

\* body[0] & ecnMask
EcnBits(tos) == tos % 4

\* oobConn.ReadPacket: the control messages are copied to a buffer of length
\* oobLen and parsed one by one; parsing a message that was cut is an error.
OOBReadPacket(p, oobLen) ==
  LET msgs == Control(p)
      oobRead == IF oobLen < MsgSpace * Len(msgs) THEN oobLen ELSE MsgSpace * Len(msgs)
      parsed == SubSeq(msgs, 1, oobRead \div MsgSpace)
  IN IF oobRead % MsgSpace # 0 THEN [err |-> TRUE, addr |-> "nil", ecn |-> ECNNon]
     ELSE [err |-> FALSE, addr |-> p.from,
           ecn |-> IF \A i \in DOMAIN parsed : parsed[i].type # "tos" THEN ECNUnsupported
                   ELSE ParseECNHeaderBits(EcnBits(Value(parsed, "tos")))]

\* BasicConn.ReadPacket: a connected socket reports no address.
BasicReadPacket(p) ==
  [err |-> FALSE, addr |-> IF UsesConnected THEN "nil" ELSE p.from, ecn |-> ECNUnsupported]

Ignored_Never(addr) == FALSE
\* addr.String() != c.addr.String()
Ignored(addr) == addr # "nil" /\ Target # "nil" /\ addr # Target

\* A packet of another address is ignored: Read returns nothing and no error.
Read ==
  /\ Running /\ open
  /\ \E p \in net, oobLen \in OobLens :
       LET r == IF raw.type = "oob" THEN OOBReadPacket(p, oobLen) ELSE BasicReadPacket(p) IN
       /\ net' = net \ {p}
       /\ got' = IF Ignored(r.addr) THEN Nothing
                 ELSE [res |-> IF r.err THEN "error" ELSE "data",
                       ecn |-> r.ecn, oobLen |-> oobLen, p |-> p]
  /\ UNCHANGED <<setupVars, nWrites, endVars>>

-----------------------------------------------------------------------------
\* Set-up failed, the program ended or the connection was closed.
Quiescent == pc = "failed" \/ fate # "running" \/ (pc = "ready" /\ ~open)

Next ==
  \/ fate = "running" /\ SetupNext /\ UNCHANGED pathVars
  \/ Write \/ RouterMarks \/ RouterSetsDSCP \/ ForeignPacket \/ Read
  \/ (Quiescent \/ (pc = "ready" /\ net = {})) /\ UNCHANGED vars

Spec == Init /\ [][Next]_vars

-----------------------------------------------------------------------------
(* Properties *)

CallType == [len : 0..(Uint16 - 1), gso : GsoSizes \cup {0}, ecn : Ecns]
PacketType == [from : {"peer", "other"}, len : 0..(Uint16 - 1), tos : 0..7,
               ce : BOOLEAN, call : CallType]
\* Every variable of the set-up, the packets and the calls stays in its type.
TypeOK ==
  /\ SetupTypeOK
  /\ \A p \in net : p \in PacketType
  /\ got \in [res : {"none", "data", "error"}, ecn : Ecns, oobLen : OobLens \cup {0}, p : PacketType]
  /\ nWrites \in 0..MaxWrites /\ fate \in {"running", "exit", "panic"} /\ fatal \in CallType

\* What Read of a SingleAddrConn returns is true of the packet: data comes from
\* the connection's own remote address, and a mark that is reported is the one
\* in the packet's header, whatever its DSCP and however small the oob buffer.
ReadTruthful ==
  got.res = "data" =>
    /\ got.p.from = "peer"
    /\ got.ecn # ECNUnsupported => got.ecn = (got.p.tos % 4) + 1

\* Between unconnected sockets a mark given to Write arrives, in an oob buffer
\* that has room for it, as it was given, except that the network may have
\* turned ECT(0) or ECT(1) into CE: appendIPv4ECNMsg or appendIPv6ECNMsg,
\* ToHeaderBits, the socket options of newConn, ReadPacket's parsing and
\* ParseECNHeaderBits fit together wherever the system reports marks.
MarkArrives ==
  got.res = "data" /\ ~raw.isConnected /\ got.p.call.ecn # ECNUnsupported
    /\ pconn.peer \in Supported("ecn") /\ got.oobLen >= MsgSpace * Len(Control(got.p))
  => got.ecn = IF got.p.ce THEN ECNCE ELSE got.p.call.ecn

\* "gsoSize is the size of a single packet, or 0 to disable GSO"
\* (raw_conn.go): no datagram is longer than the gsoSize of its Write.
GSOHonoured == \A p \in net : p.call.gso > 0 => p.len <= p.call.gso

\* The same of the unconnected sockets, also when the conversion to uint16
\* turns a gsoSize beyond every packet into 0.
SegmentsHonoured == raw.isConnected \/ GSOHonoured

\* "It is invalid to set gsoSize if capabilities.GSO is not set"
\* (raw_conn.go), and the same of ECN: on a connection like net.UDPConn only
\* such a Write ends the program.  No other exits through log.Log or panics on
\* a missing address, since newConn and WrapConnectedConn agree on which
\* sockets are connected.
OnlyInvalidWritesFatal ==
  fate # "running" /\ {"RemoteAddr", "ReadWrite"} \subseteq pconn.methods =>
    \/ fatal.gso > 0 /\ "GSO" \notin raw.caps
    \/ fatal.ecn # ECNUnsupported /\ "ECN" \notin raw.caps
=============================================================================
