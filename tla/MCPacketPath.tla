---------------------------- MODULE MCPacketPath -----------------------------
(* Model-checking instances of PacketPath: the hosts and connections that     *)
(* set-up tells apart.                                                        *)
EXTENDS PacketPath, TLC

Host(os, release, major) ==
  [os |-> os, release |-> release, major |-> major, noGSO |-> FALSE, noECN |-> FALSE,
   segment |-> os = "linux", opts |-> {"df", "ecn", "pi"} \X Families]
Linux5 == Host("linux", <<5, Dot, 1, 5>>, 5)
MCHosts == {
  Linux5, Host("linux", <<4, Dot, 9>>, 4), Host("linux", <<1, 0, Other>>, 10),
  [Linux5 EXCEPT !.noGSO = TRUE, !.noECN = TRUE],
  [Linux5 EXCEPT !.segment = FALSE],
  [Linux5 EXCEPT !.opts = {"ecn", "pi"} \X Families],
  [Linux5 EXCEPT !.opts = {"df", "ecn"} \X Families],
  [Linux5 EXCEPT !.opts = {"df", "pi"} \X Families],
  [Linux5 EXCEPT !.opts = {"df", "ecn", "pi"} \X {"v6"}],
  Host("darwin", <<1, 9, Dot, 6>>, 19), Host("darwin", <<2, 3, Dot>>, 23),
  Host("darwin", <<2, 4, Dot, 0>>, 24), Host("darwin", <<Other, 2, 4, Dot>>, 24),
  Host("windows", <<>>, 0), Host("freebsd", <<>>, 0)}

ASSUME VersionsAssumption == VersionsParsed

PConn(methods, connected, stack, peer, any) ==
  [methods |-> methods, connected |-> connected, stack |-> stack, peer |-> peer, any |-> any]
Oob == {"SetReadBuffer", "SyscallConn", "UDPAddr", "OOB"}
Udp == Oob \cup {"SetWriteBuffer", "RemoteAddr", "ReadWrite"}
MCPConns == {
  PConn(Udp, TRUE, {"v4"}, "v4", FALSE), PConn(Udp, FALSE, {"v4", "v6"}, "v4", TRUE),
  PConn(Udp, FALSE, {"v6"}, "v6", FALSE),
  PConn(Oob, FALSE, {"v4"}, "v4", FALSE), PConn(Oob, TRUE, {"v4"}, "v4", FALSE),
  PConn(Udp \ {"UDPAddr", "OOB"}, TRUE, {"v4"}, "v4", FALSE),
  PConn({"SetReadBuffer"}, FALSE, {"v4"}, "v4", FALSE),
  PConn(Oob \cup {"SyscallFails"}, FALSE, {"v4"}, "v4", FALSE)}
=============================================================================
