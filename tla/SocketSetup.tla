----------------------------- MODULE SocketSetup -----------------------------
(****************************************************************************)
(* raw.WrapConn turns a net.PacketConn into a types.RawConn: it enlarges    *)
(* the kernel's buffers (SetReceiveBuffer, SetSendBuffer), sets the Don't   *)
(* Fragment option (setDF), activates control messages and records what     *)
(* the socket can do (newConn).  ConnConfig.Dial makes a socket, gives it   *)
(* the configured buffer sizes and wraps it.  Each system call is a step;   *)
(* a caller of WrapConn may close its connection between any two of them.   *)
(****************************************************************************)
EXTENDS Integers, Sequences, FiniteSetsExt

CONSTANTS
  Hosts,    \* machines: see HostType
  PConns,   \* connections given to WrapConn: see PConnType
  Desired,  \* DesiredReceiveBufferSize = DesiredSendBufferSize (7 MB)
  MaxSize   \* bound on the buffer sizes asked for and granted

Dirs == {"rcv", "snd"}
Families == {"v4", "v6"}
OSes == {"linux", "darwin", "freebsd", "windows"}
\* Characters of a uname release: the digits, "." and everything else.
Dot == 10
Other == 11

\* release: uname; major: the version it stands for; noGSO, noECN: the
\* environment variables; segment: the kernel has UDP_SEGMENT; opts: the options
\* it has for an IP version (Don't Fragment, "ecn" and "pi" control messages).
HostType == [os : OSes, release : Seq(0..Other), major : Nat, noGSO : BOOLEAN,
             noECN : BOOLEAN, segment : BOOLEAN,
             opts : SUBSET ({"df", "ecn", "pi"} \X Families)]
\* methods: the interfaces the Go type satisfies ("OOB" is OOBCapablePacketConn,
\* "UDPAddr" a LocalAddr of that type); stack: IP versions of the socket; peer:
\* that of the remote address; any: bound to the unspecified address.
Methods == {"SetReadBuffer", "SetWriteBuffer", "SyscallConn", "SyscallFails",
            "UDPAddr", "OOB", "RemoteAddr", "ReadWrite"}
PConnType == [methods : SUBSET Methods, connected : BOOLEAN,
              stack : SUBSET Families, peer : Families, any : BOOLEAN]

ASSUME SetupAssumption ==
  /\ \A h \in Hosts : h \in HostType
  /\ \A p \in PConns : p \in PConnType /\ p.peer \in p.stack
  /\ MaxSize \in Nat /\ Desired \in 1..MaxSize

VARIABLES
  host, pconn,      \* never change
  open,             \* the socket
  limit,            \* the largest buffer the kernel grants without privilege
  bufSize,          \* SO_RCVBUF and SO_SNDBUF as getsockopt reports them
  dialed,           \* what Dial's buffer sizes made of them, 0 if not set
  dfOn, ctlOn,      \* families with DF set; control messages activated
  pc, dir, size,    \* WrapConn: program counter; Set*Buffer: direction, local size
  verdict,          \* results of SetReceiveBuffer and SetSendBuffer
  supportsDF,
  raw               \* the RawConn: its type, isConnected and capabilities

fixed == <<host, pconn>>
bufVars == <<limit, bufSize, dialed, dir, size, verdict>>
optVars == <<dfOn, ctlOn, supportsDF>>
setupVars == <<fixed, open, bufVars, optVars, pc, raw>>

Has(m) == m \in pconn.methods
NoRaw == [type |-> "none", isConnected |-> FALSE, caps |-> {}]

\* A net.UDPConn as DialUDP makes it.
Dialed == pconn.connected /\ pconn.methods = Methods \ {"SyscallFails"}

SetupInit ==
  /\ host \in Hosts /\ pconn \in PConns /\ open = TRUE
  /\ limit \in 1..MaxSize /\ bufSize \in [Dirs -> {1, MaxSize}]
  /\ dialed = [d \in Dirs |-> 0] /\ dfOn = {} /\ ctlOn = {}
  /\ pc = (IF Dialed THEN "dial" ELSE "bufBegin") /\ dir = "rcv" /\ size = 0
  /\ verdict = [d \in Dirs |-> "none"] /\ supportsDF = FALSE /\ raw = NoRaw

\* The owner of the connection closes it: at any time if it was given to
\* WrapConn, else once Dial has returned.
SocketCloses ==
  /\ open /\ pc # "failed" /\ (Dialed => pc = "ready") /\ open' = FALSE
  /\ UNCHANGED <<fixed, bufVars, optVars, pc, raw>>

\* What getsockopt reports once the kernel has taken n: "the kernel doubles this
\* value (to allow space for bookkeeping overhead)" on Linux.
Reported(n) == IF host.os = "linux" THEN 2 * n ELSE n

\* The size reported after setsockopt with n: Linux cuts n to its limit, the
\* others refuse more than the limit.
Granted(d, n) ==
  IF n <= limit THEN Reported(n)
  ELSE IF host.os = "linux" THEN Reported(limit) ELSE bufSize[d]

-----------------------------------------------------------------------------
(* ConnConfig.Dial up to WrapConn *)

\* A wrong network, a missing address or DialUDP's error.
DialFails == pc = "dial" /\ pc' = "failed" /\ UNCHANGED <<fixed, open, bufVars, optVars, raw>>

\* conn.SetReadBuffer and conn.SetWriteBuffer with the sizes that are set;
\* nobody else has the socket yet.
Dial ==
  /\ pc = "dial" /\ pc' = "bufBegin"
  /\ \E config \in [Dirs -> 0..MaxSize] :
       LET After(d) == IF config[d] > 0 THEN Granted(d, config[d]) ELSE bufSize[d] IN
       /\ bufSize' = [d \in Dirs |-> After(d)]
       /\ dialed' = [d \in Dirs |-> IF config[d] > 0 THEN After(d) ELSE 0]
  /\ UNCHANGED <<fixed, open, limit, dir, size, verdict, optVars, raw>>

-----------------------------------------------------------------------------
(* The steps of SetReceiveBuffer and of SetSendBuffer, which is generated from *)
(* it, and the two functions                                                   *)

SetterOf(d) == IF d = "rcv" THEN "SetReadBuffer" ELSE "SetWriteBuffer"
Setter == SetterOf(dir)

\* The call for dir returns; WrapConn goes on whatever the result.
Verdict(v) ==
  /\ verdict' = [verdict EXCEPT ![dir] = v] /\ size' = 0
  /\ dir' = "snd" /\ pc' = IF dir = "rcv" THEN "bufBegin" ELSE "df"
Goto(next) == pc' = next /\ UNCHANGED <<dir, verdict>>

\* conn.SetReadBuffer(DesiredReceiveBufferSize); a closed socket refuses.
SetDesired ==
  bufSize' = IF open THEN [bufSize EXCEPT ![dir] = Granted(dir, Desired)] ELSE bufSize

BufBegin ==
  /\ pc = "bufBegin"
  /\ \/ ~Has(Setter) /\ Verdict("error") /\ UNCHANGED bufSize
     \/ /\ Has(Setter) /\ (~Has("SyscallConn") \/ Has("SyscallFails"))
        /\ SetDesired
        /\ Verdict(IF open /\ (Desired <= limit \/ host.os = "linux") THEN "nil" ELSE "error")
     \/ /\ Has(Setter) /\ Has("SyscallConn") /\ ~Has("SyscallFails")
        /\ Goto("inspect") /\ UNCHANGED <<size, bufSize>>
  /\ UNCHANGED <<fixed, open, limit, dialed, optVars, raw>>

Inspected_Negative == IF open THEN bufSize[dir] ELSE -1
\* InspectReadBuffer, InspectWriteBuffer: 0 with their error.
Inspected == IF open THEN bufSize[dir] ELSE 0

Enough_Never(found) == FALSE
\* size >= DesiredReceiveBufferSize
Enough(found) == found >= Desired

Inspect ==
  /\ pc = "inspect"
  /\ IF Inspected = 0 THEN Verdict("error")
     ELSE IF Enough(Inspected) THEN Verdict("nil")
     ELSE Goto("set") /\ size' = Inspected
  /\ UNCHANGED <<fixed, open, limit, bufSize, dialed, optVars, raw>>

\* The error is ignored.
Set ==
  /\ pc = "set" /\ SetDesired /\ Goto("reinspect")
  /\ UNCHANGED <<fixed, open, limit, dialed, size, optVars, raw>>

Judge_AnyIncrease(newSize) == IF newSize \in {0, size} THEN "error" ELSE "nil"
\* What is returned for the size found in the end.
Judge(newSize) == IF newSize \in {0, size} \/ newSize < Desired THEN "error" ELSE "nil"

Reinspect ==
  /\ pc = "reinspect"
  /\ IF Inspected < Desired THEN Goto("force") /\ UNCHANGED size
     ELSE Verdict(Judge(Inspected))
  /\ UNCHANGED <<fixed, open, limit, bufSize, dialed, optVars, raw>>

\* forceSetReceiveBuffer: SO_RCVBUFFORCE on Linux, which needs a privilege and
\* knows no limit; nothing elsewhere.
ForceSet ==
  /\ pc = "force" /\ Goto("final")
  /\ \E privileged \in BOOLEAN :
       bufSize' = IF open /\ host.os = "linux" /\ privileged
                  THEN [bufSize EXCEPT ![dir] = Reported(Desired)] ELSE bufSize
  /\ UNCHANGED <<fixed, open, limit, dialed, size, optVars, raw>>

Final ==
  /\ pc = "final" /\ Verdict(Judge(Inspected))
  /\ UNCHANGED <<fixed, open, limit, bufSize, dialed, optVars, raw>>

SetBuffer == BufBegin \/ Inspect \/ Set \/ Reinspect \/ ForceSet \/ Final
SetReceiveBuffer == dir = "rcv" /\ SetBuffer
SetSendBuffer == dir = "snd" /\ SetBuffer

-----------------------------------------------------------------------------
(* setDF *)

IsDigit(c) == c \in 0..9

\* kernelVersion's major: the number before the first character that is no
\* digit; release is padded with NULs.
KernelVersion(release) ==
  LET stop == Min({i \in DOMAIN release : ~IsDigit(release[i])} \cup {Len(release) + 1})
  IN MapThenSumSet(LAMBDA i : release[i] * 10^(stop - 1 - i), 1..(stop - 1))

\* getMacOSVersion: strconv.Atoi of what precedes the first "."; -1 stands for
\* its error.
MacOSVersion(release) ==
  LET dots == {i \in DOMAIN release : release[i] = Dot}
      prefix == SubSeq(release, 1, Min(dots) - 1)
  IN IF dots = {} THEN 0
     ELSE IF prefix # <<>> /\ \A i \in DOMAIN prefix : IsDigit(prefix[i])
     THEN KernelVersion(prefix) ELSE -1

\* macOSVersion11 and macOSVersion15.
MacOS11 == 20
MacOS15 == 24

\* The releases of the hosts are parsed as the versions they stand for; a macOS
\* release may also be taken for one without the option (getMacOSVersion failed).
VersionsParsed ==
  \A h \in Hosts :
    /\ h.os = "linux" => KernelVersion(h.release) = h.major
    /\ h.os = "darwin" => \/ MacOSVersion(h.release) < MacOS11
                          \/ MacOSVersion(h.release) = h.major

\* The IP versions of the socket for which setsockopt succeeds.
Supported(opt) == {f \in pconn.stack : <<opt, f>> \in host.opts}
Succeeds(opt) == IF open THEN Supported(opt) ELSE {}

DFReturns(df, on) == pc' = "newConn" /\ supportsDF' = df /\ dfOn' = on
DFFails == pc' = "failed" /\ UNCHANGED <<supportsDF, dfOn>>

\* setDF on Linux tries both versions and fails if none succeeds.
SetDFLinux == IF Succeeds("df") = {} THEN DFFails ELSE DFReturns(TRUE, Succeeds("df"))
\* The same on Windows.
SetDFWindows == SetDFLinux

DualStack == pconn.stack = Families
DisableDF_Ignored(version) == FALSE
\* disableDF: IPV6_DONTFRAG on a dual-stack socket, before macOS 15.
DisableDF(version) == DualStack /\ version < MacOS15

\* The option of a dual-stack socket covers its IPv4 packets from macOS 15 on.
DarwinCovers == IF DualStack /\ host.major < MacOS15 THEN {"v6"} ELSE pconn.stack

\* setDF on macOS: one option, by the type of the socket's own address.
SetDFDarwin ==
  LET version == MacOSVersion(host.release)
      family == IF pconn.stack = {"v4"} THEN "v4" ELSE "v6"
  IN IF version = -1 THEN DFFails
     ELSE IF version < MacOS11 THEN DFReturns(FALSE, {})
     ELSE IF family \in Succeeds("df") THEN DFReturns(~DisableDF(version), DarwinCovers)
     ELSE DFFails

\* setDF elsewhere
SetDFOther == DFReturns(FALSE, {})

SetDF ==
  \/ host.os = "linux" /\ SetDFLinux
  \/ host.os = "windows" /\ SetDFWindows
  \/ host.os = "darwin" /\ SetDFDarwin
  \/ host.os = "freebsd" /\ SetDFOther

\* WrapConn's middle part: DF is set on UDP sockets only.
WrapDF ==
  /\ pc = "df"
  /\ \/ Has("SyscallConn") /\ Has("SyscallFails") /\ DFFails
     \/ Has("SyscallConn") /\ ~Has("SyscallFails") /\ Has("UDPAddr") /\ SetDF
     \/ /\ ~Has("SyscallConn") \/ (~Has("SyscallFails") /\ ~Has("UDPAddr"))
        /\ pc' = "newConn" /\ UNCHANGED <<supportsDF, dfOn>>
  /\ UNCHANGED <<fixed, open, bufVars, ctlOn, raw>>

-----------------------------------------------------------------------------
(* The BasicConn that WrapConn falls back to, and newConn *)

IsConnected_Never == FALSE
\* c.(remoteAddrSock) with a RemoteAddr
IsConnected == Has("RemoteAddr") /\ pconn.connected

NewConnCapabilities(df, gso, ecn) ==
  (IF df THEN {"DF"} ELSE {}) \cup (IF gso THEN {"GSO"} ELSE {}) \cup (IF ecn THEN {"ECN"} ELSE {})

\* The RawConn is returned and the locals are gone.  Nothing touches the buffer
\* sizes again: WrapConnectedConn and WrapUnconnectedConn set them only on a
\* bufferedConn, which neither oobConn nor BasicConn is.
Return(type, isConnected, gso, ecn) ==
  /\ raw' = [type |-> type, isConnected |-> isConnected,
             caps |-> NewConnCapabilities(supportsDF, gso, ecn)]
  /\ pc' = "ready" /\ supportsDF' = FALSE
  /\ bufSize' = [d \in Dirs |-> 0] /\ dialed' = bufSize' /\ limit' = 1
  /\ dir' = "rcv" /\ size' = 0
  /\ verdict' = [d \in Dirs |-> "none"]

\* It looks for a RemoteAddr on the nil result of the failed assertion and
\* finds none.
BasicFallback ==
  /\ pc = "newConn" /\ ~Has("OOB")
  /\ Return("basic", FALSE, FALSE, FALSE)
  /\ UNCHANGED <<fixed, open, dfOn, ctlOn>>

NewConnWindows ==
  /\ pc = "newConn" /\ Has("OOB") /\ host.os = "windows"
  /\ Return("basic", IsConnected, FALSE, FALSE)
  /\ UNCHANGED <<fixed, open, dfOn, ctlOn>>

NeedsPacketInfo == Has("UDPAddr") /\ pconn.any

\* newConn elsewhere: "ecn" and, if needed, "pi" control messages are activated
\* for both IP versions; of each one at least has to succeed.
ActivateControl ==
  LET opts == {"ecn"} \cup (IF NeedsPacketInfo THEN {"pi"} ELSE {}) IN
  /\ pc = "newConn" /\ Has("OOB") /\ host.os # "windows"
  /\ ctlOn' = UNION {{o} \X Succeeds(o) : o \in opts}
  /\ pc' = IF \E o \in opts : Succeeds(o) = {} THEN "failed" ELSE "caps"
  /\ UNCHANGED <<fixed, open, bufVars, dfOn, supportsDF, raw>>

IsGSOEnabled ==
  /\ host.os = "linux" /\ KernelVersion(host.release) >= 5 /\ ~host.noGSO
  /\ open /\ host.segment
IsECNEnabled ==
  /\ host.os = "linux" => KernelVersion(host.release) >= 5
  /\ ~host.noECN

NewOOBConn ==
  /\ pc = "caps"
  /\ Return("oob", IsConnected, IsGSOEnabled, IsECNEnabled)
  /\ UNCHANGED <<fixed, open, dfOn, ctlOn>>

SetupNext ==
  \/ SocketCloses \/ DialFails \/ Dial
  \/ SetReceiveBuffer \/ SetSendBuffer
  \/ WrapDF \/ BasicFallback \/ NewConnWindows \/ ActivateControl \/ NewOOBConn

-----------------------------------------------------------------------------
(* Properties *)

MaxReported == 2 * MaxSize
SetupTypeOK ==
  /\ host \in Hosts /\ pconn \in PConns /\ open \in BOOLEAN
  /\ limit \in 1..MaxSize /\ dialed \in [Dirs -> 0..MaxReported]
  /\ bufSize \in [Dirs -> 0..MaxReported] /\ dir \in Dirs /\ size \in 0..MaxReported
  /\ verdict \in [Dirs -> {"none", "nil", "error"}] /\ supportsDF \in BOOLEAN
  /\ dfOn \subseteq Families /\ ctlOn \subseteq {"ecn", "pi"} \X Families
  /\ pc \in {"dial", "bufBegin", "inspect", "set", "reinspect", "force", "final", "df",
             "newConn", "caps", "ready", "failed"}
  /\ raw \in [type : {"none", "basic", "oob"}, isConnected : BOOLEAN,
              caps : SUBSET {"DF", "GSO", "ECN"}]

\* SetReceiveBuffer and SetSendBuffer "check if we succeeded by querying the
\* buffer size afterward" (sys_conn_buffers.go): where the size can be queried,
\* they return nil only if the kernel reports at least the desired size, and an
\* error on an open socket only if it reports less or the size cannot be set,
\* whatever the kernel granted to SetReadBuffer and to the forced retry and
\* whenever the socket is closed.  The report is all they look at: on Linux,
\* which doubles it, half of the desired size is enough for nil.
BufferVerdictExact ==
  Has("SyscallConn") /\ ~Has("SyscallFails") => \A d \in Dirs :
    /\ verdict[d] = "nil" => bufSize[d] >= Desired
    /\ verdict[d] = "error" /\ open =>
         bufSize[d] < Desired \/ ~Has(SetterOf(d))

\* WrapConn raises a buffer to the size it would like to use and never takes
\* away from what ConnConfig asked for: the buffers of a dialed socket are at
\* least what the kernel granted to Dial, on every path through the checks and
\* retries of SetReceiveBuffer and SetSendBuffer.
DialedSizeKept == pc # "ready" => \A d \in Dirs : bufSize[d] >= dialed[d]

\* Capabilities() promises nothing the kernel does not do.  "this connection
\* has the Don't Fragment (DF) bit set" (raw_conn.go): with DF the datagrams of
\* every IP version of the socket for which the system has an option carry it;
\* with GSO the kernel segments and with ECN it reports the marks, on Linux
\* from version 5 of the kernel and unless the environment disables them; a
\* BasicConn has neither.
CapabilitiesHonest ==
  pc = "ready" =>
    /\ "DF" \in raw.caps => Supported("df") \subseteq dfOn /\ dfOn # {}
    /\ "GSO" \in raw.caps => /\ raw.type = "oob" /\ host.os = "linux" /\ host.segment
                             /\ host.major >= 5 /\ ~host.noGSO
    /\ "ECN" \in raw.caps => /\ raw.type = "oob" /\ {"ecn"} \X Supported("ecn") \subseteq ctlOn
                             /\ (host.os = "linux" => host.major >= 5) /\ ~host.noECN
=============================================================================
