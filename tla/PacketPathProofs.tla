-------------------------- MODULE PacketPathProofs ---------------------------
(****************************************************************************)
(* Proofs about SocketSetup and PacketPath: the invariants their run checks *)
(* hold for all hosts, connections, buffer sizes, packets and calls.        *)
(****************************************************************************)
EXTENDS PacketPath, TLAPS

\* Where SetReceiveBuffer and SetSendBuffer are.
BufferPcs == {"bufBegin", "inspect", "set", "reinspect", "force", "final"}

\* Dial comes first and alone sets dialed, on Linux to no more than twice the
\* limit; the call for dir has no verdict yet; the local size is the one found
\* before Set and too small, and the forced retry happens only while that is so.
BufferInv ==
  /\ pc = "dial" => Dialed /\ dir = "rcv"
  /\ ~Dialed => \A d \in Dirs : dialed[d] = 0
  /\ host.os = "linux" => \A d \in Dirs : dialed[d] <= 2 * limit
  /\ pc \in {"dial"} \cup BufferPcs =>
       \A d \in Dirs : d = dir \/ dir = "rcv" => verdict[d] = "none"
  /\ pc \in {"set", "reinspect", "force", "final"} => size < Desired
  /\ pc = "set" => bufSize[dir] = size
  /\ pc = "force" /\ open => bufSize[dir] < Desired
  /\ BufferVerdictExact /\ DialedSizeKept

ReportsECN == {"ecn"} \X Supported("ecn") \subseteq ctlOn

\* There is no RawConn before WrapConn returns.  A BasicConn has at most DF; an
\* oobConn takes marks, and knows whether its socket is connected.
RawInv ==
  /\ pc # "ready" => raw = NoRaw
  /\ pc = "caps" => ReportsECN
  /\ raw.type = "basic" => raw.caps \subseteq {"DF"}
  /\ raw.type = "oob" => ReportsECN /\ (raw.isConnected <=> IsConnected)
  /\ raw.isConnected => IsConnected

\* What setDF returned is true, and so are the capabilities.
HonestInv ==
  /\ supportsDF => Supported("df") \subseteq dfOn /\ dfOn # {}
  /\ CapabilitiesHonest

\* Packets exist only once the RawConn does; a connected socket has none of
\* other addresses; the mark given to Write is in the packet's header, unless a
\* router turned it into CE, and only an oobConn sends one.
NetInv ==
  /\ pc # "ready" => net = {} /\ got = Nothing /\ fate = "running"
  /\ pconn.connected => \A p \in net : p.from = "peer"
  /\ ~raw.isConnected =>
       \A p \in net : p.call.ecn # ECNUnsupported =>
         /\ raw.type = "oob"
         /\ (p.tos % 4) + 1 = IF p.ce THEN ECNCE ELSE p.call.ecn

PathInv == NetInv /\ ReadTruthful /\ MarkArrives /\ SegmentsHonoured /\ OnlyInvalidWritesFatal

\* The inductive invariant, but for HonestInv.
IndInv == TypeOK /\ BufferInv /\ RawInv /\ PathInv

-----------------------------------------------------------------------------
(* SocketSetup: types *)

\* Where the reported sizes lie, the forced one included.
LEMMA ReportedSizes ==
  /\ MaxReported \in Nat /\ MaxSize <= MaxReported
  /\ Reported(Desired) \in Desired..MaxReported
BY SetupAssumption DEF MaxReported, Reported

\* The kernel reports a size within the bound, and on Linux within twice its
\* limit.
LEMMA GrantedSize ==
  ASSUME SetupTypeOK, NEW d \in Dirs, NEW n \in 0..MaxSize
  PROVE  /\ Granted(d, n) \in 0..MaxReported
         /\ host.os = "linux" => Granted(d, n) <= 2 * limit
BY SetupAssumption DEF SetupTypeOK, Granted, Reported, MaxReported

\* The results of SetReceiveBuffer and SetSendBuffer.
LEMMA VerdictTypes ==
  ASSUME SetupTypeOK, NEW v \in {"nil", "error"}, Verdict(v)
  PROVE  /\ verdict' \in [Dirs -> {"none", "nil", "error"}] /\ size' \in 0..MaxReported
         /\ dir' \in Dirs /\ pc' \in {"bufBegin", "df"}
BY ReportedSizes, SetupAssumption DEF SetupTypeOK, Verdict, Dirs

\* SetReadBuffer and SetWriteBuffer keep the sizes within the bound.
LEMMA SetDesiredTypes ==
  ASSUME SetupTypeOK, SetDesired
  PROVE  bufSize' \in [Dirs -> 0..MaxReported]
BY SetupAssumption, GrantedSize DEF SetupTypeOK, SetDesired

\* The steps of SetReceiveBuffer and SetSendBuffer keep the types.
LEMMA BufferTypeStep ==
  ASSUME SetupTypeOK, SetBuffer
  PROVE  SetupTypeOK'
<1> DEFINE BufTypes == /\ bufSize' \in [Dirs -> 0..MaxReported] /\ dir' \in Dirs
                       /\ size' \in 0..MaxReported
                       /\ verdict' \in [Dirs -> {"none", "nil", "error"}]
                       /\ pc' \in BufferPcs \cup {"df"}
<1> USE SetupAssumption
<1>1. Inspected \in 0..MaxReported
  BY ReportedSizes DEF SetupTypeOK, Inspected
<1>2. \A n : Judge(n) \in {"nil", "error"}
  BY DEF Judge
<1>3. ASSUME BufBegin
      PROVE  BufTypes
  <2>1. CASE ~Has(Setter) /\ Verdict("error") /\ UNCHANGED bufSize
    BY <2>1, VerdictTypes, Zenon DEF SetupTypeOK, BufferPcs
  <2>2. CASE SetDesired /\ \E v \in {"nil", "error"} : Verdict(v)
    BY <2>2, VerdictTypes, SetDesiredTypes, Zenon DEF BufferPcs
  <2>3. CASE Goto("inspect") /\ UNCHANGED <<size, bufSize>>
    BY <2>3 DEF SetupTypeOK, Goto, BufferPcs
  <2> QED
    BY <1>3, <2>1, <2>2, <2>3, Zenon DEF BufBegin
<1>4. ASSUME Inspect
      PROVE  BufTypes
  <2>1. bufSize' \in [Dirs -> 0..MaxReported]
    BY <1>4 DEF Inspect, SetupTypeOK
  <2>2. CASE \E v \in {"nil", "error"} : Verdict(v)
    BY <2>1, <2>2, VerdictTypes, Zenon DEF BufferPcs
  <2>3. CASE Goto("set") /\ size' = Inspected
    BY <1>1, <2>1, <2>3 DEF SetupTypeOK, Goto, BufferPcs
  <2> QED
    BY <1>4, <2>2, <2>3, Zenon DEF Inspect
<1>5. ASSUME Set
      PROVE  BufTypes
  BY <1>5, SetDesiredTypes DEF Set, SetupTypeOK, Goto, BufferPcs
<1>6. ASSUME Reinspect
      PROVE  BufTypes
  <2>1. bufSize' \in [Dirs -> 0..MaxReported]
    BY <1>6 DEF Reinspect, SetupTypeOK
  <2>2. CASE \E v \in {"nil", "error"} : Verdict(v)
    BY <2>1, <2>2, VerdictTypes, Zenon DEF BufferPcs
  <2>3. CASE Goto("force") /\ UNCHANGED size
    BY <2>1, <2>3 DEF SetupTypeOK, Goto, BufferPcs
  <2> QED
    BY <1>2, <1>6, <2>2, <2>3, Zenon DEF Reinspect
<1>7. ASSUME ForceSet
      PROVE  BufTypes
  <2>1. bufSize' = [bufSize EXCEPT ![dir] = Reported(Desired)] \/ bufSize' = bufSize
    BY <1>7, Zenon DEF ForceSet
  <2>2. bufSize' \in [Dirs -> 0..MaxReported]
    BY <2>1, ReportedSizes, SetupAssumption DEF SetupTypeOK
  <2> QED
    BY <1>7, <2>2, Zenon DEF ForceSet, SetupTypeOK, Goto, BufferPcs
<1>8. ASSUME Final
      PROVE  BufTypes
  <2>1. bufSize' \in [Dirs -> 0..MaxReported]
    BY <1>8 DEF Final, SetupTypeOK
  <2>2. \E v \in {"nil", "error"} : Verdict(v)
    BY <1>2, <1>8, Zenon DEF Final
  <2> QED
    BY <2>1, <2>2, VerdictTypes, Zenon DEF BufferPcs
<1>9. BufTypes
  BY <1>3, <1>4, <1>5, <1>6, <1>7, <1>8, Zenon DEF SetBuffer
<1>10. UNCHANGED <<fixed, open, limit, dialed, optVars, raw>>
  <2>1. BufBegin \/ Inspect \/ Reinspect => UNCHANGED <<fixed, open, limit, dialed, optVars, raw>>
    BY DEF BufBegin, Inspect, Reinspect
  <2>2. Set \/ ForceSet \/ Final => UNCHANGED <<fixed, open, limit, dialed, optVars, raw>>
    BY DEF Set, ForceSet, Final
  <2> QED
    BY <2>1, <2>2 DEF SetBuffer
<1> QED
  BY <1>9, <1>10 DEF SetupTypeOK, fixed, optVars, BufferPcs

\* The capabilities are a set of DF, GSO and ECN.
LEMMA CapabilityNames ==
  ASSUME NEW df, NEW gso, NEW ecn
  PROVE  /\ NewConnCapabilities(df, gso, ecn) \subseteq {"DF", "GSO", "ECN"}
         /\ "DF" \in NewConnCapabilities(df, gso, ecn) => df
         /\ "GSO" \in NewConnCapabilities(df, gso, ecn) => gso
         /\ "ECN" \in NewConnCapabilities(df, gso, ecn) => ecn
BY DEF NewConnCapabilities

\* WrapConn's return keeps the types.
LEMMA ReturnTypes ==
  ASSUME SetupTypeOK, NEW type \in {"basic", "oob"}, NEW isConnected \in BOOLEAN,
         NEW gso, NEW ecn, Return(type, isConnected, gso, ecn),
         UNCHANGED <<fixed, open, dfOn, ctlOn>>
  PROVE  SetupTypeOK'
<1>1. raw' \in [type : {"none", "basic", "oob"}, isConnected : BOOLEAN,
                caps : SUBSET {"DF", "GSO", "ECN"}]
  BY CapabilityNames DEF Return
<1>2. limit' \in 1..MaxSize /\ size' \in 0..MaxReported /\ bufSize' \in [Dirs -> 0..MaxReported]
      /\ dialed' \in [Dirs -> 0..MaxReported]
  BY ReportedSizes, SetupAssumption DEF Return
<1>3. dir' \in Dirs /\ verdict' \in [Dirs -> {"none", "nil", "error"}]
      /\ supportsDF' \in BOOLEAN /\ pc' = "ready"
  BY Zenon DEF Return, Dirs
<1> QED
  BY <1>1, <1>2, <1>3 DEF SetupTypeOK, fixed

\* Every step of Dial, WrapConn and the owner of the connection keeps the types.
LEMMA SetupTypeStep ==
  ASSUME SetupTypeOK, SetupNext
  PROVE  SetupTypeOK'
<1> USE SetupAssumption
<1>1. pconn.connected \in BOOLEAN /\ pconn.stack \subseteq Families
  BY DEF SetupTypeOK, PConnType
<1>2. IsConnected \in BOOLEAN
  BY DEF IsConnected
<1>3. ASSUME SocketCloses \/ DialFails
      PROVE  SetupTypeOK'
  BY <1>3, Zenon DEF SocketCloses, DialFails, SetupTypeOK, fixed, bufVars, optVars
<1>4. ASSUME Dial
      PROVE  SetupTypeOK'
  <2>1. PICK config \in [Dirs -> 0..MaxSize] :
          /\ bufSize' = [d \in Dirs |-> IF config[d] > 0 THEN Granted(d, config[d]) ELSE bufSize[d]]
          /\ dialed' = [d \in Dirs |-> IF config[d] > 0
                                       THEN IF config[d] > 0 THEN Granted(d, config[d]) ELSE bufSize[d]
                                       ELSE 0]
    BY <1>4, Zenon DEF Dial
  <2>2. \A d \in Dirs : Granted(d, config[d]) \in 0..MaxReported /\ bufSize[d] \in 0..MaxReported
    BY GrantedSize DEF SetupTypeOK
  <2>3. bufSize' \in [Dirs -> 0..MaxReported] /\ dialed' \in [Dirs -> 0..MaxReported]
    BY <2>1, <2>2, ReportedSizes
  <2> QED
    BY <1>4, <2>3 DEF Dial, SetupTypeOK, fixed, optVars
<1>5. ASSUME WrapDF
      PROVE  SetupTypeOK'
  <2>1. /\ dfOn' \subseteq Families /\ supportsDF' \in BOOLEAN /\ pc' \in {"newConn", "failed"}
    <3>1. Succeeds("df") \subseteq Families /\ DarwinCovers \subseteq Families
      BY <1>1 DEF Succeeds, Supported, DarwinCovers, Families
    <3>2. CASE DFFails
      BY <3>2 DEF DFFails, SetupTypeOK
    <3>3. CASE \E df \in BOOLEAN, on \in {{}, Succeeds("df"), DarwinCovers} : DFReturns(df, on)
      BY <3>1, <3>3 DEF DFReturns
    <3>4. CASE pc' = "newConn" /\ UNCHANGED <<supportsDF, dfOn>>
      BY <3>4 DEF SetupTypeOK
    <3> QED
      BY <1>5, <3>2, <3>3, <3>4, Zenon
         DEF WrapDF, SetDF, SetDFLinux, SetDFWindows, SetDFDarwin, SetDFOther
  <2> QED
    BY <1>5, <2>1 DEF WrapDF, SetupTypeOK, fixed, bufVars
<1>6. ASSUME BasicFallback \/ NewConnWindows \/ NewOOBConn
      PROVE  SetupTypeOK'
  BY <1>2, <1>6, ReturnTypes, Zenon DEF BasicFallback, NewConnWindows, NewOOBConn
<1>7. ASSUME ActivateControl
      PROVE  SetupTypeOK'
  <2>1. ctlOn' \subseteq {"ecn", "pi"} \X Families
    <3>1. \A o : Succeeds(o) \subseteq Families
      BY <1>1 DEF Succeeds, Supported
    <3>2. PICK opts \in SUBSET {"ecn", "pi"} : ctlOn' = UNION {{o} \X Succeeds(o) : o \in opts}
      BY <1>7, Zenon DEF ActivateControl
    <3> QED
      BY <3>1, <3>2
  <2>2. pc' \in {"failed", "caps"}
    BY <1>7, Zenon DEF ActivateControl
  <2> QED
    BY <1>7, <2>1, <2>2 DEF ActivateControl, SetupTypeOK, fixed, bufVars
<1> QED
  BY <1>3, <1>4, <1>5, <1>6, <1>7, BufferTypeStep, Zenon
     DEF SetupNext, SetReceiveBuffer, SetSendBuffer

-----------------------------------------------------------------------------
(* SocketSetup: the buffer sizes *)

\* When a call of SetReceiveBuffer or SetSendBuffer returns and its verdict is
\* right, BufferInv holds: the sizes do not change, and the other call's verdict
\* and size are those of before.
LEMMA VerdictKeeps ==
  ASSUME SetupTypeOK, BufferInv, pc \in BufferPcs,
         NEW v \in {"nil", "error"}, Verdict(v),
         UNCHANGED <<host, pconn, open, limit, dialed>>,
         \A d \in Dirs : d # dir => bufSize'[d] = bufSize[d],
         bufSize'[dir] >= dialed[dir],
         Has("SyscallConn") /\ ~Has("SyscallFails") =>
           /\ v = "nil" => bufSize'[dir] >= Desired
           /\ v = "error" /\ open => bufSize'[dir] < Desired \/ ~Has(SetterOf(dir))
  PROVE  BufferInv'
<1>1. Dialed' = Dialed /\ \A m : Has(m)' = Has(m)
  BY DEF Dialed, Has
<1>2. /\ verdict' = [verdict EXCEPT ![dir] = v] /\ dir' = "snd"
      /\ pc' = IF dir = "rcv" THEN "bufBegin" ELSE "df"
  BY DEF Verdict
<1>3. DialedSizeKept'
  BY DEF BufferInv, DialedSizeKept, BufferPcs
<1>4. BufferVerdictExact'
  <2> SUFFICES ASSUME Has("SyscallConn"), ~Has("SyscallFails"), NEW d \in Dirs
               PROVE  /\ verdict'[d] = "nil" => bufSize'[d] >= Desired
                      /\ verdict'[d] = "error" /\ open => bufSize'[d] < Desired \/ ~Has(SetterOf(d))
    BY <1>1 DEF BufferVerdictExact, Has, SetterOf
  <2>1. CASE d = dir
    BY <1>2, <2>1 DEF SetupTypeOK
  <2>2. CASE d # dir
    BY <1>2, <2>2 DEF SetupTypeOK, BufferInv, BufferVerdictExact
  <2> QED
    BY <2>1, <2>2
<1>5. pc' \in {"dial"} \cup BufferPcs =>
        \A d \in Dirs : d = dir' \/ dir' = "rcv" => verdict'[d] = "none"
  BY <1>2 DEF SetupTypeOK, BufferInv, BufferPcs, Dirs
<1> QED
  BY <1>1, <1>2, <1>3, <1>4, <1>5 DEF BufferInv

\* SetReadBuffer and SetWriteBuffer change one size only, and take nothing away
\* from what was granted to Dial when the size is too small or Dial granted none.
LEMMA SetDesiredKeeps ==
  ASSUME SetupTypeOK, BufferInv, SetDesired, pc # "ready",
         bufSize[dir] < Desired \/ dialed[dir] = 0
  PROVE  /\ \A d \in Dirs : d # dir => bufSize'[d] = bufSize[d]
         /\ bufSize'[dir] >= dialed[dir]
<1>1. \A d \in Dirs : bufSize[d] >= dialed[d] /\ bufSize[d] \in Nat /\ dialed[d] \in Nat
  BY SetupAssumption DEF SetupTypeOK, BufferInv, DialedSizeKept
<1>2. CASE open
  <2>1. bufSize' = [bufSize EXCEPT ![dir] = Granted(dir, Desired)] /\ dir \in Dirs
    BY <1>2 DEF SetDesired, SetupTypeOK
  <2>2. Granted(dir, Desired) >= dialed[dir]
    BY <1>1, <2>1, SetupAssumption DEF Granted, Reported, SetupTypeOK, BufferInv
  <2> QED
    BY <2>1, <2>2 DEF SetupTypeOK
<1>3. CASE ~open
  BY <1>1, <1>3 DEF SetDesired, SetupTypeOK
<1> QED
  BY <1>2, <1>3

\* BufBegin keeps BufferInv: it sets a size without looking at it only where it
\* cannot be queried, which is not so of a dialed socket.
LEMMA BufBeginKeeps ==
  ASSUME SetupTypeOK, BufferInv, BufBegin
  PROVE  BufferInv'
<1> pc = "bufBegin" /\ dir \in Dirs /\ UNCHANGED <<host, pconn, open, limit, dialed>>
  BY DEF BufBegin, fixed, SetupTypeOK
<1>1. \A d \in Dirs : bufSize[d] >= dialed[d]
  BY DEF BufferInv, DialedSizeKept
<1>2. CASE ~Has(Setter) /\ Verdict("error") /\ UNCHANGED bufSize
  BY <1>1, <1>2, VerdictKeeps DEF Setter, BufferPcs
<1>3. CASE /\ ~Has("SyscallConn") \/ Has("SyscallFails")
           /\ SetDesired /\ \E v \in {"nil", "error"} : Verdict(v)
  <2>1. ~Dialed
    BY <1>3 DEF Dialed, Has, Methods
  <2>2. dialed[dir] = 0
    BY <2>1 DEF BufferInv
  <2>3. (\A d \in Dirs : d # dir => bufSize'[d] = bufSize[d]) /\ bufSize'[dir] >= dialed[dir]
    BY <1>3, <2>2, SetDesiredKeeps
  <2> QED
    BY <1>3, <2>3, VerdictKeeps DEF BufferPcs
<1>4. CASE Goto("inspect") /\ UNCHANGED <<size, bufSize>>
  BY <1>4 DEF Goto, BufferInv, BufferPcs, BufferVerdictExact, DialedSizeKept, Dialed, Has, SetterOf
<1> QED
  BY <1>2, <1>3, <1>4, Zenon DEF BufBegin

\* Inspect, Reinspect and Final keep BufferInv: they judge the size they find.
LEMMA InspectionKeeps ==
  ASSUME SetupTypeOK, BufferInv, Inspect \/ Reinspect \/ Final
  PROVE  BufferInv'
<1> /\ pc \in {"inspect", "reinspect", "final"} /\ dir \in Dirs
    /\ UNCHANGED <<host, pconn, open, limit, dialed, bufSize>>
  BY DEF Inspect, Reinspect, Final, fixed, SetupTypeOK
<1>1. \A d \in Dirs : bufSize[d] >= dialed[d] /\ bufSize[d] \in Nat
  BY DEF BufferInv, DialedSizeKept, SetupTypeOK
<1>2. Desired \in Nat \ {0} /\ size \in Nat
  BY SetupAssumption DEF SetupTypeOK
<1> DEFINE Right(v) == /\ v = "nil" => bufSize[dir] >= Desired
                       /\ v = "error" /\ open => bufSize[dir] < Desired
<1>3. ASSUME NEW v \in {"nil", "error"}, Verdict(v), Right(v)
      PROVE  BufferInv'
  BY <1>1, <1>3, VerdictKeeps DEF BufferPcs
<1>4. ASSUME pc # "inspect"
      PROVE  Judge(Inspected) \in {"nil", "error"} /\ Right(Judge(Inspected))
  <2>1. size < Desired
    BY <1>4 DEF BufferInv
  <2> QED
    BY <1>1, <1>2, <2>1 DEF Judge, Inspected
<1>5. CASE Inspect
  <2>1. CASE Inspected = 0
    BY <1>1, <1>2, <1>3, <1>5, <2>1 DEF Inspect, Inspected
  <2>2. CASE Inspected # 0 /\ Enough(Inspected)
    BY <1>1, <1>2, <1>3, <1>5, <2>2 DEF Inspect, Inspected, Enough
  <2>3. CASE Inspected # 0 /\ ~Enough(Inspected)
    <3>1. Goto("set") /\ size' = bufSize[dir] /\ bufSize[dir] < Desired
      BY <1>1, <1>2, <1>5, <2>3 DEF Inspect, Inspected, Enough
    <3> QED
      BY <3>1 DEF Goto, BufferInv, BufferPcs, BufferVerdictExact, DialedSizeKept, Dialed, Has, SetterOf
  <2> QED
    BY <2>1, <2>2, <2>3
<1>6. CASE Reinspect
  <2>1. CASE Inspected < Desired
    <3>1. Goto("force") /\ size' = size /\ pc = "reinspect" /\ (open => bufSize[dir] < Desired)
      BY <1>6, <2>1 DEF Reinspect, Inspected
    <3> QED
      BY <3>1 DEF Goto, BufferInv, BufferPcs, BufferVerdictExact, DialedSizeKept, Dialed, Has, SetterOf
  <2>2. CASE ~(Inspected < Desired)
    BY <1>3, <1>4, <1>6, <2>2 DEF Reinspect
  <2> QED
    BY <2>1, <2>2
<1>7. CASE Final
  BY <1>3, <1>4, <1>7 DEF Final
<1> QED
  BY <1>5, <1>6, <1>7

\* Set and ForceSet keep BufferInv: they set a size that is too small, before
\* there is a verdict on it.
LEMMA SettingKeeps ==
  ASSUME SetupTypeOK, BufferInv, Set \/ ForceSet
  PROVE  BufferInv'
<1> /\ pc \in {"set", "force"} /\ dir \in Dirs
    /\ UNCHANGED <<host, pconn, open, limit, dialed, size, dir, verdict>>
  BY DEF Set, ForceSet, Goto, fixed, SetupTypeOK
<1>1. /\ \A d \in Dirs : d # dir => bufSize'[d] = bufSize[d]
      /\ bufSize'[dir] >= dialed[dir]
      /\ pc' \in {"reinspect", "final"}
  <2>1. CASE Set
    <3>1. bufSize[dir] < Desired /\ SetDesired /\ pc' = "reinspect"
      BY <2>1 DEF Set, Goto, BufferInv
    <3> QED
      BY <3>1, SetDesiredKeeps
  <2>2. CASE ForceSet
    <3>1. pc' = "final" /\ (\/ open /\ bufSize' = [bufSize EXCEPT ![dir] = Reported(Desired)]
                            \/ bufSize' = bufSize)
      BY <2>2, Zenon DEF ForceSet, Goto
    <3>2. pc = "force" /\ \A d \in Dirs : bufSize[d] >= dialed[d] /\ bufSize[d] \in Nat /\ dialed[d] \in Nat
      BY <2>2 DEF ForceSet, BufferInv, DialedSizeKept, SetupTypeOK
    <3>3. open => Reported(Desired) >= dialed[dir]
      BY <3>2, ReportedSizes, SetupAssumption DEF BufferInv, SetupTypeOK
    <3> QED
      BY <3>1, <3>2, <3>3 DEF SetupTypeOK
  <2> QED
    BY <2>1, <2>2
<1>2. verdict[dir] = "none" /\ size < Desired
  BY DEF BufferInv, BufferPcs
<1>3. BufferVerdictExact'
  BY <1>1, <1>2 DEF BufferInv, BufferVerdictExact, Has, SetterOf
<1>4. DialedSizeKept'
  BY <1>1 DEF BufferInv, DialedSizeKept
<1> QED
  BY <1>1, <1>2, <1>3, <1>4 DEF BufferInv, BufferPcs, Dialed

\* WrapConn's return forgets the sizes.
LEMMA ReturnKeeps ==
  ASSUME SetupTypeOK, BufferInv, NEW type, NEW isConnected, NEW gso, NEW ecn,
         Return(type, isConnected, gso, ecn), UNCHANGED fixed
  PROVE  BufferInv'
BY DEF Return, fixed, BufferInv, BufferPcs, BufferVerdictExact, DialedSizeKept, Dialed, Has

\* Every step of the set-up keeps BufferInv.
LEMMA BufferStep ==
  ASSUME SetupTypeOK, BufferInv, SetupNext
  PROVE  BufferInv'
<1>1. ASSUME SocketCloses
      PROVE  BufferInv'
  <2>1. UNCHANGED <<host, pconn, limit, bufSize, dialed, dir, size, verdict, pc>> /\ open /\ ~open'
    BY <1>1 DEF SocketCloses, fixed, bufVars
  <2> QED
    BY <2>1 DEF BufferInv, BufferVerdictExact, DialedSizeKept, Dialed, Has, SetterOf
<1>2. ASSUME DialFails
      PROVE  BufferInv'
  <2>1. UNCHANGED <<host, pconn, open, limit, bufSize, dialed, dir, size, verdict>>
        /\ pc = "dial" /\ pc' = "failed"
    BY <1>2 DEF DialFails, fixed, bufVars
  <2> QED
    BY <2>1 DEF BufferInv, BufferPcs, BufferVerdictExact, DialedSizeKept, Dialed, Has, SetterOf
<1>3. ASSUME Dial
      PROVE  BufferInv'
  <2>1. UNCHANGED <<host, pconn, open, limit, dir, size, verdict>>
        /\ pc = "dial" /\ pc' = "bufBegin" /\ Dialed
    BY <1>3 DEF Dial, fixed, BufferInv
  <2>2. PICK config \in [Dirs -> 0..MaxSize] :
          /\ bufSize' = [d \in Dirs |-> IF config[d] > 0 THEN Granted(d, config[d]) ELSE bufSize[d]]
          /\ dialed' = [d \in Dirs |-> IF config[d] > 0
                                       THEN IF config[d] > 0 THEN Granted(d, config[d]) ELSE bufSize[d]
                                       ELSE 0]
    BY <1>3, Zenon DEF Dial
  <2>3. ASSUME NEW d \in Dirs
        PROVE  bufSize'[d] >= dialed'[d] /\ (host.os = "linux" => dialed'[d] <= 2 * limit)
    <3>1. /\ Granted(d, config[d]) \in Nat /\ bufSize[d] \in Nat /\ limit \in Nat
          /\ host.os = "linux" => Granted(d, config[d]) <= 2 * limit
      BY GrantedSize DEF SetupTypeOK
    <3> QED
      BY <2>2, <3>1
  <2>4. \A d \in Dirs : verdict[d] = "none"
    BY <2>1 DEF BufferInv
  <2>5. BufferVerdictExact'
    BY <2>1, <2>4 DEF BufferVerdictExact
  <2> QED
    BY <2>1, <2>3, <2>5 DEF BufferInv, BufferPcs, DialedSizeKept, Dialed
<1>4. ASSUME WrapDF \/ ActivateControl
      PROVE  BufferInv'
  <2>1. UNCHANGED <<host, pconn, open, limit, bufSize, dialed, dir, size, verdict>>
    BY <1>4 DEF WrapDF, ActivateControl, fixed, bufVars
  <2>2. pc \in {"df", "newConn"} /\ pc' \in {"newConn", "caps", "failed"}
    BY <1>4, Zenon DEF WrapDF, ActivateControl, SetDF, SetDFLinux, SetDFWindows, SetDFDarwin,
                       SetDFOther, DFFails, DFReturns
  <2> QED
    BY <2>1, <2>2 DEF BufferInv, BufferPcs, BufferVerdictExact, DialedSizeKept, Dialed, Has, SetterOf
<1>5. ASSUME BasicFallback \/ NewConnWindows \/ NewOOBConn
      PROVE  BufferInv'
  BY <1>5, ReturnKeeps, Zenon DEF BasicFallback, NewConnWindows, NewOOBConn
<1> QED
  BY <1>1, <1>2, <1>3, <1>4, <1>5, BufBeginKeeps, InspectionKeeps, SettingKeeps
     DEF SetupNext, SetReceiveBuffer, SetSendBuffer, SetBuffer

-----------------------------------------------------------------------------
(* SocketSetup: the RawConn and its capabilities *)

\* What newConn reads of the connection and the host never changes.
LEMMA FixedKeeps ==
  ASSUME UNCHANGED fixed
  PROVE  /\ UNCHANGED <<host, pconn, IsConnected>>
         /\ \A o : Supported(o)' = Supported(o)
         /\ UNCHANGED ctlOn => UNCHANGED ReportsECN
BY DEF fixed, IsConnected, Has, Supported, ReportsECN

\* The steps before newConn's last part and the owner's Close neither make nor
\* change the RawConn.
LEMMA RawFrame ==
  ASSUME SetupTypeOK, SocketCloses \/ DialFails \/ Dial \/ SetBuffer \/ WrapDF
  PROVE  /\ UNCHANGED <<fixed, ctlOn, raw>>
         /\ \/ pc' = pc
            \/ pc # "ready" /\ pc' \notin {"ready", "caps"}
<1>1. CASE SocketCloses \/ DialFails \/ Dial
  BY <1>1 DEF SocketCloses, DialFails, Dial, optVars
<1>2. CASE SetBuffer
  <2>1. UNCHANGED <<fixed, optVars, raw>> /\ pc \in BufferPcs
    <3>1. BufBegin \/ Inspect \/ Set => UNCHANGED <<fixed, optVars, raw>> /\ pc \in BufferPcs
      BY DEF BufBegin, Inspect, Set, BufferPcs
    <3>2. Reinspect \/ ForceSet \/ Final => UNCHANGED <<fixed, optVars, raw>> /\ pc \in BufferPcs
      BY DEF Reinspect, ForceSet, Final, BufferPcs
    <3> QED
      BY <1>2, <3>1, <3>2 DEF SetBuffer
  <2>2. pc' \in BufferPcs \cup {"df"}
    <3>1. \A v : Verdict(v) => pc' \in BufferPcs \cup {"df"}
      BY DEF Verdict, BufferPcs
    <3>2. Goto("inspect") \/ Goto("set") \/ Goto("reinspect") \/ Goto("force") \/ Goto("final")
            => pc' \in BufferPcs \cup {"df"}
      BY DEF Goto, BufferPcs
    <3> QED
      BY <1>2, <3>1, <3>2, Zenon DEF SetBuffer, BufBegin, Inspect, Set, Reinspect, ForceSet, Final
  <2> QED
    BY <2>1, <2>2 DEF BufferPcs, optVars
<1>3. CASE WrapDF
  <2>1. pc = "df" /\ pc' \in {"newConn", "failed"}
    BY <1>3, Zenon DEF WrapDF, SetDF, SetDFLinux, SetDFWindows, SetDFDarwin, SetDFOther,
                       DFFails, DFReturns
  <2> QED
    BY <1>3, <2>1 DEF WrapDF
<1> QED
  BY <1>1, <1>2, <1>3

\* newConn goes on to the capabilities only if control messages with the mark
\* were activated for every IP version of the socket that has them.
LEMMA ActivateReports ==
  ASSUME ActivateControl, pc' = "caps"
  PROVE  ReportsECN'
<1> DEFINE opts == {"ecn"} \cup (IF NeedsPacketInfo THEN {"pi"} ELSE {})
<1>1. /\ ctlOn' = UNION {{o} \X Succeeds(o) : o \in opts} /\ UNCHANGED fixed
      /\ \A o \in opts : Succeeds(o) # {}
  BY DEF ActivateControl
<1>2. "ecn" \in opts
  OBVIOUS
<1> HIDE DEF opts
<1>3. Succeeds("ecn") = Supported("ecn")
  BY <1>1, <1>2 DEF Succeeds
<1>4. {"ecn"} \X Supported("ecn") \subseteq ctlOn'
  BY <1>1, <1>2, <1>3
<1> QED
  BY <1>1, <1>4, FixedKeeps DEF ReportsECN

\* Every step of the set-up keeps RawInv.
LEMMA RawStep ==
  ASSUME SetupTypeOK, RawInv, SetupNext
  PROVE  RawInv'
<1>1. CASE SocketCloses \/ DialFails \/ Dial \/ SetBuffer \/ WrapDF
  <2>1. /\ UNCHANGED <<raw, IsConnected, ReportsECN>>
        /\ pc' = pc \/ (pc # "ready" /\ pc' \notin {"ready", "caps"})
    BY <1>1, RawFrame, FixedKeeps
  <2> QED
    BY <2>1, Zenon DEF RawInv
<1>2. CASE ActivateControl
  <2>1. UNCHANGED <<raw, IsConnected>> /\ pc = "newConn" /\ pc' \in {"caps", "failed"}
    BY <1>2, FixedKeeps DEF ActivateControl
  <2>2. raw = NoRaw
    BY <2>1 DEF RawInv
  <2> QED
    BY <1>2, <2>1, <2>2, ActivateReports DEF RawInv, NoRaw
<1>3. CASE BasicFallback \/ NewConnWindows
  <2>1. /\ raw'.type = "basic" /\ raw'.caps = NewConnCapabilities(supportsDF, FALSE, FALSE)
        /\ (raw'.isConnected => IsConnected) /\ pc' = "ready"
    <3>1. CASE BasicFallback
      <4>1. Return("basic", FALSE, FALSE, FALSE)
        BY <3>1, Zenon DEF BasicFallback
      <4> QED
        BY <4>1 DEF Return
    <3>2. CASE NewConnWindows
      <4>1. Return("basic", IsConnected, FALSE, FALSE)
        BY <3>2, Zenon DEF NewConnWindows
      <4> QED
        BY <4>1 DEF Return
    <3> QED
      BY <1>3, <3>1, <3>2, Zenon
  <2>2. raw'.caps \subseteq {"DF"}
    BY <2>1 DEF NewConnCapabilities
  <2>3. UNCHANGED IsConnected
    BY <1>3, FixedKeeps, Zenon DEF BasicFallback, NewConnWindows
  <2> QED
    BY <2>1, <2>2, <2>3, Zenon DEF RawInv
<1>4. CASE NewOOBConn
  <2>1. raw'.type = "oob" /\ raw'.isConnected = IsConnected /\ pc' = "ready" /\ pc = "caps"
    BY <1>4 DEF NewOOBConn, Return
  <2>2. UNCHANGED <<IsConnected, ReportsECN>>
    BY <1>4, FixedKeeps DEF NewOOBConn
  <2>3. ReportsECN
    BY <2>1 DEF RawInv
  <2> QED
    BY <2>1, <2>2, <2>3 DEF RawInv
<1> QED
  BY <1>1, <1>2, <1>3, <1>4 DEF SetupNext, SetReceiveBuffer, SetSendBuffer

\* setDF returns true only if the option was set for every IP version of the
\* socket that has one: on a dual-stack socket before macOS 15 it is not.
LEMMA SetDFHonest ==
  ASSUME VersionsParsed, SetupTypeOK, SetDF, UNCHANGED fixed, supportsDF',
         supportsDF => Supported("df") \subseteq dfOn /\ dfOn # {}
  PROVE  Supported("df") \subseteq dfOn' /\ dfOn' # {}
<1>1. CASE DFFails
  BY <1>1 DEF DFFails
<1>2. CASE SetDFLinux
  BY <1>1, <1>2 DEF SetDFLinux, DFReturns, Succeeds
<1>3. CASE host.os = "darwin" /\ SetDFDarwin /\ ~DFFails
  <2> DEFINE version == MacOSVersion(host.release)
             family == IF pconn.stack = {"v4"} THEN "v4" ELSE "v6"
  <2>1. /\ ~(version < MacOS11) /\ family \in Succeeds("df")
        /\ DFReturns(~DisableDF(version), DarwinCovers)
    BY <1>3, Zenon DEF SetDFDarwin, DFReturns
  <2>2. dfOn' = DarwinCovers /\ ~DisableDF(version)
    BY <2>1, Zenon DEF DFReturns
  <2>3. DarwinCovers = pconn.stack
    <3>1. CASE ~DualStack
      BY <3>1 DEF DarwinCovers
    <3>2. CASE DualStack
      <4>1. ~(version < MacOS15)
        BY <2>2, <3>2 DEF DisableDF
      <4>2. host \in Hosts
        BY DEF SetupTypeOK
      <4> QED
        BY <1>3, <2>1, <4>1, <4>2 DEF VersionsParsed, DarwinCovers
    <3> QED
      BY <3>1, <3>2
  <2> QED
    BY <2>1, <2>2, <2>3, Zenon DEF Succeeds, Supported
<1>4. CASE host.os = "freebsd" /\ SetDFOther
  BY <1>4 DEF SetDFOther, DFReturns
<1> QED
  BY <1>1, <1>2, <1>3, <1>4 DEF SetDF, SetDFWindows

\* Every step of the set-up keeps HonestInv.
LEMMA HonestStep ==
  ASSUME VersionsParsed, SetupTypeOK, RawInv, HonestInv, SetupNext
  PROVE  HonestInv'
<1> DEFINE DFHonest == Supported("df") \subseteq dfOn /\ dfOn # {}
<1>1. CASE SocketCloses \/ DialFails \/ Dial \/ SetBuffer \/ ActivateControl
  <2>1. UNCHANGED <<fixed, dfOn, supportsDF, raw>>
    <3>1. SetBuffer => UNCHANGED <<fixed, optVars, raw>>
      <4>1. BufBegin \/ Inspect \/ Set => UNCHANGED <<fixed, optVars, raw>>
        BY DEF BufBegin, Inspect, Set
      <4>2. Reinspect \/ ForceSet \/ Final => UNCHANGED <<fixed, optVars, raw>>
        BY DEF Reinspect, ForceSet, Final
      <4> QED
        BY <4>1, <4>2 DEF SetBuffer
    <3> QED
      BY <1>1, <3>1 DEF SocketCloses, DialFails, Dial, ActivateControl, optVars
  <2>2. UNCHANGED <<host, Supported("df"), Supported("ecn")>>
    BY <2>1, FixedKeeps
  <2>3. pc' = "ready" => pc = "ready" /\ UNCHANGED ctlOn
    <3>1. ActivateControl => pc' # "ready"
      BY DEF ActivateControl
    <3> QED
      BY <1>1, <3>1, RawFrame
  <2> QED
    BY <2>1, <2>2, <2>3 DEF HonestInv, CapabilitiesHonest
<1>2. CASE WrapDF
  <2>1. UNCHANGED fixed /\ pc' # "ready"
    BY <1>2, RawFrame DEF WrapDF
  <2>2. Supported("df")' = Supported("df")
    BY <2>1, FixedKeeps
  <2>3. supportsDF' => Supported("df") \subseteq dfOn' /\ dfOn' # {}
    <3>1. CASE SetDF
      BY <2>1, <3>1, SetDFHonest DEF HonestInv
    <3>2. CASE UNCHANGED <<supportsDF, dfOn>>
      BY <3>2 DEF HonestInv
    <3> QED
      BY <1>2, <3>1, <3>2, Zenon DEF WrapDF, DFFails
  <2> QED
    BY <2>1, <2>2, <2>3 DEF HonestInv, CapabilitiesHonest
<1>3. CASE BasicFallback \/ NewConnWindows \/ NewOOBConn
  <2>1. UNCHANGED <<fixed, dfOn, ctlOn>>
    BY <1>3, Zenon DEF BasicFallback, NewConnWindows, NewOOBConn
  <2>2. UNCHANGED <<host, ReportsECN, Supported("df"), Supported("ecn")>>
    BY <2>1, FixedKeeps
  <2>3. host.os = "linux" => KernelVersion(host.release) = host.major
    BY DEF VersionsParsed, SetupTypeOK
  <2>4. /\ "DF" \in raw'.caps => supportsDF
        /\ "GSO" \in raw'.caps => NewOOBConn /\ IsGSOEnabled
        /\ "ECN" \in raw'.caps => NewOOBConn /\ IsECNEnabled
        /\ NewOOBConn => raw'.type = "oob" /\ pc = "caps"
        /\ supportsDF' = FALSE
    <3>1. CASE BasicFallback \/ NewConnWindows
      <4>1. (\E c : Return("basic", c, FALSE, FALSE)) /\ pc = "newConn"
        BY <3>1, Zenon DEF BasicFallback, NewConnWindows
      <4>2. raw'.caps = NewConnCapabilities(supportsDF, FALSE, FALSE) /\ supportsDF' = FALSE
        BY <4>1 DEF Return
      <4> QED
        BY <4>1, <4>2 DEF NewConnCapabilities, NewOOBConn
    <3>2. CASE NewOOBConn
      <4>1. /\ raw'.caps = NewConnCapabilities(supportsDF, IsGSOEnabled, IsECNEnabled)
            /\ raw'.type = "oob" /\ supportsDF' = FALSE /\ pc = "caps"
        BY <3>2 DEF NewOOBConn, Return
      <4> QED
        BY <3>2, <4>1 DEF NewConnCapabilities
    <3> QED
      BY <1>3, <3>1, <3>2, Zenon
  <2>5. "DF" \in raw'.caps => DFHonest
    BY <2>4 DEF HonestInv
  <2>6. "GSO" \in raw'.caps => /\ raw'.type = "oob" /\ host.os = "linux" /\ host.segment
                               /\ host.major >= 5 /\ ~host.noGSO
    BY <2>3, <2>4 DEF IsGSOEnabled
  <2>7. "ECN" \in raw'.caps => /\ raw'.type = "oob" /\ ReportsECN
                               /\ (host.os = "linux" => host.major >= 5) /\ ~host.noECN
    BY <2>3, <2>4 DEF IsECNEnabled, RawInv
  <2> QED
    BY <2>1, <2>2, <2>4, <2>5, <2>6, <2>7 DEF HonestInv, CapabilitiesHonest, ReportsECN
<1> QED
  BY <1>1, <1>2, <1>3 DEF SetupNext, SetReceiveBuffer, SetSendBuffer

-----------------------------------------------------------------------------
(* PacketPath: marks, segments and control messages *)

\* ToHeaderBits and ParseECNHeaderBits are inverse to each other.
LEMMA HeaderBits ==
  /\ \A ecn \in 1..4 : ToHeaderBits(ecn) = ecn - 1
  /\ \A bits \in 0..3 : ParseECNHeaderBits(bits) = bits + 1
<1>1. \A ecn \in 1..4 : ToHeaderBits(ecn) = ecn - 1
  BY DEF ToHeaderBits
<1>2. ASSUME NEW bits \in 0..3
      PROVE  ParseECNHeaderBits(bits) = bits + 1
  BY DEF ParseECNHeaderBits
<1> QED
  BY <1>1, <1>2

\* uint16(gsoSize) is not above gsoSize; where it is 0, gsoSize is 0 or longer than
\* every packet.
LEMMA GsoSizes16 ==
  ASSUME NEW gso \in Nat
  PROVE  /\ gso % Uint16 \in 0..(Uint16 - 1) /\ gso % Uint16 <= gso
         /\ gso % Uint16 = 0 /\ gso > 0 => gso >= Uint16
BY PathAssumption

\* The gsoSize arguments are numbers.
LEMMA GsoNat == GsoSizes \cup {0} \subseteq Nat
BY PathAssumption

\* The kernel's segments are no longer than the segment size.
LEMMA SegmentLengths ==
  ASSUME NEW len \in 0..(Uint16 - 1), NEW segment \in 0..(Uint16 - 1),
         NEW n \in Segments(len, segment)
  PROVE  /\ n \in 0..(Uint16 - 1)
         /\ segment = 0 => n = len
         /\ segment > 0 => n <= segment
<1>1. CASE segment = 0
  BY <1>1 DEF Segments
<1>2. CASE segment # 0
  <2>1. n = segment \/ n = len % segment
    BY <1>2, Zenon DEF Segments
  <2>2. len % segment \in 0..(segment - 1)
    BY <1>2, PathAssumption
  <2> QED
    BY <1>2, <2>1, <2>2, PathAssumption
<1> QED
  BY <1>1, <1>2

\* If all control messages of a type agree, that is their value.
LEMMA ValueAgreed ==
  ASSUME NEW msgs, DOMAIN msgs \subseteq {1, 2}, NEW type, NEW v,
         \A i \in DOMAIN msgs : msgs[i].type = type => msgs[i].value = v
  PROVE  Value(msgs, type) = IF \E i \in DOMAIN msgs : msgs[i].type = type THEN v ELSE 0
<1> DEFINE found == {i \in DOMAIN msgs : msgs[i].type = type}
<1>1. ASSUME found # {}
      PROVE  Max(found) \in found
  <2>1. found = {1} \/ found = {2} \/ found = {1, 2}
    BY <1>1
  <2> HIDE DEF found
  <2> QED
    BY <2>1 DEF Max
<1> QED
  BY <1>1 DEF Value

\* Two messages one after the other.
LEMMA TwoMessages ==
  ASSUME NEW a, NEW b
  PROVE  DOMAIN (<<a>> \o <<b>>) = {1, 2} /\ (<<a>> \o <<b>>)[1] = a /\ (<<a>> \o <<b>>)[2] = b
<1>1. <<a>> \in Seq({a, b}) /\ <<b>> \in Seq({a, b})
  OBVIOUS
<1>2. <<a>> \o <<b>> \in Seq({a, b}) /\ Len(<<a>> \o <<b>>) = 2
  BY <1>1
<1> QED
  BY <1>1, <1>2

\* The control messages of a call: the segment size if there is one, and the
\* mark if there is one and an address.
LEMMA CallValues ==
  ASSUME TypeOK, NEW call \in CallType, Target # "nil"
  PROVE  /\ Value(ControlMessages(call), "segment") = GsoSize(call)
         /\ Value(ControlMessages(call), pconn.peer) =
              IF call.ecn = ECNUnsupported THEN 0 ELSE ToHeaderBits(call.ecn)
<1> DEFINE oob == ControlMessages(call)
           s == SegmentMsg(GsoSize(call))
           e == ECNMsg(pconn.peer, call.ecn)
<1>1. pconn.peer \in Families /\ pconn.peer # "segment"
  BY SetupAssumption DEF TypeOK, SetupTypeOK, PConnType, Families
<1>2. s.type = "segment" /\ s.value = GsoSize(call)
      /\ e.type = pconn.peer /\ e.value = ToHeaderBits(call.ecn)
  BY DEF SegmentMsg, ECNMsg
<1>3. GsoSize(call) \in Nat
  <2>1. call.gso \in Nat
    <3>1. call.gso \in GsoSizes \cup {0}
      BY DEF CallType
    <3> QED
      BY <3>1, GsoNat, Zenon
  <2> QED
    BY <2>1, GsoSizes16, PathAssumption DEF GsoSize
<1>4. oob = (IF GsoSize(call) > 0 THEN <<s>> ELSE <<>>)
            \o (IF call.ecn # ECNUnsupported THEN <<e>> ELSE <<>>)
  BY DEF ControlMessages
<1> HIDE DEF oob, s, e
<1>5. CASE GsoSize(call) > 0 /\ call.ecn # ECNUnsupported
  <2>1. oob = <<s>> \o <<e>>
    BY <1>4, <1>5, Zenon
  <2>2. DOMAIN oob = {1, 2} /\ oob[1] = s /\ oob[2] = e
    BY <2>1, TwoMessages
  <2> QED
    BY <1>1, <1>2, <1>5, <2>2, ValueAgreed, SMTT(30) DEF oob
<1>6. CASE GsoSize(call) > 0 /\ call.ecn = ECNUnsupported
  <2>1. oob = <<s>>
    BY <1>4, <1>6
  <2>2. DOMAIN oob = {1} /\ oob[1] = s
    BY <2>1
  <2> QED
    BY <1>1, <1>2, <1>6, <2>2, ValueAgreed DEF oob
<1>7. CASE GsoSize(call) = 0 /\ call.ecn # ECNUnsupported
  <2>1. oob = <<e>>
    BY <1>4, <1>7
  <2>2. DOMAIN oob = {1} /\ oob[1] = e
    BY <2>1
  <2> QED
    BY <1>1, <1>2, <1>7, <2>2, ValueAgreed, SMTT(30) DEF oob
<1>8. CASE GsoSize(call) = 0 /\ call.ecn = ECNUnsupported
  <2>1. oob = <<>>
    BY <1>4, <1>8
  <2>2. DOMAIN oob = {}
    BY <2>1
  <2> QED
    BY <1>8, <2>2, ValueAgreed, Zenon DEF oob
<1> QED
  BY <1>3, <1>5, <1>6, <1>7, <1>8

-----------------------------------------------------------------------------
(* PacketPath: Write *)

\* What Write may put on the network.
Sendable(p) ==
  /\ p \in PacketType /\ p.from = "peer" /\ ~p.ce
  /\ ~raw.isConnected =>
       /\ p.call.gso > 0 => p.len <= p.call.gso
       /\ p.call.ecn # ECNUnsupported =>
            raw.type = "oob" /\ (p.tos % 4) + 1 = p.call.ecn

\* A packet that carries its call's segment size and mark may be sent.
LEMMA PacketSendable ==
  ASSUME NEW call \in CallType, NEW segment \in {0, GsoSize(call)}, NEW tos \in 0..3,
         NEW len \in Segments(call.len, segment),
         ~raw.isConnected => /\ segment = GsoSize(call)
                             /\ call.ecn # ECNUnsupported => raw.type = "oob" /\ tos + 1 = call.ecn
  PROVE  Sendable(Packet("peer", len, tos, call))
<1> DEFINE p == Packet("peer", len, tos, call)
<1>1. p.from = "peer" /\ p.len = len /\ p.tos = tos /\ p.ce = FALSE /\ p.call = call
  BY DEF Packet
<1>2. call.len \in 0..(Uint16 - 1) /\ call.gso \in GsoSizes \cup {0}
  BY DEF CallType
<1>3. call.gso \in Nat
  BY <1>2, GsoNat, Zenon
<1>4. segment \in 0..(Uint16 - 1) /\ (GsoSize(call) = 0 /\ call.gso > 0 => call.gso >= Uint16)
      /\ GsoSize(call) <= call.gso /\ GsoSize(call) \in Nat
  BY <1>3, GsoSizes16, PathAssumption DEF GsoSize
<1>5. /\ len \in 0..(Uint16 - 1) /\ (segment = 0 => len = call.len)
      /\ (segment > 0 => len <= segment)
  BY <1>2, <1>4, SegmentLengths
<1>6. p \in PacketType
  BY <1>5 DEF Packet, PacketType
<1>7. segment = GsoSize(call) /\ call.gso > 0 => len <= call.gso
  BY <1>2, <1>3, <1>4, <1>5, PathAssumption
<1>8. tos % 4 = tos
  OBVIOUS
<1> QED
  BY <1>1, <1>6, <1>7, <1>8 DEF Sendable

\* Every call of Write is of its type.
LEMMA CallTypes ==
  ASSUME NEW len \in Lens, NEW gso \in GsoSizes, NEW ecn \in Ecns
  PROVE  [len |-> len, gso |-> gso, ecn |-> ecn] \in CallType
<1>1. len \in 0..(Uint16 - 1)
  BY PathAssumption
<1> QED
  BY <1>1 DEF CallType

\* Without control messages the kernel neither segments nor marks.
LEMMA NoValues == \A type : Value(<<>>, type) = 0
BY DEF Value

\* WritePacket of either RawConn sends only what Sendable allows.
LEMMA WriteSends ==
  ASSUME TypeOK, RawInv, NEW call \in CallType, OOBWritePacket(call) \/ BasicWritePacket(call)
  PROVE  \A p \in net' : p \in net \/ Sendable(p)
<1> USE DEF ECNUnsupported
<1>1. ASSUME NEW oob, Sends(call, oob),
             Value(oob, "segment") \in {0, GsoSize(call)}, Value(oob, pconn.peer) \in 0..3,
             ~raw.isConnected =>
               /\ Value(oob, "segment") = GsoSize(call)
               /\ call.ecn # 0 => raw.type = "oob" /\ Value(oob, pconn.peer) + 1 = call.ecn
      PROVE  \A p \in net' : p \in net \/ Sendable(p)
  <2> SUFFICES ASSUME NEW p \in net', p \notin net
               PROVE  Sendable(p)
    OBVIOUS
  <2>1. PICK len \in Segments(call.len, Value(oob, "segment")) :
          p = Packet("peer", len, Value(oob, pconn.peer), call)
    BY <1>1, Zenon DEF Sends
  <2> QED
    BY <1>1, <2>1, PacketSendable
<1>2. CASE UNCHANGED net
  BY <1>2
<1>3. CASE raw.type = "basic" /\ GsoSize(call) = 0 /\ call.ecn = 0 /\ Sends(call, <<>>)
  BY <1>1, <1>3, NoValues
<1>4. CASE raw.isConnected /\ Sends(call, <<>>)
  BY <1>1, <1>4, NoValues
<1>5. CASE raw.type = "oob" /\ Target # "nil" /\ Sends(call, ControlMessages(call))
  <2>1. call.ecn \in 0..4
    BY DEF CallType, Ecns
  <2>2. /\ Value(ControlMessages(call), "segment") = GsoSize(call)
        /\ Value(ControlMessages(call), pconn.peer) = IF call.ecn = 0 THEN 0 ELSE call.ecn - 1
    BY <1>5, <2>1, CallValues, HeaderBits
  <2> QED
    BY <1>1, <1>5, <2>1, <2>2
<1> QED
  BY <1>2, <1>3, <1>4, <1>5
     DEF OOBWritePacket, BasicWritePacket, BasicWriterWrite, UsesConnected, Exits, Panics

\* Only a call that asks for a missing capability ends the program, where the
\* socket is one that knows that it is connected.
LEMMA WriteEnds ==
  ASSUME TypeOK, RawInv, fate = "running", NEW call \in CallType,
         OOBWritePacket(call) \/ BasicWritePacket(call)
  PROVE  \/ UNCHANGED endVars
         \/ /\ fate' \in {"exit", "panic"} /\ fatal' = call
            /\ {"RemoteAddr", "ReadWrite"} \subseteq pconn.methods =>
                 \/ call.gso > 0 /\ "GSO" \notin raw.caps
                 \/ call.ecn # ECNUnsupported /\ "ECN" \notin raw.caps
<1>1. call.gso \in Nat
  <2>1. call.gso \in GsoSizes \cup {0}
    BY DEF CallType
  <2> QED
    BY <2>1, GsoNat, Zenon
<1>2. GsoSize(call) \in Nat /\ (GsoSize(call) # 0 => call.gso > 0)
  BY <1>1, GsoSizes16, PathAssumption DEF GsoSize
<1>3. CASE UNCHANGED endVars
  BY <1>3
<1>4. CASE raw.type = "oob" /\ Missing(call) /\ Exits(call)
  BY <1>2, <1>4 DEF Missing, Exits
<1>5. CASE raw.type = "basic" /\ (GsoSize(call) # 0 \/ call.ecn # ECNUnsupported) /\ Exits(call)
  <2>1. "GSO" \notin raw.caps /\ "ECN" \notin raw.caps
    BY <1>5 DEF RawInv
  <2> QED
    BY <1>2, <1>5, <2>1 DEF Exits
<1>6. CASE /\ raw.type = "oob" /\ ~UsesConnected /\ (raw.isConnected \/ Target = "nil")
           /\ Panics(call)
  <2>1. ~({"RemoteAddr", "ReadWrite"} \subseteq pconn.methods)
    BY <1>6 DEF RawInv, UsesConnected, IsConnected, Has, Target
  <2> QED
    BY <1>6, <2>1 DEF Panics
<1> QED
  BY <1>3, <1>4, <1>5, <1>6, Zenon
     DEF OOBWritePacket, BasicWritePacket, BasicWriterWrite, Sends, endVars

-----------------------------------------------------------------------------
(* PacketPath: Read *)

\* The control messages of a received packet: at most two, of which the one with
\* the mark has the packet's traffic class.
LEMMA ControlOf ==
  ASSUME NEW p
  PROVE  \E M : /\ Control(p) \in Seq(M) /\ Len(Control(p)) \in 0..2
                /\ \A i \in 1..Len(Control(p)) :
                     Control(p)[i].type = "tos" => Control(p)[i].value = p.tos
                /\ <<"ecn", pconn.peer>> \in ctlOn =>
                     \E i \in 1..Len(Control(p)) : Control(p)[i].type = "tos"
<1> DEFINE a == [type |-> "pktinfo", value |-> 0]
           b == [type |-> "tos", value |-> p.tos]
           M == {a, b}
<1>1. a.type # "tos" /\ b.type = "tos" /\ b.value = p.tos
  OBVIOUS
<1>2. Control(p) = (IF <<"pi", pconn.peer>> \in ctlOn THEN <<a>> ELSE <<>>)
                   \o (IF <<"ecn", pconn.peer>> \in ctlOn THEN <<b>> ELSE <<>>)
  BY DEF Control
<1> HIDE DEF a, b
<1>3. <<a>> \in Seq(M) /\ <<b>> \in Seq(M) /\ <<>> \in Seq(M)
  OBVIOUS
<1> HIDE DEF M
<1>4. CASE <<"pi", pconn.peer>> \in ctlOn /\ <<"ecn", pconn.peer>> \in ctlOn
  <2>1. Control(p) = <<a>> \o <<b>>
    BY <1>2, <1>4, Zenon
  <2>2. Control(p) \in Seq(M) /\ Len(Control(p)) = 2
    BY <1>3, <2>1
  <2>3. Control(p)[1] = a /\ Control(p)[2] = b
    BY <2>1, TwoMessages
  <2> QED
    BY <1>1, <2>2, <2>3
<1>5. CASE <<"pi", pconn.peer>> \in ctlOn /\ <<"ecn", pconn.peer>> \notin ctlOn
  <2>1. Control(p) = <<a>>
    BY <1>2, <1>3, <1>5
  <2> QED
    BY <1>1, <1>3, <1>5, <2>1
<1>6. CASE <<"pi", pconn.peer>> \notin ctlOn /\ <<"ecn", pconn.peer>> \in ctlOn
  <2>1. Control(p) = <<b>>
    BY <1>2, <1>3, <1>6
  <2> QED
    BY <1>1, <1>3, <1>6, <2>1
<1>7. CASE <<"pi", pconn.peer>> \notin ctlOn /\ <<"ecn", pconn.peer>> \notin ctlOn
  <2>1. Control(p) = <<>>
    BY <1>2, <1>3, <1>7
  <2> QED
    BY <1>3, <1>7, <2>1
<1> QED
  BY <1>4, <1>5, <1>6, <1>7

\* What recvmsg copies of n control messages to a buffer of oobLen: at most n
\* whole messages, and all of them if there is room.
LEMMA ReceivedOob ==
  ASSUME NEW oobLen \in Nat, NEW n \in 0..2
  PROVE  LET oobRead == IF oobLen < MsgSpace * n THEN oobLen ELSE MsgSpace * n IN
         /\ oobRead \in Nat /\ oobRead \div MsgSpace \in 0..n
         /\ oobLen >= MsgSpace * n => oobRead % MsgSpace = 0 /\ oobRead \div MsgSpace = n
<1>1. CASE n = 0
  BY <1>1 DEF MsgSpace
<1>2. CASE n = 1
  BY <1>2 DEF MsgSpace
<1>3. CASE n = 2
  BY <1>3 DEF MsgSpace
<1> QED
  BY <1>1, <1>2, <1>3

\* ReadPacket of an oobConn reports the packet's address and its mark or none;
\* the mark, if it is delivered and the buffer has room for it.
LEMMA OOBReadResult ==
  ASSUME NEW p \in PacketType, NEW oobLen \in Nat
  PROVE  LET r == OOBReadPacket(p, oobLen) IN
         /\ r.err \in BOOLEAN /\ r.ecn \in Ecns
         /\ ~r.err => r.addr = p.from /\ r.ecn \in {ECNUnsupported, (p.tos % 4) + 1}
         /\ oobLen >= MsgSpace * Len(Control(p)) /\ <<"ecn", pconn.peer>> \in ctlOn =>
              ~r.err /\ r.ecn = (p.tos % 4) + 1
<1> DEFINE msgs == Control(p)
           oobRead == IF oobLen < MsgSpace * Len(msgs) THEN oobLen ELSE MsgSpace * Len(msgs)
           parsed == SubSeq(msgs, 1, oobRead \div MsgSpace)
           r == OOBReadPacket(p, oobLen)
<1>1. PICK M : /\ msgs \in Seq(M) /\ Len(msgs) \in 0..2
               /\ \A i \in 1..Len(msgs) : msgs[i].type = "tos" => msgs[i].value = p.tos
               /\ <<"ecn", pconn.peer>> \in ctlOn => \E i \in 1..Len(msgs) : msgs[i].type = "tos"
  BY ControlOf, Zenon
<1>2. p.tos \in 0..7
  BY DEF PacketType
<1>3. p.tos % 4 \in 0..3
  BY <1>2
<1>4. ParseECNHeaderBits(EcnBits(p.tos)) = (p.tos % 4) + 1
  BY <1>3, HeaderBits DEF EcnBits
<1>5. /\ oobRead % MsgSpace # 0 => r = [err |-> TRUE, addr |-> "nil", ecn |-> ECNNon]
      /\ oobRead % MsgSpace = 0 =>
           r = [err |-> FALSE, addr |-> p.from,
                ecn |-> IF \A i \in DOMAIN parsed : parsed[i].type # "tos" THEN ECNUnsupported
                        ELSE ParseECNHeaderBits(EcnBits(Value(parsed, "tos")))]
  BY Zenon DEF OOBReadPacket
<1>6. oobRead \in Nat /\ oobRead \div MsgSpace \in 0..Len(msgs)
  BY <1>1, ReceivedOob, Zenon
<1>7. oobLen >= MsgSpace * Len(msgs) => oobRead % MsgSpace = 0 /\ oobRead \div MsgSpace = Len(msgs)
  BY <1>1, ReceivedOob, Zenon
<1> HIDE DEF msgs, oobRead
<1>8. DOMAIN parsed = 1..(oobRead \div MsgSpace) /\ \A i \in DOMAIN parsed : parsed[i] = msgs[i]
  BY <1>1, <1>6
<1> HIDE DEF parsed
<1>9. DOMAIN parsed \subseteq {1, 2} /\ DOMAIN parsed \subseteq 1..Len(msgs)
  <2> DEFINE n == oobRead \div MsgSpace
             l == Len(msgs)
  <2>1. n \in 0..l /\ l \in 0..2 /\ DOMAIN parsed = 1..n
    BY <1>1, <1>6, <1>8, Zenon
  <2> HIDE DEF n, l
  <2>2. 1..n \subseteq {1, 2} /\ 1..n \subseteq 1..l
    BY <2>1
  <2> QED
    BY <2>1, <2>2, Zenon DEF l
<1>10. \A i \in DOMAIN parsed : parsed[i].type = "tos" => parsed[i].value = p.tos
  BY <1>1, <1>8, <1>9, Zenon
<1>11. Value(parsed, "tos") = IF \E i \in DOMAIN parsed : parsed[i].type = "tos" THEN p.tos ELSE 0
  BY <1>9, <1>10, ValueAgreed, Zenon
<1>12. CASE oobRead % MsgSpace # 0
  <2>1. r.err = TRUE /\ r.ecn = 1
    BY <1>5, <1>12 DEF ECNNon
  <2>2. ~(oobLen >= MsgSpace * Len(Control(p)))
    BY <1>7, <1>12 DEF msgs
  <2>3. r.ecn \in Ecns
    BY <2>1 DEF Ecns
  <2> QED
    BY <2>1, <2>2, <2>3, Zenon
<1>13. CASE oobRead % MsgSpace = 0
  <2>1. /\ r.err = FALSE /\ r.addr = p.from
        /\ r.ecn = IF \A i \in DOMAIN parsed : parsed[i].type # "tos" THEN ECNUnsupported
                   ELSE ParseECNHeaderBits(EcnBits(Value(parsed, "tos")))
    BY <1>5, <1>13
  <2>2. r.ecn = IF \E i \in DOMAIN parsed : parsed[i].type = "tos" THEN (p.tos % 4) + 1
                ELSE ECNUnsupported
    BY <1>4, <1>11, <2>1
  <2>3. oobLen >= MsgSpace * Len(msgs) /\ <<"ecn", pconn.peer>> \in ctlOn =>
          \E i \in DOMAIN parsed : parsed[i].type = "tos"
    BY <1>1, <1>7, <1>8
  <2>4. r.ecn \in {ECNUnsupported, (p.tos % 4) + 1}
    BY <2>2
  <2>5. r.ecn \in Ecns
    BY <1>3, <2>4 DEF Ecns, ECNUnsupported
  <2> QED
    BY <2>1, <2>2, <2>3, <2>4, <2>5, Zenon DEF msgs
<1> QED
  BY <1>12, <1>13

\* The state of a connection that has read nothing is well typed.
LEMMA NoResult ==
  /\ NoCall \in CallType
  /\ Nothing \in [res : {"none", "data", "error"}, ecn : Ecns, oobLen : OobLens \cup {0},
                 p : PacketType]
  /\ Nothing.res = "none" /\ "none" # "data"
<1>1. 0 \in 0..(Uint16 - 1) /\ 0 \in 0..7
  BY PathAssumption
<1>2. ECNUnsupported \in Ecns
  BY DEF Ecns, ECNUnsupported
<1>3. NoCall \in CallType
  BY <1>1, <1>2, Zenon DEF NoCall, CallType
<1> DEFINE none == Packet("peer", 0, 0, NoCall)
<1>4. none \in PacketType
  BY <1>1, <1>3, Zenon DEF Packet, PacketType
<1> HIDE DEF none
<1>5. [res |-> "none", ecn |-> ECNUnsupported, oobLen |-> 0, p |-> none]
        \in [res : {"none", "data", "error"}, ecn : Ecns, oobLen : OobLens \cup {0},
             p : PacketType]
  BY <1>2, <1>4
<1>6. Nothing = [res |-> "none", ecn |-> ECNUnsupported, oobLen |-> 0, p |-> none]
  BY Zenon DEF Nothing, none
<1> QED
  BY <1>3, <1>5, <1>6

\* What a call of Read leaves in got is well-typed and true of the packet, and
\* the mark of an unconnected socket's Write is in it.
LEMMA ReadGot ==
  ASSUME TypeOK, RawInv, NetInv, NEW p \in net, NEW oobLen \in OobLens, UNCHANGED setupVars,
         LET r == IF raw.type = "oob" THEN OOBReadPacket(p, oobLen) ELSE BasicReadPacket(p) IN
         got' = IF Ignored(r.addr) THEN Nothing
                ELSE [res |-> IF r.err THEN "error" ELSE "data",
                      ecn |-> r.ecn, oobLen |-> oobLen, p |-> p]
  PROVE  /\ got' \in [res : {"none", "data", "error"}, ecn : Ecns, oobLen : OobLens \cup {0},
                      p : PacketType]
         /\ (ReadTruthful /\ MarkArrives)'
<1> DEFINE r == IF raw.type = "oob" THEN OOBReadPacket(p, oobLen) ELSE BasicReadPacket(p)
<1>1. p \in PacketType /\ oobLen \in Nat
  BY PathAssumption DEF TypeOK
<1>2. p.from \in {"peer", "other"} /\ p.tos \in 0..7
  BY <1>1 DEF PacketType
<1>3. /\ r.err \in BOOLEAN /\ r.ecn \in Ecns
      /\ ~r.err => /\ r.addr = p.from \/ raw.isConnected
                   /\ r.ecn \in {ECNUnsupported, (p.tos % 4) + 1}
  <2>1. CASE raw.type = "oob"
    BY <1>1, <2>1, OOBReadResult, Zenon
  <2>2. CASE raw.type # "oob"
    <3>1. r.err = FALSE /\ r.addr = (IF UsesConnected THEN "nil" ELSE p.from) /\ r.ecn = ECNUnsupported
      BY <2>2 DEF BasicReadPacket
    <3> QED
      <4>1. r.addr = p.from \/ raw.isConnected
        BY <3>1, Zenon DEF UsesConnected
      <4>2. r.ecn \in Ecns
        BY <3>1 DEF Ecns, ECNUnsupported
      <4> QED
        BY <3>1, <4>1, <4>2, Zenon
  <2> QED
    BY <2>1, <2>2, Zenon
<1>4. /\ got' = IF Ignored(r.addr) THEN Nothing
               ELSE [res |-> IF r.err THEN "error" ELSE "data",
                     ecn |-> r.ecn, oobLen |-> oobLen, p |-> p]
  OBVIOUS
<1>5. raw.type = "oob" => r = OOBReadPacket(p, oobLen)
  OBVIOUS
<1> HIDE DEF r
<1>6. CASE Ignored(r.addr)
  <2>1. got' = Nothing
    BY <1>4, <1>6
  <2> QED
    BY <2>1, NoResult, Zenon DEF ReadTruthful, MarkArrives
<1>7. CASE ~Ignored(r.addr)
  <2>1. /\ got' = [res |-> IF r.err THEN "error" ELSE "data", ecn |-> r.ecn, oobLen |-> oobLen, p |-> p]
        /\ got'.res = "data" => ~r.err
        /\ got'.ecn = r.ecn /\ got'.oobLen = oobLen /\ got'.p = p
    <3>1. got' = [res |-> IF r.err THEN "error" ELSE "data", ecn |-> r.ecn, oobLen |-> oobLen, p |-> p]
      BY <1>4, <1>7, Zenon
    <3> QED
      BY <3>1, SMTT(30)
  <2>2. got' \in [res : {"none", "data", "error"}, ecn : Ecns, oobLen : OobLens \cup {0},
                  p : PacketType]
    <3>1. r.ecn \in Ecns /\ oobLen \in OobLens \cup {0} /\ p \in PacketType
      BY <1>1, <1>3, Zenon
    <3>2. (IF r.err THEN "error" ELSE "data") \in {"none", "data", "error"}
      OBVIOUS
    <3>3. got' = [res |-> IF r.err THEN "error" ELSE "data", ecn |-> r.ecn, oobLen |-> oobLen, p |-> p]
      BY <2>1
    <3> QED
      BY <3>1, <3>2, <3>3
  <2>3. got'.res = "data" => p.from = "peer"
    <3>1. CASE pconn.connected
      BY <3>1 DEF NetInv
    <3>2. CASE ~pconn.connected
      <4>1. Target = "peer" /\ ~raw.isConnected
        BY <3>2, Zenon DEF Target, RawInv, IsConnected
      <4> QED
        BY <1>2, <1>3, <1>7, <2>1, <4>1, Zenon DEF Ignored
    <3> QED
      BY <3>1, <3>2
  <2>4. ReadTruthful'
    BY <1>3, <2>1, <2>3 DEF ReadTruthful
  <2>5. ASSUME ~raw.isConnected, p.call.ecn # ECNUnsupported, pconn.peer \in Supported("ecn"),
               oobLen >= MsgSpace * Len(Control(p))
        PROVE  r.ecn = IF p.ce THEN ECNCE ELSE p.call.ecn
    <3>1. raw.type = "oob" /\ (p.tos % 4) + 1 = IF p.ce THEN ECNCE ELSE p.call.ecn
      BY <2>5 DEF NetInv
    <3>2. <<"ecn", pconn.peer>> \in ctlOn
      BY <2>5, <3>1 DEF RawInv, ReportsECN
    <3>3. r.ecn = (p.tos % 4) + 1
      BY <1>1, <1>5, <2>5, <3>1, <3>2, OOBReadResult
    <3> QED
      BY <3>1, <3>3, Zenon
  <2>6. UNCHANGED <<raw, pconn, Supported("ecn"), Control(p)>>
    BY Zenon DEF setupVars, fixed, optVars, Supported, Control
  <2>7. MarkArrives'
    <3>1. Control(got.p)' = Control(p)'
      BY <2>1, Zenon DEF Control
    <3> QED
      BY <2>1, <2>5, <2>6, <3>1, Zenon DEF MarkArrives
  <2> QED
    BY <2>2, <2>4, <2>7
<1> QED
  BY <1>6, <1>7

-----------------------------------------------------------------------------
(* PacketPath: the steps *)

\* Set-up happens before there are packets; afterwards only the owner's Close
\* does, which no property of the packets depends on.
LEMMA SetupKeepsPath ==
  ASSUME TypeOK, RawInv, PathInv, SetupNext, UNCHANGED pathVars
  PROVE  PathInv'
<1> UNCHANGED <<net, got, nWrites, fate, fatal>>
  BY DEF pathVars, endVars
<1>1. CASE pc # "ready"
  <2>1. net' = {} /\ got'.res = "none" /\ got' = Nothing /\ fate' = "running"
    BY <1>1, NoResult, Zenon DEF PathInv, NetInv
  <2> QED
    BY <2>1 DEF PathInv, NetInv, ReadTruthful, MarkArrives, SegmentsHonoured, GSOHonoured,
                OnlyInvalidWritesFatal
<1>2. CASE pc = "ready"
  <2>1. UNCHANGED <<fixed, ctlOn, raw, pc>>
    <3>1. SocketCloses \/ DialFails \/ Dial \/ SetBuffer \/ WrapDF
      BY <1>2 DEF SetupNext, SetReceiveBuffer, SetSendBuffer, BasicFallback, NewConnWindows,
                  ActivateControl, NewOOBConn
    <3> QED
      BY <1>2, <3>1, RawFrame DEF TypeOK
  <2>2. UNCHANGED <<host, pconn, Supported("ecn")>>
    BY <2>1, FixedKeeps
  <2>3. UNCHANGED Control(got.p)
    BY <2>1, <2>2 DEF Control
  <2>4. UNCHANGED <<NetInv, ReadTruthful, MarkArrives>>
    BY <2>1, <2>2, <2>3, Zenon DEF NetInv, ReadTruthful, MarkArrives
  <2>5. UNCHANGED <<SegmentsHonoured, OnlyInvalidWritesFatal>>
    BY <2>1, <2>2 DEF SegmentsHonoured, GSOHonoured, OnlyInvalidWritesFatal
  <2> QED
    BY <2>4, <2>5 DEF PathInv
<1> QED
  BY <1>1, <1>2

\* What was read stays true while got stays.
LEMMA GotKept ==
  ASSUME ReadTruthful, MarkArrives, UNCHANGED <<setupVars, got>>
  PROVE  (ReadTruthful /\ MarkArrives)'
<1>1. UNCHANGED <<raw, pconn, Supported("ecn"), Control(got.p)>>
  BY DEF setupVars, fixed, optVars, Supported, Control
<1> QED
  BY <1>1 DEF ReadTruthful, MarkArrives

\* What a packet on the network may be.
Travels(p) ==
  /\ p \in PacketType
  /\ pconn.connected => p.from = "peer"
  /\ ~raw.isConnected =>
       /\ p.call.gso > 0 => p.len <= p.call.gso
       /\ p.call.ecn # ECNUnsupported =>
            raw.type = "oob" /\ (p.tos % 4) + 1 = IF p.ce THEN ECNCE ELSE p.call.ecn

\* The invariants of the network are those of each packet.
LEMMA NetTravels ==
  ASSUME TypeOK, PathInv
  PROVE  \A p \in net : Travels(p)
BY DEF TypeOK, PathInv, NetInv, SegmentsHonoured, GSOHonoured, Travels

\* A step of the packets keeps the invariants of the network if every packet it
\* leaves there may be there.
LEMMA NetKept ==
  ASSUME pc = "ready", UNCHANGED setupVars, \A p \in net' : Travels(p)
  PROVE  (NetInv /\ SegmentsHonoured /\ \A p \in net : p \in PacketType)'
<1>1. UNCHANGED <<pc, pconn, raw>>
  BY DEF setupVars, fixed
<1> QED
  BY <1>1 DEF NetInv, SegmentsHonoured, GSOHonoured, Travels

\* A router's mark or DSCP leaves a packet one that may travel.
LEMMA RoutedTravels ==
  ASSUME NEW p, Travels(p)
  PROVE  /\ p.tos % 4 \in {1, 2} => Travels([p EXCEPT !.tos = @ - (@ % 4) + 3, !.ce = TRUE])
         /\ p.tos < 4 => Travels([p EXCEPT !.tos = @ + 4])
<1>1. p \in PacketType /\ p.tos \in 0..7
  BY DEF Travels, PacketType
<1>2. ASSUME p.tos % 4 \in {1, 2}
      PROVE  Travels([p EXCEPT !.tos = @ - (@ % 4) + 3, !.ce = TRUE])
  <2> DEFINE q == [p EXCEPT !.tos = @ - (@ % 4) + 3, !.ce = TRUE]
  <2>1. p.tos - (p.tos % 4) + 3 \in 0..7 /\ (p.tos - (p.tos % 4) + 3) % 4 = 3
    BY <1>1, <1>2
  <2>2. q \in PacketType
    BY <1>1, <2>1, Zenon DEF PacketType
  <2>3. q.from = p.from /\ q.len = p.len /\ q.call = p.call /\ q.ce = TRUE
        /\ q.tos = p.tos - (p.tos % 4) + 3
    BY <1>1 DEF PacketType
  <2>4. q.tos % 4 = 3
    BY <2>1, <2>3
  <2> HIDE DEF q
  <2>5. Travels(q)
    BY <2>2, <2>3, <2>4, SMTT(30) DEF Travels, ECNCE
  <2> QED
    BY <2>5 DEF q
<1>3. ASSUME p.tos < 4
      PROVE  Travels([p EXCEPT !.tos = @ + 4])
  <2> DEFINE q == [p EXCEPT !.tos = @ + 4]
  <2>1. p.tos + 4 \in 0..7 /\ (p.tos + 4) % 4 = p.tos % 4
    BY <1>1, <1>3
  <2>2. q \in PacketType
    BY <1>1, <2>1 DEF PacketType
  <2>3. q.from = p.from /\ q.len = p.len /\ q.call = p.call /\ q.ce = p.ce /\ q.tos = p.tos + 4
    BY <1>1 DEF PacketType
  <2> HIDE DEF q
  <2>4. Travels(q)
    BY <2>1, <2>2, <2>3 DEF Travels
  <2> QED
    BY <2>4 DEF q
<1> QED
  BY <1>2, <1>3

\* Write keeps the types and the invariants of the packets.
LEMMA WriteStep ==
  ASSUME TypeOK, RawInv, PathInv, Write
  PROVE  (TypeOK /\ PathInv)'
<1>1. /\ pc = "ready" /\ fate = "running" /\ UNCHANGED <<setupVars, got>>
      /\ nWrites < MaxWrites /\ nWrites' = nWrites + 1
  BY DEF Write, Running
<1>2. PICK call \in CallType : OOBWritePacket(call) \/ BasicWritePacket(call)
  BY CallTypes, Zenon DEF Write
<1>3. \A p \in net' : Travels(p)
  <2>1. \A p \in net' : p \in net \/ Sendable(p)
    BY <1>2, WriteSends
  <2>2. \A p : Sendable(p) => Travels(p)
    BY DEF Sendable, Travels
  <2> QED
    BY <2>1, <2>2, NetTravels, Zenon
<1>4. (NetInv /\ SegmentsHonoured /\ \A p \in net : p \in PacketType)'
  BY <1>1, <1>3, NetKept
<1>5. (ReadTruthful /\ MarkArrives)'
  BY <1>1, GotKept DEF PathInv
<1>6. \/ UNCHANGED endVars
      \/ /\ fate' \in {"exit", "panic"} /\ fatal' = call
         /\ {"RemoteAddr", "ReadWrite"} \subseteq pconn.methods =>
              \/ call.gso > 0 /\ "GSO" \notin raw.caps
              \/ call.ecn # ECNUnsupported /\ "ECN" \notin raw.caps
  BY <1>1, <1>2, WriteEnds
<1>7. OnlyInvalidWritesFatal' /\ fate' \in {"running", "exit", "panic"} /\ fatal' \in CallType
  <2>1. UNCHANGED <<pconn, raw>>
    BY <1>1 DEF setupVars, fixed
  <2>2. fatal \in CallType
    BY DEF TypeOK
  <2>3. CASE UNCHANGED endVars
    BY <1>1, <2>2, <2>3 DEF endVars, OnlyInvalidWritesFatal
  <2>4. CASE ~UNCHANGED endVars
    BY <1>6, <2>1, <2>4 DEF OnlyInvalidWritesFatal
  <2> QED
    BY <2>3, <2>4
<1>8. TypeOK'
  <2>1. SetupTypeOK'
    BY <1>1 DEF TypeOK, SetupTypeOK, setupVars, fixed, bufVars, optVars
  <2>2. nWrites' \in 0..MaxWrites
    BY <1>1, PathAssumption DEF TypeOK
  <2> QED
    BY <1>1, <1>4, <1>7, <2>1, <2>2 DEF TypeOK
<1> QED
  BY <1>4, <1>5, <1>7, <1>8 DEF PathInv

\* The network keeps the types and the invariants of the packets.
LEMMA NetworkStep ==
  ASSUME TypeOK, PathInv, RouterMarks \/ RouterSetsDSCP \/ ForeignPacket
  PROVE  (TypeOK /\ PathInv)'
<1>1. pc = "ready" /\ UNCHANGED <<setupVars, got, nWrites, fate, fatal>>
  BY Zenon DEF RouterMarks, RouterSetsDSCP, ForeignPacket, Running, endVars
<1>2. \A p \in net' : Travels(p)
  <2>1. ASSUME NEW p \in net, NEW q, Becomes(p, q), Travels(q)
        PROVE  \A x \in net' : Travels(x)
    BY <2>1, NetTravels DEF Becomes
  <2>2. CASE RouterMarks
    BY <2>1, <2>2, NetTravels, RoutedTravels, Zenon DEF RouterMarks
  <2>3. CASE RouterSetsDSCP
    BY <2>1, <2>3, NetTravels, RoutedTravels, Zenon DEF RouterSetsDSCP
  <2>4. CASE ForeignPacket
    <3> DEFINE q == Packet("other", 1, 2, NoCall)
    <3>1. NoCall \in CallType /\ NoCall.gso = 0 /\ NoCall.ecn = ECNUnsupported
      BY PathAssumption DEF NoCall, CallType, Ecns, ECNUnsupported
    <3>2. 1 \in 0..(Uint16 - 1)
      BY PathAssumption
    <3>3. q \in PacketType /\ q.call = NoCall
      BY <3>1, <3>2 DEF Packet, PacketType
    <3>4. net' = net \cup {q} /\ ~pconn.connected
      BY <2>4 DEF ForeignPacket
    <3> HIDE DEF q
    <3>5. Travels(q)
      BY <3>1, <3>3, <3>4 DEF Travels
    <3> QED
      BY <3>4, <3>5, NetTravels
  <2> QED
    BY <2>2, <2>3, <2>4
<1>3. (NetInv /\ SegmentsHonoured /\ \A p \in net : p \in PacketType)'
  BY <1>1, <1>2, NetKept
<1>4. (ReadTruthful /\ MarkArrives)'
  BY <1>1, GotKept DEF PathInv
<1>5. OnlyInvalidWritesFatal'
  BY <1>1 DEF PathInv, OnlyInvalidWritesFatal, setupVars, fixed
<1>6. SetupTypeOK'
  BY <1>1 DEF TypeOK, SetupTypeOK, setupVars, fixed, bufVars, optVars
<1>7. TypeOK'
  BY <1>1, <1>3, <1>6 DEF TypeOK
<1> QED
  BY <1>3, <1>4, <1>5, <1>7 DEF PathInv

\* Read keeps the types and the invariants of the packets.
LEMMA ReadStep ==
  ASSUME TypeOK, RawInv, PathInv, Read
  PROVE  (TypeOK /\ PathInv)'
<1>1. pc = "ready" /\ UNCHANGED <<setupVars, nWrites, fate, fatal>>
  BY DEF Read, Running, endVars
<1>2. PICK p \in net, oobLen \in OobLens :
        LET r == IF raw.type = "oob" THEN OOBReadPacket(p, oobLen) ELSE BasicReadPacket(p) IN
        /\ net' = net \ {p}
        /\ got' = IF Ignored(r.addr) THEN Nothing
                  ELSE [res |-> IF r.err THEN "error" ELSE "data",
                        ecn |-> r.ecn, oobLen |-> oobLen, p |-> p]
  BY DEF Read
<1>3. /\ got' \in [res : {"none", "data", "error"}, ecn : Ecns, oobLen : OobLens \cup {0},
                   p : PacketType]
      /\ (ReadTruthful /\ MarkArrives)'
  BY <1>1, <1>2, ReadGot, Zenon DEF PathInv
<1>4. \A q \in net' : Travels(q)
  BY <1>2, NetTravels
<1>5. (NetInv /\ SegmentsHonoured /\ \A q \in net : q \in PacketType)'
  BY <1>1, <1>4, NetKept
<1>6. OnlyInvalidWritesFatal'
  BY <1>1 DEF PathInv, OnlyInvalidWritesFatal, setupVars, fixed
<1>7. SetupTypeOK'
  BY <1>1 DEF TypeOK, SetupTypeOK, setupVars, fixed, bufVars, optVars
<1>8. TypeOK'
  BY <1>1, <1>3, <1>5, <1>7 DEF TypeOK
<1> QED
  BY <1>3, <1>5, <1>6, <1>8 DEF PathInv

\* The invariants of the set-up do not mention the packets.
LEMMA SetupKept ==
  ASSUME UNCHANGED setupVars
  PROVE  UNCHANGED <<BufferInv, RawInv, HonestInv>>
<1>1. UNCHANGED <<host, pconn, open, limit, bufSize, dialed, dir, size, verdict, dfOn, ctlOn,
                  supportsDF, pc, raw>>
  BY DEF setupVars, fixed, bufVars, optVars
<1>2. UNCHANGED BufferInv
  BY <1>1 DEF BufferInv, Dialed, BufferVerdictExact, DialedSizeKept, Has
<1>3. UNCHANGED RawInv
  BY <1>1 DEF RawInv, ReportsECN, Supported, IsConnected, Has
<1>4. UNCHANGED HonestInv
  BY <1>1 DEF HonestInv, CapabilitiesHonest, Supported
<1> QED
  BY <1>2, <1>3, <1>4

\* Every step keeps the inductive invariant.
LEMMA IndStep ==
  ASSUME IndInv, [Next]_vars
  PROVE  IndInv'
<1>1. CASE SetupNext /\ UNCHANGED pathVars
  <2>1. SetupTypeOK' /\ BufferInv' /\ RawInv'
    BY <1>1, SetupTypeStep, BufferStep, RawStep DEF IndInv, TypeOK
  <2>2. TypeOK'
    BY <1>1, <2>1 DEF IndInv, TypeOK, pathVars, endVars
  <2>3. PathInv'
    BY <1>1, SetupKeepsPath DEF IndInv
  <2> QED
    BY <2>1, <2>2, <2>3 DEF IndInv
<1>2. CASE Write \/ RouterMarks \/ RouterSetsDSCP \/ ForeignPacket \/ Read
  <2>1. UNCHANGED setupVars
    BY <1>2, Zenon DEF Write, RouterMarks, RouterSetsDSCP, ForeignPacket, Read
  <2>2. BufferInv' /\ RawInv'
    BY <2>1, SetupKept DEF IndInv
  <2>3. (TypeOK /\ PathInv)'
    BY <1>2, WriteStep, NetworkStep, ReadStep DEF IndInv
  <2> QED
    BY <2>2, <2>3 DEF IndInv
<1>3. CASE UNCHANGED vars
  <2>1. UNCHANGED <<setupVars, net, got, nWrites, fate, fatal>>
    BY <1>3 DEF vars, pathVars, endVars
  <2>2. BufferInv' /\ RawInv'
    BY <2>1, SetupKept DEF IndInv
  <2>3. TypeOK'
    <3>1. SetupTypeOK'
      BY <2>1 DEF IndInv, TypeOK, SetupTypeOK, setupVars, fixed, bufVars, optVars
    <3> QED
      BY <2>1, <3>1 DEF IndInv, TypeOK
  <2>4. (ReadTruthful /\ MarkArrives)'
    BY <2>1, GotKept DEF IndInv, PathInv
  <2>5. (NetInv /\ SegmentsHonoured /\ OnlyInvalidWritesFatal)'
    BY <2>1 DEF IndInv, PathInv, NetInv, SegmentsHonoured, GSOHonoured, OnlyInvalidWritesFatal,
                setupVars, fixed
  <2> QED
    BY <2>2, <2>3, <2>4, <2>5 DEF IndInv, PathInv
<1> QED
  BY <1>1, <1>2, <1>3 DEF Next

-----------------------------------------------------------------------------
(* Theorems *)

\* The inductive invariant holds before Dial or WrapConn begins.
LEMMA IndInit == Init => IndInv
<1> SUFFICES ASSUME Init
             PROVE  IndInv
  OBVIOUS
<1> USE DEF Init, SetupInit
<1>1. SetupTypeOK
  <2>1. bufSize \in [Dirs -> 0..MaxReported] /\ dialed \in [Dirs -> 0..MaxReported] /\ size \in 0..MaxReported
    BY SetupAssumption, ReportedSizes
  <2>2. raw \in [type : {"none", "basic", "oob"}, isConnected : BOOLEAN,
                 caps : SUBSET {"DF", "GSO", "ECN"}]
    BY DEF NoRaw
  <2> QED
    BY <2>1, <2>2, Zenon DEF SetupTypeOK, Dirs
<1>2. TypeOK
  <2>1. /\ fatal \in CallType
        /\ got \in [res : {"none", "data", "error"}, ecn : Ecns, oobLen : OobLens \cup {0},
                   p : PacketType]
    BY NoResult, Zenon
  <2>2. nWrites \in 0..MaxWrites
    BY PathAssumption
  <2> QED
    BY <1>1, <2>1, <2>2, Zenon DEF TypeOK
<1>3. BufferInv
  <2>1. \A d \in Dirs : bufSize[d] \in Nat /\ dialed[d] = 0 /\ verdict[d] = "none"
    BY SetupAssumption
  <2>2. pc = "dial" => Dialed
    BY Zenon
  <2>3. dir = "rcv" /\ pc \in {"dial", "bufBegin"} /\ limit \in Nat
    BY SetupAssumption
  <2> QED
    BY <2>1, <2>2, <2>3 DEF BufferInv, BufferPcs, BufferVerdictExact, DialedSizeKept
<1>4. RawInv
  BY DEF RawInv, NoRaw
<1>5. PathInv
  <2>1. got.res = "none"
    BY DEF Nothing
  <2> QED
    BY <2>1 DEF PathInv, NetInv, ReadTruthful, MarkArrives, SegmentsHonoured, GSOHonoured,
                OnlyInvalidWritesFatal
<1> QED
  BY <1>2, <1>3, <1>4, <1>5 DEF IndInv

\* IndInv holds throughout set-up, Writes, Reads and whatever the network does.
THEOREM PacketPathInvariance == Spec => []IndInv
BY IndInit, IndStep, PTL DEF Spec

\* Every variable of the set-up, the packets and the calls stays in its type.
THEOREM PacketPathTypes == Spec => []TypeOK
<1>1. IndInv => TypeOK
  BY DEF IndInv
<1> QED
  BY <1>1, PacketPathInvariance, PTL

\* SetReceiveBuffer and SetSendBuffer return nil only if the buffer has the
\* desired size, and an error on an open socket only if it has not.
THEOREM BufferVerdicts == Spec => []BufferVerdictExact
<1>1. IndInv => BufferVerdictExact
  BY DEF IndInv, BufferInv
<1> QED
  BY <1>1, PacketPathInvariance, PTL

\* WrapConn never takes away from the buffer sizes that Dial set.
THEOREM DialedSizes == Spec => []DialedSizeKept
<1>1. IndInv => DialedSizeKept
  BY DEF IndInv, BufferInv
<1> QED
  BY <1>1, PacketPathInvariance, PTL

\* Capabilities() promises nothing the kernel does not do, on hosts whose
\* releases kernelVersion and getMacOSVersion parse as their versions.
THEOREM HonestCapabilities ==
  ASSUME VersionsParsed
  PROVE  Spec => []CapabilitiesHonest
<1>1. Init => HonestInv
  BY DEF Init, SetupInit, HonestInv, CapabilitiesHonest
<1>2. IndInv /\ HonestInv /\ [Next]_vars => HonestInv'
  <2> SUFFICES ASSUME IndInv, HonestInv, [Next]_vars
               PROVE  HonestInv'
    OBVIOUS
  <2>1. CASE SetupNext
    BY <2>1, HonestStep DEF IndInv, TypeOK
  <2>2. CASE UNCHANGED setupVars
    BY <2>2, SetupKept
  <2> QED
    BY <2>1, <2>2, Zenon DEF Next, Write, RouterMarks, RouterSetsDSCP, ForeignPacket, Read, vars
<1>3. HonestInv => CapabilitiesHonest
  BY DEF HonestInv
<1> QED
  BY <1>1, <1>2, <1>3, PacketPathInvariance, PTL DEF Spec

\* Read returns data of the connection's own remote address only, and a mark
\* that it reports is the one in the packet's header.
THEOREM TruthfulReads == Spec => []ReadTruthful
<1>1. IndInv => ReadTruthful
  BY DEF IndInv, PathInv
<1> QED
  BY <1>1, PacketPathInvariance, PTL

\* Between unconnected sockets a mark given to Write arrives as it was given, or
\* as CE if the network made it that.
THEOREM MarksArrive == Spec => []MarkArrives
<1>1. IndInv => MarkArrives
  BY DEF IndInv, PathInv
<1> QED
  BY <1>1, PacketPathInvariance, PTL

\* On unconnected sockets no datagram is longer than the gsoSize of its Write,
\* for every gsoSize that is cut to 16 bits.
THEOREM SegmentSizes == Spec => []SegmentsHonoured
<1>1. IndInv => SegmentsHonoured
  BY DEF IndInv, PathInv
<1> QED
  BY <1>1, PacketPathInvariance, PTL

\* On connections like net.UDPConn only a Write that asks for a capability the
\* RawConn has not ends the program.
THEOREM FatalWrites == Spec => []OnlyInvalidWritesFatal
<1>1. IndInv => OnlyInvalidWritesFatal
  BY DEF IndInv, PathInv
<1> QED
  BY <1>1, PacketPathInvariance, PTL
=============================================================================
