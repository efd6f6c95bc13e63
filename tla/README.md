# Verification of go-udp

TLA+ specifications of `go-udp`, model-checked with TLC on small instances; their
safety properties and refinements are proved with TLAPS for all instances. The
reference is the Go code; every definition that models code is listed with its
lines in `PROJECT.json` (`map`).

## The system and its parts

| part | source | modelled in |
|---|---|---|
| `supConn`: one UDP socket split into one `Conn` per remote address | `super.go`, `listener.go`, `defs.go` | `SuperConn`, `Demux` |
| `Conn`: `Read`, `Write`, `Close` of one remote | `conn.go` | `SuperConn` |
| `batchReader`: datagrams fetched in batches | `raw/sys_conn_oob_reader.go` | `BatchReader`, `RawReader` |
| `batchWriter`: packets queued and flushed in batches | `raw/sys_conn_oob_writer.go` | `BatchWriter` |
| `oobConn`: reader, writer and control messages over one socket | `raw/sys_conn_oob.go` | `PacketPath`; `newConn` in `SocketSetup`, `Close` in `BatchReader` |
| `SingleAddrConn`, `Dial`, `Wrap*Conn` | `connected.go`, `dial.go` | `SocketSetup` (`Dial`), `PacketPath` |
| `BasicConn` | `raw/sys_conn_basic.go`, `raw/sys_conn_no_oob.go` | `PacketPath` |
| socket set-up: `WrapConn`, buffer sizes, DF | `raw/sys_conn.go`, `raw/sys_conn_buffers*.go`, `raw/sys_conn_df*.go` | `SocketSetup` |
| platform helpers, `types` | `raw/sys_conn_helper_*.go`, `raw/sys_conn_windows.go`, `types/` | `SocketSetup` (versions, probes, capabilities), `PacketPath` (ECN codes, segment size) |
| logging | `log/log.go` | `PacketPath`: `Log` at panic level ends the program |

How they interact. `Listen` wraps a UDP socket into a `RawConn` (`oobConn`) and
calls `wrapConn`, which starts two goroutines: the *read loop*, which calls
`RawConn.ReadPacket` and dispatches every packet to the `Conn` of its sender,
creating one and offering it on `acceptCh` for a new sender; and the *closer*,
which waits until `connWG` is zero and closes the socket. `connWG` counts the
listener and the accepted Conns. `readWG` counts the two goroutines; the last
`Close` waits for it. `oobConn` reads through a `batchReader` and writes either
directly (`basicWriter`) or through a `batchWriter` with its own flush goroutine.
`Dial` makes a connected socket, lets `WrapConn` make a `RawConn` of it as well and
puts a `SingleAddrConn` around that. `WrapConn` decides, from what the Go type and
the operating system offer, between `oobConn` and `BasicConn`, and records which
capabilities the connection has.

## Modules

| module | contents |
|---|---|
| `SuperConn` | state, actions, fairness and properties of `supConn` and `Conn` |
| `SuperConnInv` | the inductive invariants |
| `SuperConnTypeProofs` | TLAPS: helper lemmas, type correctness is preserved |
| `SuperConnProofs` | TLAPS: `IndInv` is inductive; counting, routing, draining |
| `SuperConnShutdownProofs` | TLAPS: shutdown, and what holds unless `supConn.Close` overtakes an `Accept` |
| `SuperConnQueueProofs` | TLAPS: where packets and buffers are |
| `SuperConnDemuxProofs` | TLAPS: `SuperConn` implements `Demux` |
| `Demux` | abstract specification: what the listener and its Conns promise about packets |
| `SuperConnDemux` | refinement mapping from `SuperConn` to `Demux` |
| `MCSuperConn` | TLC instance (symmetry) |
| `RawReader` | abstract specification: what `readLoop` relies on in `ReadPacket` |
| `BatchReader` | `batchReader` and `oobConn.Close` |
| `BatchReaderProofs` | TLAPS: its invariants, and that it implements `RawReader` |
| `BatchWriter` | `batchWriter` and its worker |
| `BatchWriterProofs` | TLAPS: its invariants |
| `SocketSetup` | `Dial` and `WrapConn`: buffer sizes, DF, control messages, capabilities |
| `PacketPath` | `Write` and `Read` over the `RawConn` that `SocketSetup` made, and the network between |
| `PacketPathProofs` | TLAPS: the invariants of `SocketSetup` and `PacketPath` |
| `MCPacketPath` | TLC instance: hosts and connections; evaluates `VersionsParsed` on them |

Definitions named `<definition>_<bug>` stand directly before the definition they
vary. No specification uses them; they are the plausible slips that show that a
property can fail (`PROJECT.json`, `mutants`).

### SuperConn

Packets are numbered in order of arrival, `src[n]` is the sender of packet `n`,
and the `Conn` created for packet `n` is called `n`. So Conns have identities and
an address may have several Conns one after another, as in the code.

| state | code |
|---|---|
| `accepting`, `doneCh`, `acceptCh`, `conns`, `connLock`, `connWG`, `readWG`, `errClose` | the fields of `supConn`; channels are "closed?" flags or buffers |
| `readDone` | `readDoneCh` is closed |
| `sock`, `src` | the socket and what it has received (external) |
| `rlPc`, `rlPkt`, `rlConn` | `readLoop` with its locals |
| `closer` | the goroutine of `wrapConn`; `blocked`/`woken` are the two halves of `connWG.Wait` |
| `lcPc`, `lcN`, `lcErr` | `supConn.Close` with `nConns` and `err` |
| `lateAdd` | history: `supConn.Close` called `connWG.Done` while an `Accept` was between its receive from `acceptCh` and `connWG.Add(1)`; no guard reads it |
| `accPc`, `accConn` | calls of `Accept`; `parked` is blocked in the `select` |
| `st`, `ccN`, `ccErr` | life cycle of a `Conn`, its `Close` included, and that call's locals |
| `cDone`, `queue`, `qClosed` | `Conn.doneCh`, `Conn.queue` |
| `rdPc`, `rdPkt`, `rdLast`, `rdRes`, `wr` | calls of `Conn.Read` and `Conn.Write` |
| `pooled` | packets whose buffers are back in `bufPool`/`oobPool` |
| `panic` | why the program ended, if it did |

Each Go statement that another goroutine can observe is one action.
`readLoop`: `ReadPacket`, `ReadFailsOpen`, `ReadFailsClosed`,
`ReadLoopCloseReadDone`, `ReadLoopWGDone`; `getSubConn`: `Lookup`, `SendAccept`,
`SendExceeded`, `Insert` (the last three inside `connLock`); `dispatchMsg`:
`Push`. The closer: `CloserWait`, `CloserWoken`, `CloserClosing`, `CloserClosed`,
`CloserDone`. `Accept`: `Accept`, `AcceptTimeout`, `AcceptAdd`. `supConn.Close`:
`CloseBegin`, `CloseDoneCh`, `CloseLock`, `CloseDrain`, `CloseDrained`,
`CloseWGDone`, `CloseWait`. `Conn.Close`: `ConnClose`, `ConnCloseDoneCh`,
`ConnDelete`, `ConnCheckFinal`, `ConnWait`, `ConnQueueClose`. `Read`: `Read`,
`ReadPop`, `ReadClosed`, `ReadTimeout`, `ReadRelease`. `Write`: `Write`,
`WritePacket`.

Go semantics: closing a channel releases the goroutines parked on it in the same
step; a send finds a parked receiver before the buffer; `select` picks any ready
case; `WaitGroup.Done` below zero, a counter raised again before a released `Wait`
has returned, and closing a closed channel panic and end the program.
`sync.Once` makes each `Close` run once, so a repeated call is not an action: it
waits for the first one and returns nil. `acceptFilter` is a free choice. Which
error an `Accept` returns is left out: no state depends on it.
Packet contents, `ECN` and address formatting are abstracted: an address is its
string.

`Demux` says what all this is for, without locks, channels and wait groups: a
packet arrives; it is lost, or a Conn comes up for its sender, at most one at a
time, or it is delivered to the Conn that is up; a Conn gives its packets out in
order; it goes down for good and its packets are discarded. `SuperConnDemux` maps
the life cycle of a Conn to `none`, `up`, `down` and `discarded`, its queue to the
inbox, and the packet in the read loop to the arrived one. The property
`ImplementsDemux` says that every step is a step of `Demux` or changes nothing there.

### BatchReader

`readPos`, `nMsgs` (`len(messages)`), `slot` (which datagram a message holds) and
`dataBuf` (whether a message's data buffer is its own or, as the constructor sets
it, its control buffer). `Read` is `Read_Closed`, `Read_Buffered` or `Read_Fetch`
followed, with the mutex held, by `ReadBatch` and `Read_First` or by
`ReadBatchFails`. `oobConn.Close` is `CloseSocket`, `CloseFlag`, `CloseRelease`.
`ReadBatch` (x/net) returns between one and `batchSize` datagrams or an error.
`RawReader` is its abstract counterpart: a number received and a sequence
returned. Up to the first error, `Read` returns the next datagram that was
received and not returned; `ImplementsRawReader` checks that batches do that.

### BatchWriter

All state but `closed` is guarded by the mutex, so a critical section is one
action: `Write_Queued`, `Write_Panics`, `WorkerTick` (with `Flush`),
`CloseRelease` (with `Flush`); `WorkerCheck` and `CloseFlag` touch `closed` alone.
`due` is `time.Since(lastWrite) >= interval`; `IntervalPasses` makes it true.

### SocketSetup and PacketPath

`host` and `pconn` are the machine (system, release, environment, options of the
kernel for each IP version) and the connection (the interfaces its Go type
satisfies, connected or not, IP versions, bound address); the instance picks them
once. Each system call is a step: `Dial`; `BufBegin`, `Inspect`, `Set`,
`Reinspect`, `ForceSet`, `Final` inside `SetReceiveBuffer` and then `SetSendBuffer`;
`WrapDF` with `SetDF` per system; `ActivateControl` and `NewOOBConn`, which are
`newConn` on Unix; `NewConnWindows`; `BasicFallback`. `SocketCloses` may come
between any two of them if the caller of `WrapConn` owns the connection.

The kernel is external and modelled from how the code and its tests use it: a
buffer size beyond its limit is cut on Linux and refused elsewhere; Linux doubles
the value it was given, so `getsockopt` reports twice as much
(`sys_conn_helper_linux_test.go`; `Reported`), for the setting, its limit and the
forced setting alike; the forced setting needs a privilege, an option of an IP
version works if the socket has that version and the host the option, and on macOS
before 15 the option of a dual-stack socket covers IPv6 only. `setDF` reports DF
when the option works for one IP version of a dual-stack socket;
`CapabilitiesHonest` exempts the version the system refuses it for. Versions are
parsed from the characters of the release as the code does it (`KernelVersion`,
`MacOSVersion`). After `Return` the variables of the set-up are reset: nothing
reads them again.

`Write` and `Read` are one step each, since a call shares nothing before its
system call; `Write` goes through `OOBWritePacket` and `BasicWriterWrite` or through
`BasicWritePacket`, `Read` through `OOBReadPacket` or `BasicReadPacket`. A datagram
carries its traffic class and, for the properties, the call that sent it. Routers
may mark it (CE) or change its DSCP, and packets of other hosts arrive. The
lengths of oob buffers are counted in half control messages (`MsgSpace`), so that
buffers with no, a cut and a whole message occur. `uint16(gsoSize)` keeps its
width as a constant (`Uint16`). `fate` is how the program ended: `os.Exit` in
`log.Log`, or a panic on a nil address.

## Runs

Bounds: `ReceiveBacklog` and `Backlog` of 1 or 2 make full queues and a full accept
channel common; 3 packets from 2 addresses give two Conns of one address in
succession beside a Conn of another; 2 acceptors compete. `DefaultBacklog` is 2 for
128. `Closers` are the Conns the application closes, `Writers` those it writes to:
all Conns may be closed in `SuperConnLifecycle`, all but the third elsewhere, and
the first one writes, which suffices for a socket that is closed too early. Read
errors are in `SuperConnRead`; the invariants of `SuperConnLifecycle` are proved
with them too. The liveness run has one address and 2 packets: two Conns in
succession, the second of which exists while the `Close` of the first is under way.
`BatchSize` is 2 or 3 for 8, with enough datagrams for batches of every size one
after another. Addresses and acceptors are symmetric where a run checks safety
only. Expired deadlines are those of `Accept` and `Read`, in the liveness run.
`PacketPath` has 15 hosts and 8 connections, one for each case the set-up tells
apart; `Desired` is 3 and sizes go up to 4, so a buffer can be increased too
little, enough, and be larger from the start, and a Linux limit of 2 is less than
`Desired` and reported as more; one `Write` of length 3 with segment sizes 0
(none), 2 (a whole and a rest) and 4 (which is 0 as `Uint16`). One write is enough:
a call depends on the set-up only.

| run | result |
|---|---|
| `SuperConnLifecycle` | counting, routing, draining, shutdown and error reporting are exact with Accept and Close in any overlap; a `Conn.Close` that waits has overlooked only Conns created after it left the table; Conns die once; a panic, a socket closed under an open Conn's `Write` or a read loop that ends before its Conns need `lateAdd` |
| `SuperConnRead` | `SuperConn` implements `Demux`; demultiplexing in order, single owner of a buffer, `io.EOF` after Close, with read errors |
| `SuperConnLive` | both Close methods return, blocked Accepts and Reads are released |
| `BatchReader` | `BatchReader` implements `RawReader`; indices, buffer ownership and release; Close returns |
| `BatchWriter` | release and use of buffers; the worker ends |
| `PacketPath` | verdicts on buffer sizes are true and `Dial`'s sizes are not reduced; capabilities are honest; marks arrive and `Read` tells the truth about sender and mark; segments on unconnected sockets; only forbidden Writes end the program |

Runs in which TLC finds that the code does not do what a comment, doc or test
says (`PROJECT.json`, `findings`):

| run | what happens |
|---|---|
| `SuperConnAcceptRace` | an `Accept` between its receive and `connWG.Add(1)` while `supConn.Close` runs: the socket is closed and the read loop ends under an accepted Conn |
| `SuperConnPanic` | the same overlap: `Close` says that blocked `Accept`s return errors, but one is handed a Conn; its `connWG.Add(1)` comes between the release of the closer's `Wait` and its return, and `sync.WaitGroup` panics |
| `BatchReaderStale` | after a failed `ReadBatch`, `Read` returns old messages as new ones |
| `BatchWriterFull` | `Write` indexes `messages` out of range, before the first tick or with a full queue |
| `BatchWriterLost` | `flush` sends an empty slice: accepted packets are dropped |
| `PacketPathGSO` | on a connected socket, as `Dial` makes it, `basicWriter` drops the control messages: a `Write` with a segment size leaves as one datagram, and an ECN mark is not set |

Some more disagreements need no run: `Conn.Close` counts the Conns before it reads
`accepting`, so it may wait although a Conn created in between is open
(`ConnWaitMissesOnlyLater` bounds what it can overlook; the comment in `conn.go`
says "Wait if this is the final connection"); `WrapConn` raises a `ReadBufferSize`
that the kernel reports as less than 7 MB, and `Listen` does not use the sizes; the
fallback of `WrapConn` looks for a remote address on the nil result of a failed
assertion, so its `BasicConn` over a connected connection sends nothing; after
Close, `Accept` may return the read loop's error instead of `ErrClosedSuperConn`,
since several cases of its `select` are ready; a buffer of half the desired size
satisfies `SetReceiveBuffer` on Linux, since it compares what the kernel reports;
and `WrapListenConn` does not apply the default backlog to a zero `Backlog`
(`listener.go` says "Set zero to use default value 128"), so that a Conn is dropped
whenever no `Accept` is blocked.

Fairness. `SuperConn`'s liveness assumes that a runnable goroutine is scheduled
(weak fairness) and that `sync.Mutex` does not starve a waiter (strong fairness of
the goroutines that lock `connLock`; the mutex's starvation mode justifies it).
`ClosingSpec` adds that the application closes the listener and each Conn it was
given, without which the last `Close` rightly waits. Packets need not arrive,
deadlines need not expire, `Accept` need not be called. `BatchReader` assumes
that a `ReadBatch` on a closed socket returns, `BatchWriter` that the ticker ticks.

## Proofs

TLAPS proves every safety invariant, action property and refinement that a passing
run checks, for all values of the constants that the named assumptions allow: any
finite set of addresses, any acceptors, readers and closers, backlogs, batch
sizes, numbers of packets, hosts, connections and buffer sizes. TLC has checked
every inductive invariant below on the bounds of the runs.

### SuperConn

`SuperConnProofs`: `TypeOK`, `WaitGroupExact`, `CloseOnlyOnce`, `RoutingTableExact`,
`NoConnStranded`, `ListenerWaitIsFinal`, `ConnsDieOnce` and `ReleasedReadIsEOF`.
None of them is inductive alone. The invariant `IndInv` adds: the packet the read
loop handles is the last one received and no Conn has its number yet
(`ReadLoopInv`); `connLock` is held exactly inside the critical sections, and the
read loop is in its own only before the drain (`LockInv`), which is why nothing
appears in `acceptCh` after it; the slot it is about to fill is empty
(`TableInv`), which is why an address never has two live Conns; `acceptCh` holds
exactly the pending Conns, once each, and an `Accept` about to add owns its Conn
(`AcceptInv`), which keeps the drain and `Accept` apart; `doneCh` and the queue are
closed at fixed points of a Conn's life (`DoneInv`); and a listener Close that
found the table empty is alone (`FinalInv`). The proof has one lemma per conjunct,
with a frame lemma for the actions that do not touch its variables, and counts
open Conns with the library's cardinality facts.

`SuperConnShutdownProofs` builds on `IndInv`:

- `NoGoroutineLeak` and `CloseErrReported` (`ShutdownInv`). Which `Close` is the
  last one is decided by counts taken at different moments. The invariant hands the
  responsibility on: once `supConn.Close` has taken its count, it was zero and
  `supConn.Close` waits, or some Conn *answers* for the goroutines. That Conn has
  not taken its count yet, has found the table empty, or has waited and holds the
  socket's error. When the Conn that answers leaves a table with others in it,
  one of those takes over.
- `ConnWaitMissesOnlyLater` (`OnlyLaterInv`): a Conn alive when another's count was
  zero has a larger number.
- `PanicNeedsLateAdd`, `WriteHitsOpenSocket` and `OutlivesUnlessLateAdd` (`LateAddInv`),
  the last one under `~ReadErrors` (the socket does not fail by itself). `Accept`
  and `supConn.Close` overlap freely here. `NoPanic` and `ReadLoopOutlivesConns`
  fail (`SuperConnPanic`, `SuperConnAcceptRace`); these theorems say that the one
  overtaking recorded in `lateAdd` is behind every failure. Without it, no
  `Accept` is left that could raise the counter once `supConn.Close` has called
  `connWG.Done`, since the drain has emptied `acceptCh` and nothing fills it again
  (`TakenInv`); so the counter stays zero after the closer has passed `connWG.Wait`
  (`CloserInv`).

`SuperConnQueueProofs`: `Demultiplexed` and `BufferExclusive`. `QueueInv` says that
a packet is in one place: at the read loop (`DispatchInv`), queued at or being
copied by one Conn of its sender (`HeldInv`), or in the pool; and that each queue is
ordered and later than what was read (`OrderInv`). The packet in the read loop is
the newest, so a push keeps the order.

`SuperConnDemuxProofs`: `ImplementsDemux`. The initial states map to initial states
and each action maps to one of `Demux` or to a stutter; the lemmas group the
actions by what the mapping sees of them. `IndInv` gives that a Conn comes up only
for a sender without one, `QueueInv` that deliveries are in order.

### Batches

`BatchReaderProofs`: `TypeOK` (indices stay in the batch), `DataBufferOwned`,
`ReleasedBuffersUntouched` and `ImplementsRawReader`. The invariant says that the
mutex is held by one `Read` from its fetch to its end, with the position at zero
(`MutexInv`); buffers are shared only until the first fetch (`OwnInv`); the release
comes after `closed` and with no `Read` inside (`ReleaseInv`); and until a `Read`
fails, what was returned and what is left in the batch are the datagrams received,
in order (`BatchInv`). `UnreturnedUntilFailure` adds to the run `BatchReaderStale`:
`MessagesUnreturned`, which fails there, holds as long as no `Read` has failed.

`BatchWriterProofs`: `TypeOK` and `ReleasedBuffersUntouched`, from the invariant that
after the release `closed` is set and the queue is empty.

### Socket set-up and packet path

`PacketPathProofs`: `TypeOK`, `BufferVerdictExact`, `DialedSizeKept`,
`CapabilitiesHonest`, `ReadTruthful`, `MarkArrives`, `SegmentsHonoured` and
`OnlyInvalidWritesFatal`. `BufferInv` relates the size read before a setting to the
kernel's one at each point of the buffer protocol: the retry is reached only while
the buffer is reported too small, so nothing that `Dial` set is reduced; the doubling
of Linux applies to what `Dial` set as well. `RawInv` and
`HonestInv` carry the results of the system calls to the capabilities; `NetInv`
carries a mark from `Write` through header and routers to `Read`.
`CapabilitiesHonest` has the hypothesis `VersionsParsed`: the code reads the releases
of the hosts as their versions. That is a fact about a loop over the characters of
a string, hence induction over data; `MCPacketPath` states it as an assumption, so
TLC evaluates it for the hosts of the run.

### Only model-checked

- Liveness, since the prover has no rules for fairness and `ENABLED`:
  `ListenerCloseReturns`, `ConnCloseReturns`, `AcceptUnblocked`, `ReadReleased`,
  `CloseReturns`, `WorkerEnds`.
- `KernelVersion` and `MacOSVersion` on actual releases (`VersionsParsed`).

The runs that end in a violation are counterexamples; there is nothing to prove.

## Not modelled

- The non-listener mode of `supConn` and code without a caller: `wrapDialed`,
  `OOBForAddr`, `ParseIPv4PktInfo`, `IsGSOError`, `IsPermissionError`,
  `IsSendMsgSizeErr`, `IsRecvMsgSizeErr`.
- `sys_conn_no_oob.go`: its `newConn` has two parameters and `WrapConn` passes three
  arguments, so the file does not compile with it.
- Payloads; logging other than the exit; error texts.
- The deadlines of `SingleAddrConn`, which go to the socket.
- The contents of `batchWriter`'s messages: `flush` never sends one, so nothing could
  be observed of them.
- A `supConn` over a connected `BasicConn`, whose packets have no address:
  `Listen` never makes one.
- The window inside `WaitGroup.Add` in which Go reports misuse with another
  panic: it needs the overlap that `wgReused` stands for.
- A `ReadBatch` that returns no message and no error: x/net does not do that.
- What `WriteBatch` of x/net does with the empty slice that `flush` gives it; the model
  takes it to send nothing and to report no error.
- ECN values above 3 and a `Wrap*Conn` whose arguments do not match the connection.
