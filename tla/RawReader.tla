------------------------------ MODULE RawReader ------------------------------
(****************************************************************************)
(* What readLoop (super.go) takes for granted of the RawConn it reads from: *)
(* ReadPacket returns the datagrams of the socket one by one in the order   *)
(* of arrival, none twice and none left out, until it fails; after a        *)
(* failure nothing is promised, since readLoop stops at the first.  Once    *)
(* the RawConn is closed and its buffers are released nothing is returned.  *)
(****************************************************************************)
EXTENDS Naturals, Sequences

CONSTANT MaxDatagrams

VARIABLES
  received,  \* datagrams the kernel has handed over
  returned,  \* datagrams ReadPacket has returned, in order
  failed,    \* has ReadPacket failed?
  released   \* are the buffers released?

vars == <<received, returned, failed, released>>

Init == received = 0 /\ returned = <<>> /\ failed = FALSE /\ released = FALSE

Receive ==
  /\ ~released
  /\ \E n \in 1..(MaxDatagrams - received) : received' = received + n
  /\ UNCHANGED <<returned, failed, released>>

Return ==
  /\ ~released
  /\ \E d \in 0..received : /\ ~failed => d = Len(returned) + 1
                            /\ returned' = Append(returned, d)
  /\ UNCHANGED <<received, failed, released>>

Fail == failed' = TRUE /\ UNCHANGED <<received, returned, released>>

Release == released' = TRUE /\ UNCHANGED <<received, returned, failed>>

Next == Receive \/ Return \/ Fail \/ Release

Spec == Init /\ [][Next]_vars
=============================================================================
