-------------------------------- MODULE Demux --------------------------------
(****************************************************************************)
(* What a supConn promises to the application that reads from its Conns,    *)
(* without locks, channels, wait groups or goroutines.  Packets are         *)
(* numbered in the order of arrival and src[n] is the sender of packet n.   *)
(* A packet is either lost or delivered to one Conn, that of its sender.    *)
(* The first packet of a sender without a Conn may make one, named after    *)
(* the packet.  A sender never has two, and a Conn that went down stays     *)
(* down: it delivers at most the packets it holds until they are discarded. *)
(****************************************************************************)
EXTENDS Naturals, Sequences

CONSTANTS Addrs, MaxPackets

VARIABLES
  src,      \* senders of the packets so far
  arrived,  \* the last packet is neither delivered nor lost
  phase,    \* of each Conn: "none", "up", "down" or "discarded"
  inbox     \* packets a Conn holds

vars == <<src, arrived, phase, inbox>>
ConnIds == 1..MaxPackets
Last == Len(src)

Init ==
  /\ src = <<>> /\ arrived = FALSE
  /\ phase = [c \in ConnIds |-> "none"] /\ inbox = [c \in ConnIds |-> <<>>]

Arrive ==
  /\ ~arrived /\ arrived' = TRUE
  /\ \E a \in Addrs : src' = Append(src, a)
  /\ UNCHANGED <<phase, inbox>>

Lose == arrived /\ arrived' = FALSE /\ UNCHANGED <<src, phase, inbox>>

\* The packet makes a Conn: its sender has none.
Up ==
  /\ arrived /\ phase[Last] = "none"
  /\ \A c \in 1..Last : phase[c] = "up" => src[c] # src[Last]
  /\ phase' = [phase EXCEPT ![Last] = "up"]
  /\ UNCHANGED <<src, arrived, inbox>>

Deliver(c) ==
  /\ arrived /\ arrived' = FALSE
  /\ phase[c] \in {"up", "down"} /\ src[c] = src[Last]
  /\ inbox' = [inbox EXCEPT ![c] = Append(@, Last)]
  /\ UNCHANGED <<src, phase>>

\* Read returns the oldest packet.
Take(c) ==
  /\ inbox[c] # <<>> /\ inbox' = [inbox EXCEPT ![c] = Tail(@)]
  /\ UNCHANGED <<src, arrived, phase>>

Down(c) ==
  /\ phase[c] = "up" /\ phase' = [phase EXCEPT ![c] = "down"]
  /\ UNCHANGED <<src, arrived, inbox>>

Discard(c) ==
  /\ phase[c] = "down" /\ phase' = [phase EXCEPT ![c] = "discarded"]
  /\ inbox' = [inbox EXCEPT ![c] = <<>>]
  /\ UNCHANGED <<src, arrived>>

Next ==
  \/ Arrive \/ Lose \/ Up
  \/ \E c \in ConnIds : Deliver(c) \/ Take(c) \/ Down(c) \/ Discard(c)

Spec == Init /\ [][Next]_vars
=============================================================================
