--------------------------------- MODULE Pipe ----------------------------------
(***************************************************************************)
(* A connection whose sniffing is not enabled: Dispatch and DispatchLink   *)
(* give the outbound the reader itself, so between the client and the      *)
(* outbound there is a queue and nothing else.  Packets are numbered in    *)
(* the order they are written.                                             *)
(***************************************************************************)
EXTENDS Naturals, Sequences

CONSTANT MaxPacket  \* bound on the packets of a connection

VARIABLES
  sent,   \* how many packets have been written
  ended,  \* the client has closed
  over,   \* interrupted, or no outbound took the connection
  queue,  \* what the outbound has still to read
  out     \* what the outbound has read

vars == <<sent, ended, over, queue, out>>

Init ==
  /\ sent = 0
  /\ ended = FALSE
  /\ over = FALSE
  /\ queue = << >>
  /\ out = << >>

Write ==
  /\ ~ended /\ ~over
  /\ sent < MaxPacket
  /\ sent' = sent + 1
  /\ queue' = Append(queue, sent')
  /\ UNCHANGED <<ended, over, out>>

End ==
  /\ ~ended
  /\ ended' = TRUE
  /\ UNCHANGED <<sent, over, queue, out>>

\* The outbound reads what is in front, all of it or a part.
Deliver ==
  /\ \E n \in 1..Len(queue) :
       /\ out' = out \o SubSeq(queue, 1, n)
       /\ queue' = SubSeq(queue, n + 1, Len(queue))
  /\ UNCHANGED <<sent, ended, over>>

\* Nothing more is accepted; what the outbound does not already hold is gone.
Interrupt ==
  /\ over' = TRUE
  /\ \E n \in 0..Len(queue) : queue' = SubSeq(queue, 1, n)
  /\ UNCHANGED <<sent, ended, out>>

Next == Write \/ End \/ Deliver \/ Interrupt

Spec == Init /\ [][Next]_vars

=============================================================================
