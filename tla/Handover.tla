------------------------------- MODULE Handover --------------------------------
(***************************************************************************)
(* What a node process promises about its ports, without core, clients,    *)
(* tasks and channels: one generation after the other has them.  The ports *)
(* of a generation open one by one, each after its limiter is there; when  *)
(* all are open the generation serves, until it is told to hand over; then *)
(* port after port loses its limiter and closes, all of them before the    *)
(* next generation gets anything.  A process that ends drops them.         *)
(***************************************************************************)
CONSTANTS Node, Gen, NoGen

VARIABLES
  phase,  \* "open" when every node serves
  bound,  \* the ports that are open, with the generation that has them
  limit   \* the limiter each node's connections are admitted by

vars == <<phase, bound, limit>>

Free ==
  /\ phase = "opening"
  /\ bound = {}
  /\ limit = [n \in Node |-> NoGen]

Init == Free

Limit(g, n) ==
  /\ phase = "opening"
  /\ \A m \in Node : limit[m] \in {NoGen, g}
  /\ limit[n] = NoGen
  /\ limit' = [limit EXCEPT ![n] = g]
  /\ UNCHANGED <<phase, bound>>

Open(g, n) ==
  /\ phase = "opening"
  /\ limit[n] = g
  /\ bound' = bound \cup {<<g, n>>}
  /\ UNCHANGED <<phase, limit>>

Serve ==
  /\ phase = "opening"
  /\ \A n \in Node : \E g \in Gen : <<g, n>> \in bound
  /\ phase' = "open"
  /\ UNCHANGED <<bound, limit>>

TurnOver ==
  /\ phase = "open"
  /\ phase' = "closing"
  /\ UNCHANGED <<bound, limit>>

\* The ports are refused and closed one after the other.
Refuse(n) ==
  /\ phase = "closing"
  /\ \A p \in bound : limit[p[2]] = p[1]
  /\ limit' = [limit EXCEPT ![n] = NoGen]
  /\ UNCHANGED <<phase, bound>>

Close(g, n) ==
  /\ phase = "closing"
  /\ <<g, n>> \in bound
  /\ limit[n] = NoGen
  /\ bound' = bound \ {<<g, n>>}
  /\ phase' = IF bound' = {} THEN "opening" ELSE "closing"
  /\ UNCHANGED limit

End == Free'

Next ==
  \/ \E g \in Gen, n \in Node : Limit(g, n) \/ Open(g, n) \/ Close(g, n)
  \/ \E n \in Node : Refuse(n)
  \/ Serve \/ TurnOver
  \/ End

Spec == Init /\ [][Next]_vars

-----------------------------------------------------------------------------
(* Properties *)

(***************************************************************************)
(* A port is open for one generation at a time, connections through it are *)
(* admitted by the limiter of that generation, or for at most one port, on *)
(* its way to being closed, by none; and a process that says it serves has *)
(* all its ports.                                                          *)
(***************************************************************************)
Handed ==
  /\ \A p, q \in bound : p[1] = q[1]
  /\ \A p \in bound : limit[p[2]] \in {p[1], NoGen}
  /\ \A p, q \in bound : limit[p[2]] = NoGen /\ limit[q[2]] = NoGen => p = q
  /\ \A p \in bound : limit[p[2]] = NoGen => phase = "closing"
  /\ phase = "open" => \A n \in Node : \E g \in Gen : <<g, n>> \in bound

=============================================================================
