------------------------------ MODULE UserService ------------------------------
(***************************************************************************)
(* What a node promises about its users, without the tables, the entity    *)
(* tags and the loops of UserSync: it serves a list, sometimes aims at     *)
(* another, admits the users of its aim one by one, expels the others one  *)
(* by one, and arrives.  It may give up on the way; unless it did, the     *)
(* users served are exactly those of the list it claims to serve.          *)
(***************************************************************************)
CONSTANTS User, Limit, None, PanelList

VARIABLES
  panel,   \* the list of the panel
  list,    \* the list the node claims to serve
  target,  \* the list it is bringing into force
  served,  \* the users who may connect
  clean    \* no change of list was given up half-way

vars == <<panel, list, target, served, clean>>

Empty      == [u \in User |-> None]
Members(l) == {u \in User : l[u] # None}

Off == /\ list = Empty
       /\ target = Empty
       /\ served = {}
       /\ clean = TRUE

Init == panel \in PanelList /\ Off

Edit ==
  /\ panel' \in PanelList
  /\ UNCHANGED <<list, target, served, clean>>

Aim ==
  /\ target = list
  /\ panel # Empty
  /\ target' = panel
  /\ UNCHANGED <<panel, list, served, clean>>

Admit(u) ==
  /\ u \in Members(target) \ served
  /\ served' = served \cup {u}
  /\ UNCHANGED <<panel, list, target, clean>>

Expel(u) ==
  /\ u \in served \ Members(target)
  /\ served' = served \ {u}
  /\ UNCHANGED <<panel, list, target, clean>>

Arrive ==
  /\ clean => served = Members(target)
  /\ list' = target
  /\ UNCHANGED <<panel, target, served, clean>>

\* Before the first change of the users it is as if nothing had happened.
GiveUp ==
  /\ target' = list
  /\ clean' \in {FALSE, clean}
  /\ clean' => served = Members(list)
  /\ UNCHANGED <<panel, list, served>>

Stop == Off' /\ UNCHANGED panel

Next ==
  \/ Edit \/ Aim \/ Arrive \/ GiveUp \/ Stop
  \/ \E u \in User : Admit(u) \/ Expel(u)

Spec == Init /\ [][Next]_vars

-----------------------------------------------------------------------------
(* Properties *)

(***************************************************************************)
(* On the way from one list to the other only users of the two are served, *)
(* and those of both are served throughout: a client that both lists name  *)
(* never notices the change.                                               *)
(***************************************************************************)
ServedBetween ==
  clean =>
    /\ served \subseteq Members(list) \cup Members(target)
    /\ Members(list) \cap Members(target) \subseteq served

=============================================================================
