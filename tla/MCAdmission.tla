----------------------------- MODULE MCAdmission ------------------------------
(* Instances of Admission for TLC. *)
EXTENDS Admission, TLC

CONSTANTS u1, u2, i1, i2

\* A user with two devices, and another behind the same address as one of them.
Devices == {<<u1, i1>>, <<u1, i2>>, <<u2, i1>>}

\* Connections and maps are interchangeable.
Symmetry == Permutations(Conn) \cup Permutations(IpMap)

\* Flags of a check that its remaining steps, and the properties, still tell
\* apart: whether it is a stranger only counts if it is full and alone.
Flags(k) ==
  LET marked == k.full /\ k.alone /\ k.stranger
  IN CASE k.pc = "look"              -> <<k.full, marked>>
       [] k.pc \in {"forget", "undo"} -> <<marked>>
       [] OTHER                      -> <<k.full, k.full /\ k.alone>>

\* What distinguishes two states: not the content of a map that nothing refers
\* to any more, nor what a report has yet to visit and has visited, nor in which
\* of two periods a device was last stored if it is the later one.
View ==
  <<UserLimitInfo, UserOnlineIP,
    [m \in IpMap |-> IF InUse(m) THEN addrs[m] ELSE {}],
    OldUserOnline,
    [c \in Conn |-> <<check[c].pc, check[c].user, check[c].ip, check[c].map,
                      Flags(check[c])>>],
    [report EXCEPT !.users = @ \ report.seen, !.devices = @ \ report.taken],
    update, now, before \ now, raced>>

=============================================================================
