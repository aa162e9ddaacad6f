--------------------------- MODULE UserLinksProofs ----------------------------
(***************************************************************************)
(* Proofs about UserLinks, for any connections on both paths through the   *)
(* dispatcher, any traffic and any number of deletions.                    *)
(*                                                                         *)
(* Nothing is said of the maps: they may hold any manager, counter or      *)
(* storage.  The argument rests on what a connection keeps for itself: the *)
(* manager it was linked in, which is where Close looks for it, and the    *)
(* storage it counts in, whose count only the report task resets.          *)
(***************************************************************************)
EXTENDS UserLinks, TLAPS

Unmanaged == {"new", "manager", "newManager"}

\* A connection past a lookup has what it looked up.
ConnInv ==
  \A c \in Conn :
    /\ pc[c] \notin Unmanaged => manager[c] \in Conn
    /\ pc[c] \in {"storage", "open", "closed"} => storage[c] \in Conn
    /\ pc[c] = "link" /\ c \in Stream => storage[c] \in Conn

\* Links are only where Close will look for them.
LinkInv ==
  \A c, m \in Conn :
    c \in links[m] => m = manager[c] /\ pc[c] \notin Unmanaged \cup {"closed"}

\* A reporter at work has read a count.
ReadInv ==
  /\ \A s \in Conn : bytes[s] <= carried[s]
  /\ \A r \in Reporter :
       rpc[r].at # "idle" => rpc[r].from \in Conn /\ rpc[r].of \in Conn

\* Billed is at most what has left the count.  What a reporter has read is still
\* in the count, or has left it and is not billed, by whoever zeroes it.
BillInv ==
  \A r \in Reporter :
    /\ \A s \in Conn : reported[r][s] + bytes[s] <= carried[s]
    /\ rpc[r].at # "idle" =>
         reported[r][rpc[r].of] + rpc[r].read <= carried[rpc[r].of]
    /\ rpc[r].at = "zeroed" =>
         reported[r][rpc[r].of] + rpc[r].read + bytes[rpc[r].of]
           <= carried[rpc[r].of]

Inv ==
  /\ TypeOK
  /\ ConnInv
  /\ LinkInv
  /\ ReadInv
  /\ BillInv

-----------------------------------------------------------------------------

LEMMA InitInv == Init => Inv
<1> SUFFICES ASSUME Init PROVE Inv
  OBVIOUS
<1>1. TypeOK
  BY BoundAssumption DEF Init, TypeOK, Idle
<1>2. ConnInv /\ LinkInv /\ ReadInv
  BY BoundAssumption DEF Init, ConnInv, LinkInv, ReadInv, Idle, Unmanaged
<1>3. BillInv
  BY DEF Init, BillInv, Idle
<1> QED
  BY <1>1, <1>2, <1>3 DEF Inv

\* A connection that looks something up, or is linked or closed, counts nothing.
LEMMA LookupStep ==
  ASSUME Inv, NEW c \in Conn,
         \/ Admit(c) \/ LoadManager(c) \/ StoreManager(c) \/ AddLink(c)
         \/ LoadCounter(c) \/ StoreCounter(c) \/ GetCounter(c) \/ CloseLink(c)
  PROVE  Inv'
<1> USE DEF Goto, Managed, Linked, Counted, user, maps
<1>1. ReadInv' /\ BillInv'
  BY DEF Inv, ReadInv, BillInv, Admit, LoadManager, StoreManager, AddLink,
     LoadCounter, StoreCounter, GetCounter, CloseLink
<1>2. CASE Admit(c)
  BY <1>1, <1>2 DEF Admit, Inv, TypeOK, ConnInv, LinkInv, Unmanaged
<1>3. CASE LoadManager(c)
  BY <1>1, <1>3 DEF LoadManager, Inv, TypeOK, ConnInv, LinkInv, Unmanaged
<1>4. CASE StoreManager(c)
  BY <1>1, <1>4 DEF StoreManager, Inv, TypeOK, ConnInv, LinkInv, Unmanaged
<1>5. CASE AddLink(c)
  <2>1. TypeOK'
    BY <1>5 DEF AddLink, Inv, TypeOK
  <2>2. ConnInv'
    BY <1>5 DEF AddLink, Inv, TypeOK, ConnInv, Unmanaged
  <2>3. LinkInv'
    BY <1>5 DEF AddLink, Inv, TypeOK, ConnInv, LinkInv, Unmanaged
  <2> QED
    BY <1>1, <2>1, <2>2, <2>3 DEF Inv
<1>6. CASE LoadCounter(c)
  BY <1>1, <1>6 DEF LoadCounter, Inv, TypeOK, ConnInv, LinkInv, Unmanaged
<1>7. CASE StoreCounter(c)
  BY <1>1, <1>7 DEF StoreCounter, Inv, TypeOK, ConnInv, LinkInv, Unmanaged
<1>8. CASE GetCounter(c)
  <2>1. TypeOK'
    BY <1>8 DEF GetCounter, Inv, TypeOK, ConnInv
  <2>2. ConnInv' /\ LinkInv'
    BY <1>8 DEF GetCounter, Inv, TypeOK, ConnInv, LinkInv, Unmanaged
  <2> QED
    BY <1>1, <2>1, <2>2 DEF Inv
<1>9. CASE CloseLink(c)
  <2>1. TypeOK'
    BY <1>9 DEF CloseLink, Inv, TypeOK
  <2>2. ConnInv'
    BY <1>9 DEF CloseLink, Inv, TypeOK, ConnInv, Unmanaged
  <2>3. LinkInv'
    BY <1>9 DEF CloseLink, Inv, TypeOK, ConnInv, LinkInv, Unmanaged
  <2> QED
    BY <1>1, <2>1, <2>2, <2>3 DEF Inv
<1> QED
  BY <1>2, <1>3, <1>4, <1>5, <1>6, <1>7, <1>8, <1>9

LEMMA CarryStep ==
  ASSUME Inv, NEW c \in Conn, Carry(c)
  PROVE  Inv'
<1>1. storage[c] \in Conn
  BY DEF Carry, Inv, ConnInv
<1>2. TypeOK'
  BY <1>1, BoundAssumption DEF Carry, Inv, TypeOK, ReadInv, user, maps
<1>3. ConnInv' /\ LinkInv'
  BY DEF Carry, Inv, ConnInv, LinkInv, maps
<1>4. ReadInv'
  BY <1>1 DEF Carry, Inv, TypeOK, ReadInv
<1>5. BillInv'
  BY <1>1, BoundAssumption DEF Carry, Inv, TypeOK, ReadInv, BillInv
<1> QED
  BY <1>2, <1>3, <1>4, <1>5 DEF Inv

LEMMA ReportStep ==
  ASSUME Inv, NEW r \in Reporter, Report(r)
  PROVE  Inv'
<1> USE DEF user, maps
<1>1. ConnInv' /\ LinkInv'
  BY DEF Report, ReadTraffic, StoreZero, Bill, Inv, ConnInv, LinkInv
<1>2. CASE ReadTraffic(r)
  <2>1. TypeOK'
    BY <1>2 DEF ReadTraffic, Inv, TypeOK
  <2>2. ReadInv'
    BY <1>2 DEF ReadTraffic, Inv, TypeOK, ReadInv
  <2>3. BillInv'
    BY <1>2 DEF ReadTraffic, Inv, TypeOK, BillInv
  <2> QED
    BY <1>1, <2>1, <2>2, <2>3 DEF Inv
<1>3. CASE StoreZero(r)
  <2>1. TypeOK'
    <3>1. bytes' \in [Conn -> 0..MaxBytes]
      <4>1. 0 \in 0..MaxBytes /\ bytes \in [Conn -> 0..MaxBytes]
        BY BoundAssumption DEF Inv, TypeOK
      <4>2. bytes' = [bytes EXCEPT ![rpc[r].of] = 0]
        BY <1>3 DEF StoreZero
      <4> QED
        BY <4>1, <4>2
    <3>2. rpc' \in [Reporter -> [at : {"idle", "read", "zeroed"},
                                 from : Conn \cup {None}, of : Conn \cup {None},
                                 read : 0..MaxBytes]]
      BY <1>3 DEF StoreZero, Inv, TypeOK
    <3> QED
      BY <1>3, <3>1, <3>2 DEF StoreZero, Inv, TypeOK
  <2>2. ReadInv'
    BY <1>3 DEF StoreZero, Inv, TypeOK, ReadInv
  <2>3. BillInv'
    <3>1. rpc[r].of \in Conn /\ rpc[r].read \in Nat
      BY <1>3 DEF StoreZero, Inv, TypeOK, ReadInv
    <3> QED
      BY <1>3, <3>1 DEF StoreZero, Inv, TypeOK, BillInv
  <2> QED
    BY <1>1, <2>1, <2>2, <2>3 DEF Inv
<1>4. CASE Bill(r)
  <2>1. rpc[r].of \in Conn /\ rpc[r].from \in Conn /\ rpc[r].read \in Nat
    BY <1>4 DEF Bill, Inv, TypeOK, ReadInv
  <2>2. TypeOK'
    <3>1. rpc' \in [Reporter -> [at : {"idle", "read", "zeroed"},
                                 from : Conn \cup {None}, of : Conn \cup {None},
                                 read : 0..MaxBytes]]
      BY <1>4, BoundAssumption DEF Bill, Idle, Inv, TypeOK
    <3>2. entry' \in [Conn -> Conn \cup {None}]
      BY <1>4, <2>1 DEF Bill, Inv, TypeOK
    <3>3. reported' \in [Reporter -> [Conn -> Nat]]
      <4>1. reported[r] \in [Conn -> Nat]
        BY DEF Inv, TypeOK
      <4> DEFINE billed == [reported[r] EXCEPT ![rpc[r].of] = @ + rpc[r].read]
      <4>2. billed \in [Conn -> Nat]
        BY <2>1, <4>1
      <4>3. reported' = [reported EXCEPT ![r] = billed] \/ reported' = reported
        BY <1>4 DEF Bill
      <4> HIDE DEF billed
      <4> QED
        BY <4>2, <4>3 DEF Inv, TypeOK
    <3> QED
      BY <1>4, <3>1, <3>2, <3>3 DEF Bill, Inv, TypeOK
  <2>3. ReadInv'
    BY <1>4 DEF Bill, Idle, Inv, TypeOK, ReadInv
  <2>4. BillInv'
    <3>1. rpc'[r].at = "idle" /\ bytes' = bytes /\ carried' = carried
      BY <1>4 DEF Bill, Idle, Inv, TypeOK
    <3>2. ASSUME NEW q \in Reporter, q # r
          PROVE  rpc'[q] = rpc[q] /\ reported'[q] = reported[q]
      BY <1>4, <3>2 DEF Bill, Inv, TypeOK
    <3>3. ASSUME NEW s \in Conn
          PROVE  reported'[r][s] + bytes[s] <= carried[s]
      <4>1. \/ reported'[r][s] = reported[r][s]
            \/ s = rpc[r].of /\ reported'[r][s] = reported[r][s] + rpc[r].read
        BY <1>4, <2>1 DEF Bill, Inv, TypeOK
      <4> QED
        BY <1>4, <2>1, <4>1 DEF Bill, Inv, BillInv
    <3> QED
      BY <3>1, <3>2, <3>3 DEF Inv, BillInv
  <2> QED
    BY <1>1, <2>2, <2>3, <2>4 DEF Inv
<1> QED
  BY <1>2, <1>3, <1>4 DEF Report

LEMMA UserStep ==
  ASSUME Inv, RemoveUser \/ DelUsers \/ AddUser
  PROVE  Inv'
<1> USE DEF connVars, maps
<1>1. TypeOK'
  <2> USE DEF Inv, TypeOK
  <2>1. CASE RemoveUser
    <3>1. deletions' \in 0..MaxDel
      BY <2>1, BoundAssumption DEF RemoveUser
    <3> QED
      BY <2>1, <3>1 DEF RemoveUser
  <2>2. CASE DeleteUid \/ DeleteManager
    BY <2>2 DEF DeleteUid, DeleteManager
  <2>3. CASE DeleteStorage
    BY <2>3 DEF DeleteStorage
  <2>4. CASE CloseAll
    BY <2>4 DEF CloseAll
  <2>5. CASE AddUser
    BY <2>5 DEF AddUser
  <2> QED
    BY <2>1, <2>2, <2>3, <2>4, <2>5 DEF DelUsers
<1>2. UNCHANGED <<connVars, links>>
  BY DEF RemoveUser, DelUsers, DeleteUid, DeleteStorage, CloseAll,
     DeleteManager, AddUser
<1> QED
  BY <1>1, <1>2 DEF Inv, ConnInv, LinkInv, ReadInv, BillInv

LEMMA Invariance == Spec => []Inv
<1>1. Inv /\ [Next]_vars => Inv'
  <2>1. ASSUME Inv, UNCHANGED vars
        PROVE  Inv'
    BY <2>1 DEF vars, maps, user, Inv, TypeOK, ConnInv, LinkInv, ReadInv, BillInv
  <2> QED
    BY <2>1, LookupStep, CarryStep, ReportStep, UserStep DEF Next, Connection
<1> QED
  BY <1>1, InitInv, PTL DEF Spec

-----------------------------------------------------------------------------
(* The theorems *)

(***************************************************************************)
(* The maps and the connections keep their types; in particular no count   *)
(* exceeds what was carried.                                               *)
(***************************************************************************)
THEOREM TypeCorrect == Spec => []TypeOK
BY Invariance, PTL DEF Inv

(***************************************************************************)
(* No report task bills a byte twice, whatever connections, deletions and  *)
(* re-additions do to the maps while GetUserTrafficSlice runs, and however *)
(* many other reports read and zero the same counters meanwhile.           *)
(***************************************************************************)
THEOREM NoByteBilledTwice == Spec => []NeverOverbilled
<1>1. Inv => NeverOverbilled
  <2> SUFFICES ASSUME Inv, NEW r \in Reporter, NEW s \in Conn
               PROVE  reported[r][s] <= carried[s]
    BY DEF NeverOverbilled
  <2>1. /\ reported[r][s] \in Nat /\ bytes[s] \in Nat /\ carried[s] \in Nat
        /\ reported[r][s] + bytes[s] <= carried[s]
    BY BoundAssumption DEF Inv, TypeOK, BillInv
  <2> QED
    BY <2>1
<1> QED
  BY <1>1, Invariance, PTL

(***************************************************************************)
(* Closing a connection takes its writer out of the only manager that ever *)
(* had it, also when DelUsers or a racing connection has replaced the      *)
(* manager in the map.                                                     *)
(***************************************************************************)
THEOREM WritersAreReleased == Spec => []NoLeakedWriter
<1>1. Inv => NoLeakedWriter
  BY DEF Inv, LinkInv, NoLeakedWriter
<1> QED
  BY <1>1, Invariance, PTL

=============================================================================
