---------------------------- MODULE UserSyncProofs ----------------------------
(***************************************************************************)
(* Proofs about UserSync, for any users, limits and panel lists and any    *)
(* number of faults.                                                       *)
(*                                                                         *)
(* The properties speak of the states between syncs; the invariant says    *)
(* what the four tables hold inside each loop.  Every fact about the       *)
(* accounts is relative to "failed", because a half-done sync leaves them  *)
(* between two lists; that the uids cover them, and that the limiter has   *)
(* the controller's list, needs no such proviso.                           *)
(***************************************************************************)
EXTENDS UserSync, TLAPS

\* The loops only work on the difference of the two lists, and an added user
\* has its uid before AddUser is called.
LoopInv ==
  /\ step \in {"delete", "stuck"} => /\ \A u \in del : newU[u] = None
                                    /\ add = Added(userList, newU)
  /\ step \in {"boot", "add"} => add \subseteq uidMap
  /\ step = "boot" => add \subseteq Members(userList)
  /\ step = "add" => add \subseteq Added(userList, newU)

\* The accounts while every call succeeds.
CleanInv ==
  ~failed =>
    /\ step \in {"idle", "alive"} =>
         accounts = Members(userList) /\ uidMap = Members(userList)
    /\ step \in {"delete", "stuck"} =>
         /\ del \subseteq Members(userList)
         /\ accounts = (Members(userList) \cap Members(newU)) \cup del
         /\ uidMap = accounts
    /\ step \in {"boot", "add", "update"} =>
         LET target == IF step = "boot" THEN userList ELSE newU
         IN /\ uidMap = Members(target)
            /\ add \subseteq Members(target)
            /\ accounts = Members(target) \ add
            /\ step = "update" => add = {}

DownInv == step = "down" => accounts = {} /\ userList = Empty /\ ~failed

\* Between two syncs there is no list being applied, and within one there is.
AimInv ==
  /\ step \in {"down", "boot", "idle"} => newU = Empty
  /\ step \in {"delete", "stuck", "add", "update"} => newU # Empty

Inv ==
  /\ TypeOK
  /\ BillableBeforeServed
  /\ LimiterTracksList
  /\ LoopInv
  /\ CleanInv
  /\ DownInv
  /\ AimInv

-----------------------------------------------------------------------------
(* The difference of two lists *)

LEMMA MembersType == \A l : Members(l) \subseteq User
BY DEF Members

LEMMA EmptyList == Empty \in List /\ Members(Empty) = {}
BY DEF Empty, List, Members

\* Patching a list with its difference to another yields the other: the three
\* loops of UpdateUser miss no user and touch no user that compareUserList has
\* not named.
LEMMA PatchIsList ==
  ASSUME NEW old \in List, NEW new \in List
  PROVE  UpdateUser(old, old, new) = new
<1>1. \A u \in User : UpdateUser(old, old, new)[u] = new[u]
  BY NoneAssumption DEF UpdateUser, Deleted, Added, Modified, Members, List
<1> QED
  BY <1>1 DEF UpdateUser, List

-----------------------------------------------------------------------------
(* The inductive step *)

\* A generation that ends, or was never started, satisfies the invariant.
LEMMA DropInv ==
  ASSUME Inv, Drop, faults' \in 0..MaxFault
  PROVE  Inv'
<1>1. TypeOK'
  BY EmptyList DEF Drop, Blank, Inv, TypeOK
<1> QED
  BY <1>1, EmptyList DEF Drop, Blank, Inv, BillableBeforeServed,
       LimiterTracksList, LoopInv, CleanInv, DownInv, AimInv, AimInv

\* What a step that leaves the tables alone and returns has to show.
LEMMA ReturnInv ==
  ASSUME Inv, Return, UNCHANGED tables, TypeOK',
         ~failed' => accounts = Members(userList) /\ uidMap = Members(userList)
  PROVE  Inv'
BY DEF Return, tables, Inv, BillableBeforeServed, LimiterTracksList, LoopInv,
     CleanInv, DownInv, AimInv

LEMMA TypeStep == TypeOK /\ [Next]_vars => TypeOK'
<1> SUFFICES ASSUME TypeOK, [Next]_vars
             PROVE  TypeOK'
  OBVIOUS
<1> USE DEF TypeOK, Return, Fault, tables
<1>1. CASE Start
  BY <1>1, MembersType, ListAssumption DEF Start
<1>2. CASE GetUserList
  BY <1>2, EmptyList, ListAssumption DEF GetUserList
<1>3. CASE GetUserAlive
  BY <1>3, EmptyList, MembersType DEF GetUserAlive, Deleted, Added
<1>4. CASE AliveTimeout
  BY <1>4, EmptyList, FaultAssumption DEF AliveTimeout
<1>5. ASSUME NEW u \in User, DelUser(u) \/ DelUserHangs(u) \/ AddUser(u)
      PROVE  TypeOK'
  BY <1>5 DEF DelUser, DelUserHangs, AddUser
<1>6. CASE DelUsersFails
  BY <1>6, EmptyList, FaultAssumption DEF DelUsersFails
<1>7. CASE DelUsersReturns
  BY <1>7 DEF DelUsersReturns
<1>8. CASE AddUsersFails
  <2>1. faults' \in 0..MaxFault
    BY <1>8, FaultAssumption DEF AddUsersFails
  <2>2. CASE Drop
    BY <2>1, <2>2, EmptyList DEF Drop, Blank
  <2>3. CASE ~Drop
    BY <1>8, <2>1, <2>3, EmptyList DEF AddUsersFails
  <2> QED
    BY <2>2, <2>3
<1>9. CASE AddUsersReturns
  BY <1>9 DEF AddUsersReturns
<1>10. CASE UpdateLimiter
  <2>1. limits' \in List
    BY <1>10 DEF UpdateLimiter, UpdateUser, List
  <2> QED
    BY <1>10, <2>1, EmptyList DEF UpdateLimiter
<1>11. CASE Reload
  <2>1. faults' \in 0..MaxFault
    BY <1>11, FaultAssumption DEF Reload
  <2> QED
    BY <1>11, <2>1, EmptyList DEF Reload, Drop, Blank
<1>12. CASE EditPanel
  BY <1>12 DEF EditPanel
<1>13. CASE Deadline
  BY <1>13, EmptyList DEF Deadline, Drop, Blank
<1>14. CASE UNCHANGED vars
  BY <1>14 DEF vars
<1> QED
  BY <1>1, <1>2, <1>3, <1>4, <1>5, <1>6, <1>7, <1>8, <1>9, <1>10, <1>11, <1>12,
     <1>13, <1>14 DEF Next, Monitor

LEMMA StepInv == Inv /\ [Next]_vars => Inv'
<1> SUFFICES ASSUME Inv, [Next]_vars
             PROVE  Inv'
  OBVIOUS
<1>t. TypeOK'
  BY TypeStep DEF Inv
<1> USE <1>t DEF Inv
<1>1. CASE Start
  BY <1>1, MembersType DEF Start, TypeOK, BillableBeforeServed,
     LimiterTracksList, LoopInv, CleanInv, DownInv, AimInv, AimInv
<1>2. CASE GetUserList
  BY <1>2 DEF GetUserList, tables, BillableBeforeServed, LimiterTracksList,
     LoopInv, CleanInv, DownInv, AimInv, AimInv
<1>3. CASE GetUserAlive
  <2>1. CASE newU = Empty
    BY <1>3, <2>1, ReturnInv DEF GetUserAlive, CleanInv
  <2>2. CASE newU # Empty
    BY <1>3, <2>2 DEF GetUserAlive, tables, BillableBeforeServed,
       LimiterTracksList, LoopInv, CleanInv, DownInv, AimInv, Deleted, Added, Members
  <2> QED
    BY <2>1, <2>2
<1>4. CASE AliveTimeout
  BY <1>4, ReturnInv DEF AliveTimeout, CleanInv
<1>5. ASSUME NEW u \in User, DelUser(u) \/ DelUserHangs(u)
      PROVE  Inv'
  <2>1. LimiterTracksList' /\ BillableBeforeServed' /\ LoopInv' /\ DownInv' /\ AimInv'
    BY <1>5 DEF DelUser, DelUserHangs, BillableBeforeServed, LimiterTracksList,
       LoopInv, DownInv, AimInv
  <2>2. u \notin Members(newU)
    BY <1>5 DEF DelUser, DelUserHangs, LoopInv, Members
  <2>3. CleanInv'
    BY <1>5, <2>2 DEF DelUser, DelUserHangs, CleanInv
  <2> QED
    BY <2>1, <2>3
<1>6. ASSUME NEW u \in User, AddUser(u)
      PROVE  Inv'
  BY <1>6, MembersType DEF AddUser, BillableBeforeServed, LimiterTracksList,
     LoopInv, CleanInv, DownInv, AimInv, AimInv
<1>7. CASE DelUsersFails
  BY <1>7, ReturnInv DEF DelUsersFails
<1>8. CASE DelUsersReturns
  <2>1. BillableBeforeServed' /\ LimiterTracksList' /\ LoopInv' /\ DownInv' /\ AimInv'
    BY <1>8 DEF DelUsersReturns, BillableBeforeServed, LimiterTracksList,
       LoopInv, DownInv, AimInv, Added, Members
  <2>2. add = Members(newU) \ Members(userList)
    BY <1>8 DEF DelUsersReturns, LoopInv, Added
  <2>3. CleanInv'
    BY <1>8, <2>2 DEF DelUsersReturns, CleanInv
  <2> QED
    BY <2>1, <2>3
<1>9. CASE AddUsersFails
  <2>1. CASE Drop
    BY <2>1, DropInv DEF TypeOK
  <2>2. CASE ~Drop
    BY <1>9, <2>2, ReturnInv DEF AddUsersFails
  <2> QED
    BY <2>1, <2>2
<1>10. CASE AddUsersReturns
  BY <1>10 DEF AddUsersReturns, tables, BillableBeforeServed,
     LimiterTracksList, LoopInv, CleanInv, DownInv, AimInv, AimInv
<1>11. CASE UpdateLimiter
  <2>1. limits' = newU
    BY <1>11, PatchIsList DEF UpdateLimiter, LimiterTracksList, TypeOK
  <2>2. CleanInv'
    BY <1>11 DEF UpdateLimiter, Return, CleanInv
  <2> QED
    BY <1>11, <2>1, <2>2 DEF UpdateLimiter, Return, BillableBeforeServed,
       LimiterTracksList, LoopInv, DownInv, AimInv
<1>12. CASE Reload
  BY <1>12, DropInv DEF Reload, TypeOK
<1>13. CASE EditPanel
  BY <1>13 DEF EditPanel, tables, BillableBeforeServed, LimiterTracksList,
     LoopInv, CleanInv, DownInv, AimInv, AimInv
<1>14. CASE Deadline
  BY <1>14, DropInv DEF Deadline, TypeOK
<1>15. CASE UNCHANGED vars
  BY <1>15 DEF vars, tables, BillableBeforeServed, LimiterTracksList, LoopInv,
     CleanInv, DownInv, AimInv
<1> QED
  BY <1>1, <1>2, <1>3, <1>4, <1>5, <1>6, <1>7, <1>8, <1>9, <1>10, <1>11, <1>12,
     <1>13, <1>14, <1>15 DEF Next, Monitor

LEMMA Invariance == Spec => []Inv
<1>1. Init => TypeOK
  <2>1. Init => faults \in 0..MaxFault
    BY FaultAssumption DEF Init
  <2> QED
    BY <2>1, EmptyList DEF Init, Blank, TypeOK
<1>2. Init => Inv
  BY <1>1 DEF Init, Blank, Inv, BillableBeforeServed, LimiterTracksList,
     LoopInv, CleanInv, DownInv, AimInv, AimInv
<1> QED
  BY <1>2, StepInv, PTL DEF Spec

-----------------------------------------------------------------------------
(* The theorems *)

(***************************************************************************)
(* The tables keep their types through every sync, failure and reload.     *)
(***************************************************************************)
THEOREM TypeCorrect == Spec => []TypeOK
BY Invariance, PTL DEF Inv

(***************************************************************************)
(* Nobody connects unbilled, whatever fails and wherever it fails: AddUsers *)
(* gives all uids before the first account, and DelUsers takes a uid only  *)
(* after its account.                                                      *)
(***************************************************************************)
THEOREM ServedAreBilled == Spec => []BillableBeforeServed
BY Invariance, PTL DEF Inv

(***************************************************************************)
(* Limiter.UpdateUser, applied only by syncs that got that far and always  *)
(* together with "c.userList = newU", keeps the limiter equal to the       *)
(* controller's list.                                                      *)
(***************************************************************************)
THEOREM LimiterIsExact == Spec => []LimiterTracksList
BY Invariance, PTL DEF Inv

(***************************************************************************)
(* Syncs of which no call failed leave accounts and uids in agreement with *)
(* the controller's list.                                                  *)
(***************************************************************************)
THEOREM SyncIsClean == Spec => []CleanSync
<1>1. Inv => CleanSync
  BY DEF Inv, CleanInv, CleanSync
<1> QED
  BY <1>1, Invariance, PTL

(***************************************************************************)
(* The difference computed by compareUserList applies without an error of  *)
(* its own making: a first failure comes from xray or the panel.           *)
(***************************************************************************)
THEOREM DifferenceApplies == Spec => []DiffApplies
<1>1. Inv => DiffApplies
  BY DEF Inv, CleanInv, DiffApplies
<1> QED
  BY <1>1, Invariance, PTL

(***************************************************************************)
(* No sync disconnects, or stops admitting, a user that its list keeps.    *)
(***************************************************************************)
THEOREM KeptUsersAreServed == Spec => KeptUsersStay
<1>1. ASSUME Inv, Next
      PROVE  KeptStays
  <2> USE DEF KeptStays
  <2>1. CASE UNCHANGED <<accounts, limits>>
    BY <2>1
  <2>2. ASSUME NEW v \in User, DelUser(v) \/ DelUserHangs(v)
        PROVE  KeptStays
    BY <1>1, <2>2 DEF DelUser, DelUserHangs, Inv, LoopInv
  <2>3. ASSUME NEW v \in User, AddUser(v)
        PROVE  KeptStays
    BY <2>3 DEF AddUser
  <2>4. CASE UpdateLimiter
    <3>1. limits' = newU /\ accounts' = accounts
      BY <1>1, <2>4, PatchIsList DEF UpdateLimiter, Inv, LimiterTracksList, TypeOK
    <3> QED
      BY <3>1
  <2>5. CASE Drop
    BY <2>5 DEF Drop, Blank
  <2>6. CASE Start
    <3>1. limits = Empty /\ accounts' = accounts
      BY <1>1, <2>6 DEF Start, Inv, DownInv, LimiterTracksList
    <3> QED
      BY <3>1 DEF Empty
  <2> QED
    BY <1>1, <2>1, <2>2, <2>3, <2>4, <2>5, <2>6
       DEF Next, Monitor, GetUserList, GetUserAlive, AliveTimeout,
           DelUsersFails, DelUsersReturns, AddUsersFails, AddUsersReturns,
           Deadline, Reload, EditPanel, tables
<1>2. Inv /\ [Next]_vars => [KeptStays]_vars
  BY <1>1
<1> QED
  BY <1>2, Invariance, PTL DEF Spec, KeptUsersStay

-----------------------------------------------------------------------------
(* The entity tag *)

\* A list under way is the acknowledged one.
AckInv ==
  /\ newU # Empty => etag = newU
  /\ AcknowledgedIsServed

LEMMA AckDrop ==
  ASSUME Drop
  PROVE  AckInv'
BY DEF Drop, Blank, AckInv, AcknowledgedIsServed

LEMMA AckStep ==
  ASSUME Inv, AckInv, [Next]_vars
  PROVE  AckInv'
<1> USE DEF AckInv, AcknowledgedIsServed, tables
<1>1. CASE Start
  BY <1>1 DEF Start, Inv, AimInv
<1>2. CASE GetUserList
  BY <1>2 DEF GetUserList, Inv, AimInv
<1>3. CASE GetUserAlive
  BY <1>3 DEF GetUserAlive, Return
<1>4. CASE AliveTimeout
  BY <1>4 DEF AliveTimeout, Return, Inv, TypeOK
<1>5. CASE DelUsersFails
  BY <1>5 DEF DelUsersFails, Return
<1>6. CASE AddUsersFails
  <2>1. CASE Drop
    BY <2>1, AckDrop
  <2>2. CASE ~Drop
    BY <1>6, <2>2 DEF AddUsersFails, Return
  <2> QED
    BY <2>1, <2>2
<1>7. CASE UpdateLimiter
  BY <1>7 DEF UpdateLimiter, Return, Inv, AimInv
<1>8. CASE Reload \/ Deadline
  BY <1>8, AckDrop DEF Reload, Deadline
<1>9. CASE UNCHANGED <<etag, newU, userList, failed, lost>>
  BY <1>9
<1> QED
  BY <1>1, <1>2, <1>3, <1>4, <1>5, <1>6, <1>7, <1>8, <1>9
     DEF Next, Monitor, DelUser, DelUserHangs, AddUser, DelUsersReturns,
         AddUsersReturns, EditPanel, vars

(***************************************************************************)
(* Every list the node acknowledges is served or on its way, until a call  *)
(* fails or a deadline drops it: the syncs themselves lose none, and the   *)
(* 304 that follows hides none.                                            *)
(***************************************************************************)
THEOREM AcknowledgedListsAreServed == Spec => []AcknowledgedIsServed
<1>1. Init => AckInv
  BY DEF Init, Blank, AckInv, AcknowledgedIsServed
<1>2. Inv /\ AckInv /\ [Next]_vars => AckInv'
  BY AckStep
<1>3. AckInv => AcknowledgedIsServed
  BY DEF AckInv
<1> QED
  BY <1>1, <1>2, <1>3, Invariance, PTL DEF Spec

-----------------------------------------------------------------------------
(* The refinement *)

LEMMA BarInit == Init => Service!Init
BY DEF Init, Blank, Service!Init, Service!Off, Service!Empty, Empty

LEMMA BarDrop ==
  ASSUME Drop
  PROVE  Service!Stop
BY DEF Drop, Blank, Service!Stop, Service!Off, Service!Empty, Empty

\* The monitor returns without having finished its change.
LEMMA BarReturn ==
  ASSUME Inv, Return, UNCHANGED <<panel, userList, accounts>>, step # "boot",
         failed' \in {TRUE, failed},
         ~failed' => accounts = Members(userList)
  PROVE  Service!GiveUp
<1>1. step' = "idle" /\ newU' = Empty
  BY DEF Return
<1> QED
  BY <1>1 DEF Inv, TypeOK, Service!GiveUp, Service!Members, Members

LEMMA BarStep ==
  ASSUME Inv, Next
  PROVE  Service!Next \/ UNCHANGED Service!vars
<1> USE DEF Service!Members, Service!Empty, Service!vars, Service!Next
<1>1. CASE Start
  <2>1. Service!Aim
    BY <1>1 DEF Start, Service!Aim, Inv, DownInv, AimInv, Empty
  <2> QED
    BY <2>1
<1>2. CASE GetUserList
  <2>1. CASE etag = panel \/ panel = Empty
    BY <1>2, <2>1 DEF GetUserList, tables, Inv, AimInv
  <2>2. CASE etag # panel /\ panel # Empty
    <3>1. Service!Aim
      BY <1>2, <2>2 DEF GetUserList, tables, Service!Aim, Inv, AimInv, Empty
    <3> QED
      BY <3>1
  <2> QED
    BY <2>1, <2>2
<1>3. CASE GetUserAlive
  BY <1>3 DEF GetUserAlive, tables, Return
<1>4. CASE AliveTimeout
  <2>1. Service!GiveUp
    BY <1>4, BarReturn DEF AliveTimeout, tables, Inv, CleanInv, TypeOK
  <2> QED
    BY <2>1
<1>5. ASSUME NEW u \in User, DelUser(u) \/ DelUserHangs(u)
      PROVE  Service!Expel(u)
  BY <1>5 DEF DelUser, DelUserHangs, Service!Expel, Inv, LoopInv, AimInv, Members
<1>6. ASSUME NEW u \in User, AddUser(u)
      PROVE  Service!Admit(u)
  BY <1>6 DEF AddUser, Service!Admit, Inv, LoopInv, AimInv, Added, Members
<1>7. CASE DelUsersFails
  <2>1. Service!GiveUp
    BY <1>7, BarReturn DEF DelUsersFails, tables
  <2> QED
    BY <2>1
<1>8. CASE DelUsersReturns
  BY <1>8 DEF DelUsersReturns
<1>9. CASE AddUsersFails
  <2>1. CASE Drop
    BY <2>1, BarDrop
  <2>2. CASE ~Drop
    <3>1. Service!GiveUp
      BY <1>9, <2>2, BarReturn DEF AddUsersFails, tables
    <3> QED
      BY <3>1
  <2> QED
    BY <2>1, <2>2
<1>10. CASE AddUsersReturns
  <2>1. CASE step = "boot"
    <3>1. Service!Arrive
      BY <1>10, <2>1 DEF AddUsersReturns, tables, Service!Arrive, Inv, AimInv,
         CleanInv, Members
    <3> QED
      BY <3>1
  <2>2. CASE step = "add"
    BY <1>10, <2>2 DEF AddUsersReturns, tables
  <2> QED
    BY <1>10, <2>1, <2>2 DEF AddUsersReturns
<1>11. CASE UpdateLimiter
  <2>1. Service!Arrive
    BY <1>11 DEF UpdateLimiter, Return, Service!Arrive, Inv, AimInv, CleanInv,
       Members
  <2> QED
    BY <2>1
<1>12. CASE Reload \/ Deadline
  BY <1>12, BarDrop DEF Reload, Deadline
<1>13. CASE EditPanel
  <2>1. Service!Edit
    BY <1>13 DEF EditPanel, tables, Service!Edit
  <2> QED
    BY <2>1
<1> QED
  BY <1>1, <1>2, <1>3, <1>4, <1>5, <1>6, <1>7, <1>8, <1>9, <1>10, <1>11, <1>12,
     <1>13 DEF Next, Monitor

(***************************************************************************)
(* UserSync implements UserService: the node serves a list, aims at one    *)
(* the panel had, moves user by user and only in the direction of its aim, *)
(* and claims a list only when the users served are those of it, or a call *)
(* has failed in this generation.                                          *)
(***************************************************************************)
THEOREM Implements == Spec => ImplementsService
<1>1. Inv /\ [Next]_vars => [Service!Next]_(Service!vars)
  <2>1. UNCHANGED vars => UNCHANGED Service!vars
    BY DEF vars, Service!vars
  <2> QED
    BY <2>1, BarStep
<1> QED
  BY <1>1, BarInit, Invariance, PTL DEF Spec, ImplementsService, Service!Spec

(***************************************************************************)
(* A client of both lists is served through every boot and sync none of    *)
(* whose calls fails, and one of neither list never.                       *)
(***************************************************************************)
THEOREM ServedThroughout == Spec => []ServedBetween
<1>1. ASSUME Inv, ~failed
      PROVE  ServedBetween
  <2> USE <1>1 DEF ServedBetween, Service!ServedBetween, Service!Members,
                   Service!Empty, Inv, AimInv, CleanInv, Members, Empty
  <2>1. CASE step \in {"down", "idle", "alive"}
    BY <2>1 DEF DownInv
  <2>2. CASE step = "boot"
    BY <2>2
  <2>3. CASE step \in {"delete", "stuck"}
    BY <2>3
  <2>4. CASE step \in {"add", "update"}
    BY <2>4 DEF LoopInv, Added
  <2> QED
    BY <2>1, <2>2, <2>3, <2>4 DEF TypeOK
<1>2. Inv => ServedBetween
  BY <1>1 DEF ServedBetween, Service!ServedBetween
<1> QED
  BY <1>2, Invariance, PTL

=============================================================================
