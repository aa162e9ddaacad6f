--------------------------- MODULE AdmissionProofs ----------------------------
(***************************************************************************)
(* Proofs about Admission, for any users, addresses, connections and maps. *)
(*                                                                         *)
(* The argument follows a stored device through the two maps.  What a user *)
(* has online was stored since the report before last began (OnlineInv),   *)
(* and even since the last began once the report has dealt with the user,  *)
(* which is what allows the next report to forget the period before.  Then *)
(* what was reported was stored in these periods, too (OldInv).            *)
(***************************************************************************)
EXTENDS Admission, TLAPS

\* The report under way has dealt with u, or will not.
Done(u) == u \notin report.users \/ (u \in report.seen /\ report.user # u)

OnlineInv ==
  \A u \in User :
    UserOnlineIP[u] # None =>
      /\ addrs[UserOnlineIP[u]] \subseteq now \cup before
      /\ Done(u) => addrs[UserOnlineIP[u]] \subseteq now

OldInv ==
  \A ip \in Ip : OldUserOnline[ip] # None => ~IsStranger(ip)

\* A check that no report has overlapped with.
AloneInv ==
  \A c \in Conn :
    check[c].alone =>
      /\ report.pc = "idle"
      /\ check[c].pc = "join" => addrs[check[c].map] \subseteq now \cup before

StrangerInv ==
  \A c \in Conn :
    /\ check[c].stranger => check[c].pc \in {"look", "forget", "undo"}
    /\ check[c].stranger /\ check[c].alone =>
         check[c].pc # "forget" /\ OldUserOnline[check[c].ip] = None

RacedInv ==
  \A c \in Conn :
    check[c].pc # "idle" => check[c].user \in UserLimitInfo \cup raced

Inv ==
  /\ TypeOK /\ OnlineInv /\ OldInv /\ AloneInv /\ StrangerInv /\ RacedInv
  /\ FreshReport /\ DeletedOffline

-----------------------------------------------------------------------------
(* The invariant *)

LEMMA Overlapped ==
  ASSUME NEW r \in Check
  PROVE  LET s == [r EXCEPT !.alone = FALSE]
         IN /\ s \in Check /\ ~s.alone
            /\ s.pc = r.pc /\ s.user = r.user /\ s.ip = r.ip /\ s.map = r.map
            /\ s.stranger = r.stranger
BY DEF Check

LEMMA InitInv == Init => Inv
<1> SUFFICES ASSUME Init
             PROVE  Inv
  OBVIOUS
<1>1. TypeOK
  BY NoneAssumption DEF Init, TypeOK, Idle, Resting, Check
<1>2. OnlineInv /\ OldInv /\ DeletedOffline /\ FreshReport
  BY DEF Init, OnlineInv, OldInv, DeletedOffline, FreshReport, Resting
<1>3. AloneInv /\ StrangerInv /\ RacedInv
  BY DEF Init, AloneInv, StrangerInv, RacedInv, Idle
<1> QED
  BY <1>1, <1>2, <1>3 DEF Inv

LEMMA TypeStep == TypeOK /\ [Next]_vars => TypeOK'
<1> SUFFICES ASSUME TypeOK, [Next]_vars
             PROVE  TypeOK'
  OBVIOUS
<1> USE NoneAssumption DEF TypeOK
<1>0. Idle \in Check /\ Idle.pc = "idle"
  BY DEF Idle, Check
<1>1. ASSUME NEW c \in Conn, Begin(c)
      PROVE  TypeOK'
  <2>1. PICK u \in UserLimitInfo, ip \in Ip, full \in BOOLEAN :
          /\ <<u, ip>> \in Source
          /\ u \in Steady => ~full
          /\ check' = [check EXCEPT ![c] =
                        [Idle EXCEPT !.pc = "register", !.user = u, !.ip = ip,
                                     !.full = full, !.alone = report.pc = "idle"]]
    BY <1>1, Zenon DEF Begin
  <2>2. PICK alone \in BOOLEAN : alone = (report.pc = "idle")
    OBVIOUS
  <2>3. PICK r : r = [Idle EXCEPT !.pc = "register", !.user = u, !.ip = ip,
                                  !.full = full, !.alone = alone]
    OBVIOUS
  <2>4. r \in Check /\ r.pc = "register" /\ r.user = u /\ r.ip = ip
    BY <2>3 DEF Idle, Check
  <2>5. check' = [check EXCEPT ![c] = r]
    BY <2>1, <2>2, <2>3
  <2> QED
    BY <1>1, <2>4, <2>5 DEF Begin, maps, hist
<1>2. ASSUME NEW c \in Conn, Register(c)
      PROVE  TypeOK'
  BY <1>2 DEF Register, Store, DeviceOf, Device, InUse, IsStranger, Check
<1>3. ASSUME NEW c \in Conn, Join(c)
      PROVE  TypeOK'
  <2>1. CASE HasIp(addrs[check[c].map], check[c].ip)
    BY <1>0, <1>3, <2>1 DEF Join, Return
  <2>2. CASE ~HasIp(addrs[check[c].map], check[c].ip)
    BY <1>3, <2>2 DEF Join, Store, DeviceOf, Device, IsStranger, Check
  <2> QED
    BY <2>1, <2>2
<1>4. ASSUME NEW c \in Conn, Look(c)
      PROVE  TypeOK'
  <2>1. CASE Return(c)
    BY <1>0, <1>4, <2>1 DEF Look, Return, maps, hist
  <2>2. CASE ~Return(c)
    <3>1. PICK pc \in {"forget", "undo"} : check' = [check EXCEPT ![c].pc = pc]
      BY <1>4, <2>2 DEF Look
    <3> QED
      BY <1>4, <3>1 DEF Look, maps, hist, Check
  <2> QED
    BY <2>1, <2>2
<1>5. ASSUME NEW c \in Conn, Forget(c)
      PROVE  TypeOK'
  BY <1>0, <1>5 DEF Forget, Return, hist
<1>6. ASSUME NEW c \in Conn, Undo(c)
      PROVE  TypeOK'
  BY <1>0, <1>6 DEF Undo, Return, hist
<1>7. ASSUME BeginReport
      PROVE  TypeOK'
  <2>1. /\ check' = [c \in Conn |-> [check[c] EXCEPT !.alone = FALSE]]
        /\ check \in [Conn -> Check]
    BY <1>7 DEF BeginReport
  <2>2. \A c \in Conn :
          /\ check'[c] \in Check
          /\ check'[c].pc = check[c].pc /\ check'[c].user = check[c].user
          /\ check'[c].ip = check[c].ip /\ check'[c].map = check[c].map
    BY <2>1, Overlapped
  <2>3. check' \in [Conn -> Check]
    BY <2>1, <2>2
  <2> QED
    BY <1>7, <2>2, <2>3 DEF BeginReport, Resting
<1>8. ASSUME NEW u \in User, VisitUser(u)
      PROVE  TypeOK'
  BY <1>8 DEF VisitUser, maps, hist
<1>9. ASSUME NEW u \in User, NEW ip \in Ip, VisitIp(u, ip)
      PROVE  TypeOK'
  BY <1>9 DEF VisitIp, hist, Device
<1>10. ASSUME LeaveUser
       PROVE  TypeOK'
  BY <1>10 DEF LeaveUser, hist
<1>11. ASSUME EndReport
       PROVE  TypeOK'
  BY <1>11 DEF EndReport, Resting, maps, hist
<1>12. ASSUME NEW u \in User, Delete(u) \/ Add(u)
       PROVE  TypeOK'
  BY <1>12 DEF Delete, Add
<1>13. ASSUME DeleteOnline
       PROVE  TypeOK'
  BY <1>13 DEF DeleteOnline, hist
<1>14. ASSUME UNCHANGED vars
       PROVE  TypeOK'
  BY <1>14 DEF vars, maps, hist
<1> QED
  BY <1>1, <1>2, <1>3, <1>4, <1>5, <1>6, <1>7, <1>8, <1>9, <1>10, <1>11,
     <1>12, <1>13, <1>14 DEF Next, CheckLimit, GetOnlineDevice

LEMMA StepInv == Inv /\ [Next]_vars => Inv'
<1> SUFFICES ASSUME Inv, [Next]_vars
             PROVE  Inv'
  OBVIOUS
<1>0. TypeOK /\ TypeOK'
  BY TypeStep DEF Inv
<1> USE NoneAssumption, <1>0 DEF Inv, TypeOK
<1>1. ASSUME NEW c \in Conn, Begin(c)
      PROVE  Inv'
  <2>1. PICK u \in UserLimitInfo, ip \in Ip, full \in BOOLEAN :
          /\ <<u, ip>> \in Source
          /\ u \in Steady => ~full
          /\ check' = [check EXCEPT ![c] =
                        [Idle EXCEPT !.pc = "register", !.user = u, !.ip = ip,
                                     !.full = full, !.alone = report.pc = "idle"]]
    BY <1>1, Zenon DEF Begin
  <2>2. PICK r : r = [Idle EXCEPT !.pc = "register", !.user = u, !.ip = ip,
                                  !.full = full, !.alone = report.pc = "idle"]
    OBVIOUS
  <2>3. /\ r.pc = "register" /\ r.user = u /\ ~r.stranger
        /\ r.alone => report.pc = "idle"
    BY <2>2 DEF Idle
  <2>4. \A d \in Conn : check'[d] = IF d = c THEN r ELSE check[d]
    BY <2>1, <2>2
  <2>5. UNCHANGED <<maps, report, update, hist>>
    BY <1>1 DEF Begin
  <2>6. AloneInv' /\ StrangerInv' /\ RacedInv'
    BY <2>3, <2>4, <2>5 DEF AloneInv, StrangerInv, RacedInv, maps, hist
  <2>7. OnlineInv' /\ OldInv' /\ FreshReport' /\ DeletedOffline'
    BY <2>5 DEF OnlineInv, Done, OldInv, IsStranger, HasIp, FreshReport, DeletedOffline, maps, hist
  <2> QED
    BY <2>6, <2>7
<1>2. ASSUME NEW c \in Conn, Register(c)
      PROVE  Inv'
  <2> DEFINE u == check[c].user
  <2>1. /\ u \in User
        /\ UNCHANGED <<UserLimitInfo, OldUserOnline, report, update, before, raced>>
        /\ \A d \in Conn \ {c} : check'[d] = check[d]
        /\ check'[c].user = u /\ check'[c].ip = check[c].ip
        /\ check'[c].alone = check[c].alone
    BY <1>2 DEF Register, Check
  <2>2. CASE UserOnlineIP[u] = None
    <3>1. PICK m \in IpMap :
            /\ ~InUse(m)
            /\ UserOnlineIP' = [UserOnlineIP EXCEPT ![u] = m]
            /\ addrs' = [addrs EXCEPT ![m] = {DeviceOf(c)}]
      BY <1>2, <2>2 DEF Register
    <3>2. /\ now' = now \cup {DeviceOf(c)}
          /\ check'[c].pc = "look"
          /\ check'[c].stranger = IsStranger(check[c].ip)
      BY <1>2, <2>2 DEF Register, Store, Check
    <3>3. OnlineInv'
      BY <2>1, <3>1, <3>2 DEF OnlineInv, Done, InUse
    <3>4. OldInv'
      BY <2>1, <3>2 DEF OldInv, IsStranger, HasIp
    <3>5. AloneInv'
      BY <2>1, <3>1, <3>2 DEF AloneInv, InUse
    <3>6. StrangerInv'
      BY <1>2, <2>1, <3>2 DEF StrangerInv, OldInv, Register
    <3>7. FreshReport'
      BY <2>1, <3>1, <3>2 DEF FreshReport, InUse
    <3>8. RacedInv' /\ DeletedOffline'
      BY <1>2, <2>1, <3>1 DEF RacedInv, DeletedOffline, Register
    <3> QED
      BY <3>3, <3>4, <3>5, <3>6, <3>7, <3>8
  <2>3. CASE UserOnlineIP[u] # None
    <3>1. /\ UNCHANGED <<UserOnlineIP, addrs, now>>
          /\ check'[c].pc = "join" /\ check'[c].map = UserOnlineIP[u]
          /\ check'[c].stranger = check[c].stranger
      BY <1>2, <2>3 DEF Register, Check
    <3>2. OnlineInv' /\ OldInv' /\ FreshReport' /\ DeletedOffline'
      BY <2>1, <3>1
      DEF OnlineInv, Done, OldInv, IsStranger, HasIp, FreshReport, DeletedOffline
    <3>3. AloneInv'
      BY <2>1, <2>3, <3>1 DEF AloneInv, OnlineInv
    <3>4. StrangerInv' /\ RacedInv'
      BY <1>2, <2>1, <3>1 DEF StrangerInv, RacedInv, Register
    <3> QED
      BY <3>2, <3>3, <3>4
  <2> QED
    BY <2>2, <2>3
<1>3. ASSUME NEW c \in Conn, UNCHANGED <<UserLimitInfo, report, update, hist>>,
             Return(c),
             \A u \in User : UserOnlineIP'[u] \in {UserOnlineIP[u], None},
             \A m \in IpMap : addrs'[m] \subseteq addrs[m],
             \A ip \in Ip : OldUserOnline'[ip] \in {OldUserOnline[ip], None}
      PROVE  Inv'
  \* A check that ends stores nothing.
  <2>1. /\ check'[c].pc = "idle" /\ ~check'[c].alone /\ ~check'[c].stranger
        /\ \A d \in Conn \ {c} : check'[d] = check[d]
    BY <1>3 DEF Return, Idle
  <2>2. AloneInv'
    BY <1>3, <2>1 DEF AloneInv, Check, hist
  <2>3. StrangerInv' /\ RacedInv'
    BY <1>3, <2>1 DEF StrangerInv, RacedInv, Check, hist
  <2>4. OnlineInv'
    BY <1>3 DEF OnlineInv, Done, hist
  <2>5. OldInv' /\ FreshReport' /\ DeletedOffline'
    BY <1>3 DEF OldInv, IsStranger, HasIp, FreshReport, DeletedOffline, hist
  <2> QED
    BY <2>2, <2>3, <2>4, <2>5
<1>4. ASSUME NEW c \in Conn, Join(c)
      PROVE  Inv'
  <2>1. CASE HasIp(addrs[check[c].map], check[c].ip)
    BY <1>3, <1>4, <2>1 DEF Join, hist
  <2>2. CASE ~HasIp(addrs[check[c].map], check[c].ip)
    <3>1. /\ UNCHANGED <<UserLimitInfo, UserOnlineIP, OldUserOnline, report,
                         update, before, raced>>
          /\ \A d \in Conn \ {c} : check'[d] = check[d]
          /\ now' = now \cup {DeviceOf(c)}
          /\ \A m \in IpMap : addrs'[m] \subseteq addrs[m] \cup {DeviceOf(c)}
          /\ check'[c].pc = "look" /\ check'[c].alone = check[c].alone
          /\ check'[c].user = check[c].user /\ check'[c].ip = check[c].ip
          /\ check'[c].stranger = IsStranger(check[c].ip)
      BY <1>4, <2>2 DEF Join, Store, Check
    <3>2. OnlineInv'
      BY <3>1 DEF OnlineInv, Done
    <3>3. OldInv' /\ FreshReport'
      BY <3>1 DEF OldInv, IsStranger, HasIp, FreshReport
    <3>4. AloneInv'
      BY <3>1 DEF AloneInv, Check
    <3>5. StrangerInv'
      BY <1>4, <3>1 DEF StrangerInv, OldInv, Join
    <3>6. RacedInv' /\ DeletedOffline'
      BY <1>4, <3>1 DEF RacedInv, DeletedOffline, Join
    <3> QED
      BY <3>2, <3>3, <3>4, <3>5, <3>6
  <2> QED
    BY <2>1, <2>2
<1>5. ASSUME NEW c \in Conn, Look(c)
      PROVE  Inv'
  <2>1. CASE Return(c)
    BY <1>3, <1>5, <2>1 DEF Look, maps, hist
  <2>2. CASE ~Return(c)
    <3>1. /\ UNCHANGED <<maps, report, update, hist>>
          /\ \A d \in Conn \ {c} : check'[d] = check[d]
          /\ \/ check'[c].pc = "undo"
             \/ check'[c].pc = "forget" /\ OldUserOnline[check[c].ip] = check[c].user
          /\ check'[c].user = check[c].user /\ check'[c].ip = check[c].ip
          /\ check'[c].alone = check[c].alone
          /\ check'[c].stranger = check[c].stranger
      BY <1>5, <2>2 DEF Look, Check
    <3>2. check[c].pc = "look" /\ check[c].user \in User
      BY <1>5 DEF Look
    <3>3. AloneInv' /\ StrangerInv' /\ RacedInv'
      BY <3>1, <3>2 DEF AloneInv, StrangerInv, RacedInv, maps, hist
    <3>4. OnlineInv' /\ OldInv' /\ FreshReport' /\ DeletedOffline'
      BY <3>1 DEF OnlineInv, Done, OldInv, IsStranger, HasIp, FreshReport,
                  DeletedOffline, maps, hist
    <3> QED
      BY <3>3, <3>4
  <2> QED
    BY <2>1, <2>2
<1>6. ASSUME NEW c \in Conn, Forget(c)
      PROVE  Inv'
  BY <1>3, <1>6 DEF Forget, hist
<1>7. ASSUME NEW c \in Conn, Undo(c)
      PROVE  Inv'
  BY <1>3, <1>7 DEF Undo, hist
<1>8. ASSUME BeginReport
      PROVE  Inv'
  <2>0. report = Resting
    BY <1>8 DEF BeginReport
  <2>1. /\ report.users = {} /\ report.user = None
        /\ report'.users = {u \in User : UserOnlineIP[u] # None}
        /\ report'.pc = "users" /\ report'.seen = {} /\ report'.user = None
    BY <1>8, <2>0 DEF BeginReport, Resting
  <2>2. \A c \in Conn :
          /\ check'[c].pc = check[c].pc /\ check'[c].user = check[c].user
          /\ ~check'[c].alone /\ check'[c].stranger = check[c].stranger
    <3>1. /\ check' = [c \in Conn |-> [check[c] EXCEPT !.alone = FALSE]]
          /\ check \in [Conn -> Check]
      BY <1>8 DEF BeginReport
    <3> QED
      BY <3>1, Overlapped
  <2>3. OnlineInv'
    BY <1>8, <2>1 DEF BeginReport, OnlineInv, Done
  <2>4. OldInv' /\ FreshReport' /\ DeletedOffline'
    BY <1>8, <2>1 DEF BeginReport, OldInv, FreshReport, DeletedOffline
  <2>5. AloneInv' /\ StrangerInv' /\ RacedInv'
    BY <1>8, <2>2 DEF BeginReport, AloneInv, StrangerInv, RacedInv
  <2> QED
    BY <2>3, <2>4, <2>5
<1>9. ASSUME NEW u \in User, VisitUser(u)
      PROVE  Inv'
  <2>1. /\ report'.users = report.users /\ report'.seen = report.seen \cup {u}
        /\ report'.user = u /\ report'.map = UserOnlineIP[u] /\ report'.pc = "ips"
        /\ report.user = None /\ report.pc = "users"
    BY <1>9 DEF VisitUser
  <2>2. OnlineInv'
    BY <1>9, <2>1 DEF VisitUser, OnlineInv, Done, maps, hist
  <2>3. FreshReport'
    BY <1>9, <2>1 DEF VisitUser, OnlineInv, FreshReport, maps, hist
  <2>4. AloneInv' /\ StrangerInv' /\ RacedInv'
    BY <1>9, <2>1 DEF VisitUser, AloneInv, StrangerInv, RacedInv, maps, hist
  <2>5. OldInv' /\ DeletedOffline'
    BY <1>9 DEF VisitUser, OldInv, IsStranger, HasIp, DeletedOffline, maps, hist
  <2> QED
    BY <2>2, <2>3, <2>4, <2>5
<1>10. ASSUME NEW u \in User, NEW ip \in Ip, VisitIp(u, ip)
       PROVE  Inv'
  <2>1. /\ report'.users = report.users /\ report'.seen = report.seen
        /\ report'.user = report.user /\ report'.map = report.map
        /\ report'.pc = "ips" /\ report.pc = "ips"
    BY <1>10 DEF VisitIp
  <2>2. ~IsStranger(ip)
    BY <1>10, <2>1 DEF VisitIp, FreshReport, IsStranger, HasIp
  <2>3. OldInv'
    BY <1>10, <2>2 DEF VisitIp, OldInv, IsStranger, HasIp, hist
  <2>4. OnlineInv' /\ FreshReport' /\ DeletedOffline'
    BY <1>10, <2>1 DEF VisitIp, OnlineInv, Done, FreshReport, DeletedOffline, hist
  <2>5. AloneInv' /\ StrangerInv' /\ RacedInv'
    BY <1>10, <2>1 DEF VisitIp, AloneInv, StrangerInv, RacedInv, hist
  <2> QED
    BY <2>3, <2>4, <2>5
<1>11. ASSUME LeaveUser
       PROVE  Inv'
  <2>1. /\ report'.users = report.users /\ report'.seen = report.seen
        /\ report'.user = None /\ report'.pc = "users" /\ report.pc = "ips"
        /\ UserOnlineIP' = [UserOnlineIP EXCEPT ![report.user] = None]
        /\ UNCHANGED <<UserLimitInfo, addrs, OldUserOnline, check, update, hist>>
    BY <1>11 DEF LeaveUser
  <2>2. OnlineInv'
    BY <2>1 DEF OnlineInv, Done, hist
  <2>3. FreshReport' /\ OldInv' /\ DeletedOffline'
    BY <2>1 DEF FreshReport, OldInv, IsStranger, HasIp, DeletedOffline, hist
  <2>4. AloneInv' /\ StrangerInv' /\ RacedInv'
    BY <2>1 DEF AloneInv, StrangerInv, RacedInv, hist
  <2> QED
    BY <2>2, <2>3, <2>4
<1>12. ASSUME EndReport
       PROVE  Inv'
  <2>1. /\ report'.users = {} /\ report'.pc = "idle"
        /\ report.pc = "users" /\ report.user = None
        /\ UNCHANGED <<maps, check, update, hist>>
    BY <1>12 DEF EndReport, Resting
  <2>2. OnlineInv'
    BY <1>12, <2>1 DEF EndReport, OnlineInv, Done, maps, hist
  <2>3. FreshReport' /\ OldInv' /\ DeletedOffline'
    BY <2>1 DEF FreshReport, OldInv, IsStranger, HasIp, DeletedOffline, maps, hist
  <2>4. AloneInv' /\ StrangerInv' /\ RacedInv'
    BY <2>1 DEF AloneInv, StrangerInv, RacedInv, maps, hist
  <2> QED
    BY <2>2, <2>3, <2>4
<1>13. ASSUME UNCHANGED <<addrs, OldUserOnline, check, report, now, before>>,
              \A u \in User : UserOnlineIP'[u] \in {UserOnlineIP[u], None},
              RacedInv', DeletedOffline'
       PROVE  Inv'
  <2>1. OnlineInv' /\ OldInv' /\ FreshReport' /\ AloneInv' /\ StrangerInv'
    BY <1>13 DEF OnlineInv, Done, OldInv, IsStranger, HasIp, FreshReport,
                 AloneInv, StrangerInv
  <2> QED
    BY <1>13, <2>1
<1>14. ASSUME NEW u \in User, Delete(u)
       PROVE  Inv'
  <2>1. RacedInv' /\ DeletedOffline'
    BY <1>14 DEF Delete, RacedInv, DeletedOffline
  <2> QED
    BY <1>13, <1>14, <2>1 DEF Delete
<1>15. ASSUME DeleteOnline
       PROVE  Inv'
  <2>1. RacedInv' /\ DeletedOffline'
    BY <1>15 DEF DeleteOnline, RacedInv, DeletedOffline, hist
  <2> QED
    BY <1>13, <1>15, <2>1 DEF DeleteOnline, hist
<1>16. ASSUME NEW u \in User, Add(u)
       PROVE  Inv'
  <2>1. RacedInv' /\ DeletedOffline'
    BY <1>16 DEF Add, RacedInv, DeletedOffline
  <2> QED
    BY <1>13, <1>16, <2>1 DEF Add
<1>17. ASSUME UNCHANGED vars
       PROVE  Inv'
  <2>1. RacedInv' /\ DeletedOffline'
    BY <1>17 DEF vars, maps, hist, RacedInv, DeletedOffline
  <2> QED
    BY <1>13, <1>17, <2>1 DEF vars, maps, hist
<1> QED
  BY <1>1, <1>2, <1>4, <1>5, <1>6, <1>7, <1>8, <1>9, <1>10, <1>11, <1>12,
     <1>14, <1>15, <1>16, <1>17 DEF Next, CheckLimit, GetOnlineDevice

LEMMA Invariance == Spec => []Inv
BY InitInv, StepInv, PTL DEF Spec

-----------------------------------------------------------------------------
(* Theorems *)

(***************************************************************************)
(* The two maps, the checks and the report keep their types.               *)
(***************************************************************************)
THEOREM TypeCorrect == Spec => []TypeOK
<1>1. Inv => TypeOK
  BY DEF Inv
<1> QED
  BY <1>1, Invariance, PTL

(***************************************************************************)
(* What GetOnlineDevice reports was seen since the previous report began.  *)
(***************************************************************************)
THEOREM ReportsAreFresh == Spec => []FreshReport
<1>1. Inv => FreshReport
  BY DEF Inv
<1> QED
  BY <1>1, Invariance, PTL

(***************************************************************************)
(* UpdateUser deletes the entry that admits a user before the user's       *)
(* addresses, so that they do not come back.                               *)
(***************************************************************************)
THEOREM DeletedGoOffline == Spec => []DeletedOffline
<1>1. Inv => DeletedOffline
  BY DEF Inv
<1> QED
  BY <1>1, Invariance, PTL

(***************************************************************************)
(* CheckLimit holds the device limit against unknown addresses, however    *)
(* many connections of however many users it checks at a time.             *)
(***************************************************************************)
THEOREM LimitHolds == Spec => StrangersRefused
<1>1. Inv /\ [Next]_vars => [StrangerRefused]_vars
  <2> SUFFICES ASSUME Inv, Next, NEW c \in Conn,
                      Admits(c), check[c].full, check[c].alone
               PROVE  /\ ~check[c].stranger
                      /\ check[c].pc = "join" => ~IsStranger(check[c].ip)
    BY DEF StrangerRefused
  <2> USE NoneAssumption DEF Inv, TypeOK
  <2>0. check[c] \in Check /\ check[c].pc \notin {"idle", "undo"} /\ check'[c].pc = "idle"
    BY DEF Admits
  \* Nothing else ends the check of c.
  <2>1. CASE check'[c].pc = check[c].pc
    BY <2>0, <2>1
  <2>2. CASE \E d \in Conn : Begin(d)
    BY <2>0, <2>2 DEF Begin, Idle
  <2>3. CASE \E d \in Conn : d # c /\ CheckLimit(d)
    BY <2>0, <2>3 DEF CheckLimit, Register, Join, Look, Forget, Undo, Return
  <2>4. CASE Register(c) \/ Undo(c)
    BY <2>0, <2>4 DEF Register, Undo, Check
  <2>5. CASE Join(c)
    <3>1. HasIp(addrs[check[c].map], check[c].ip) /\ check[c].pc = "join"
      BY <2>0, <2>5 DEF Join, Check
    <3>2. addrs[check[c].map] \subseteq now \cup before
      BY <3>1 DEF AloneInv
    <3> QED
      BY <3>1, <3>2 DEF StrangerInv, IsStranger, HasIp
  <2>6. CASE Look(c)
    BY <2>0, <2>6 DEF Look, StrangerInv, Check
  <2>7. CASE Forget(c)
    BY <2>0, <2>7 DEF Forget, StrangerInv
  <2>8. CASE BeginReport
    <3>1. check' = [d \in Conn |-> [check[d] EXCEPT !.alone = FALSE]]
      BY <2>8 DEF BeginReport
    <3> QED
      BY <2>0, <2>1, <3>1, Overlapped
  <2>9. CASE check' = check
    BY <2>1, <2>9
  <2> QED
    BY <2>2, <2>3, <2>4, <2>5, <2>6, <2>7, <2>8, <2>9
    DEF Next, CheckLimit, GetOnlineDevice, VisitUser, VisitIp, LeaveUser, EndReport,
        Delete, Add, DeleteOnline
<1> QED
  BY <1>1, Invariance, PTL DEF Spec, StrangersRefused

=============================================================================
