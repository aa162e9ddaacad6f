------------------------------ MODULE Admission -------------------------------
(***************************************************************************)
(* The device limit of one Limiter: connections in CheckLimit, the report  *)
(* task in GetOnlineDevice and the monitor in UpdateUser, which share two  *)
(* concurrent maps, UserOnlineIP and OldUserOnline, without a common lock. *)
(*                                                                         *)
(* Every access to one of the maps is a step.  A connection here is one    *)
(* whose device counts: over TCP, or any under hysteria2 and tuic; others  *)
(* touch neither map.  Speed limits are left out, and so is the expiry of  *)
(* dynamic ones, which nothing in the repository sets.                     *)
(***************************************************************************)
CONSTANTS
  User,       \* users of the node
  Ip,         \* addresses that connections come from
  Conn,       \* connections that may be checked at the same time
  IpMap,      \* maps of addresses; bounds those that something refers to
  Source,     \* users and the addresses they may connect from
  Steady,     \* users without a device limit who are never deleted
  None        \* no entry

ASSUME NoneAssumption   == None \notin User \cup Ip \cup IpMap
ASSUME SteadyAssumption == Steady \subseteq User

VARIABLES
  UserLimitInfo,  \* the users that have an entry
  UserOnlineIP,   \* each user's map of addresses
  addrs,          \* the content of every such map, {Key: Ip, value: Uid}
  OldUserOnline,  \* who was reported under an address
  check,          \* CheckLimit of each connection
  report,         \* GetOnlineDevice
  update,         \* UpdateUser
  now,            \* history: devices stored since the last report began
  before,         \* history: devices stored in the period before
  raced           \* history: deleted users of whom a check was under way

maps == <<UserLimitInfo, UserOnlineIP, addrs, OldUserOnline>>
hist == <<now, before, raced>>
vars == <<maps, check, report, update, hist>>

Device == User \X Ip

Idle == [pc |-> "idle", user |-> None, ip |-> None, map |-> None,
         full |-> FALSE, alone |-> FALSE, stranger |-> FALSE]

Resting == [pc |-> "idle", users |-> {}, seen |-> {}, user |-> None, map |-> None,
            devices |-> {}, taken |-> {}]

Check ==
  [pc : {"idle", "register", "join", "look", "forget", "undo"},
   user : User \cup {None}, ip : Ip \cup {None}, map : IpMap \cup {None},
   full : BOOLEAN, alone : BOOLEAN, stranger : BOOLEAN]

TypeOK ==
  /\ UserLimitInfo \in SUBSET User
  /\ UserOnlineIP \in [User -> IpMap \cup {None}]
  /\ addrs \in [IpMap -> SUBSET Device]
  /\ OldUserOnline \in [Ip -> User \cup {None}]
  /\ check \in [Conn -> Check]
  /\ report \in
       [pc : {"idle", "users", "ips"}, users : SUBSET User, seen : SUBSET User,
        user : User \cup {None}, map : IpMap \cup {None}, devices : SUBSET Device,
        taken : SUBSET Device]
  /\ update \in [pc : {"idle", "online"}, user : User \cup {None}]
  /\ now \subseteq Device
  /\ before \subseteq Device
  /\ raced \subseteq User
  /\ \A c \in Conn :
       /\ check[c].pc # "idle" => check[c].user \in User /\ check[c].ip \in Ip
       /\ check[c].pc = "join" => check[c].map # None
  /\ report.pc = "idle" => report = Resting
  /\ IF report.pc = "ips" THEN report.user \in User /\ report.map # None
                          ELSE report.user = None
  /\ IF update.pc = "online" THEN update.user \in User ELSE update.user = None

Init ==
  /\ UserLimitInfo \in SUBSET User /\ Steady \subseteq UserLimitInfo
  /\ UserOnlineIP = [u \in User |-> None]
  /\ addrs = [m \in IpMap |-> {}]
  /\ OldUserOnline = [ip \in Ip |-> None]
  /\ check = [c \in Conn |-> Idle]
  /\ report = Resting
  /\ update = [pc |-> "idle", user |-> None]
  /\ now = {}
  /\ before = {}
  /\ raced = {}

-----------------------------------------------------------------------------
(* CheckLimit *)

InUse(m) ==
  \/ \E u \in User : UserOnlineIP[u] = m
  \/ \E c \in Conn : check[c].map = m
  \/ report.map = m

\* A user without an entry is refused at once and leaves no trace.  The panel
\* may set the user's limit and count its devices as it likes: "full" is what
\* the check finds, a device limit that the alive list has reached.
Begin(c) ==
  /\ check[c].pc = "idle"
  /\ \E u \in UserLimitInfo, ip \in Ip, full \in BOOLEAN :
       /\ <<u, ip>> \in Source
       /\ u \in Steady => ~full
       /\ check' = [check EXCEPT ![c] =
                     [Idle EXCEPT !.pc = "register", !.user = u, !.ip = ip,
                                  !.full = full, !.alone = report.pc = "idle"]]
  /\ UNCHANGED <<maps, report, update, hist>>

DeviceOf(c) == <<check[c].user, check[c].ip>>

Store(c) == now' = now \cup {DeviceOf(c)}

HasIp(devices, ip) == \E u \in User : <<u, ip>> \in devices

IsStranger(ip) == ~HasIp(now \cup before, ip)

\* Mutation of Register: the map that is there is not looked at.
RegisterBlind(c) ==
  LET u == check[c].user
  IN /\ check[c].pc = "register"
     /\ \/ /\ UserOnlineIP[u] = None
           /\ \E m \in IpMap :
                /\ ~InUse(m)
                /\ UserOnlineIP' = [UserOnlineIP EXCEPT ![u] = m]
                /\ addrs' = [addrs EXCEPT ![m] = {DeviceOf(c)}]
           /\ Store(c)
           /\ check' = [check EXCEPT ![c].pc = "look",
                                     ![c].stranger = IsStranger(check[c].ip)]
        \/ /\ UserOnlineIP[u] # None
           /\ check' = [check EXCEPT ![c].pc = "join"]
           /\ UNCHANGED <<UserOnlineIP, addrs, now>>
     /\ UNCHANGED <<UserLimitInfo, OldUserOnline, report, update, before, raced>>

\* UserOnlineIP.LoadOrStore: the connection's own map, or the one that is there.
Register(c) ==
  LET u == check[c].user
  IN /\ check[c].pc = "register"
     /\ \/ /\ UserOnlineIP[u] = None
           /\ \E m \in IpMap :
                /\ ~InUse(m)
                /\ UserOnlineIP' = [UserOnlineIP EXCEPT ![u] = m]
                /\ addrs' = [addrs EXCEPT ![m] = {DeviceOf(c)}]
           /\ Store(c)
           /\ check' = [check EXCEPT ![c].pc = "look",
                                     ![c].stranger = IsStranger(check[c].ip)]
        \/ /\ UserOnlineIP[u] # None
           /\ check' = [check EXCEPT ![c].pc = "join", ![c].map = UserOnlineIP[u]]
           /\ UNCHANGED <<UserOnlineIP, addrs, now>>
     /\ UNCHANGED <<UserLimitInfo, OldUserOnline, report, update, before, raced>>

Return(c) == check' = [check EXCEPT ![c] = Idle]

\* oldipMap.LoadOrStore: an address that is there is let in.
Join(c) ==
  LET m == check[c].map
      ip == check[c].ip
  IN /\ check[c].pc = "join"
     /\ \/ HasIp(addrs[m], ip) /\ Return(c) /\ UNCHANGED <<addrs, now>>
        \/ /\ ~HasIp(addrs[m], ip)
           /\ addrs' = [addrs EXCEPT ![m] = @ \cup {DeviceOf(c)}]
           /\ Store(c)
           /\ check' = [check EXCEPT ![c].pc = "look", ![c].stranger = IsStranger(ip)]
     /\ UNCHANGED <<UserLimitInfo, UserOnlineIP, OldUserOnline,
                    report, update, before, raced>>

\* Mutation of Look: the limit is not looked at once a device is online.
LookFirst(c) ==
  LET reported == OldUserOnline[check[c].ip]
  IN /\ check[c].pc = "look"
     /\ \/ reported = check[c].user /\ check' = [check EXCEPT ![c].pc = "forget"]
        \/ reported \notin {None, check[c].user} /\ Return(c)
        \/ reported = None /\ (~check[c].full \/ check[c].map # None) /\ Return(c)
        \/ /\ reported = None /\ check[c].full /\ check[c].map = None
           /\ check' = [check EXCEPT ![c].pc = "undo"]
     /\ UNCHANGED <<maps, report, update, hist>>

\* A new address is let in if it was reported the last time, for whomever, or
\* if the panel counts fewer devices than the limit.
Look(c) ==
  LET reported == OldUserOnline[check[c].ip]
  IN /\ check[c].pc = "look"
     /\ \/ reported = check[c].user /\ check' = [check EXCEPT ![c].pc = "forget"]
        \/ reported \notin {None, check[c].user} /\ Return(c)
        \/ reported = None /\ ~check[c].full /\ Return(c)
        \/ /\ reported = None /\ check[c].full
           /\ check' = [check EXCEPT ![c].pc = "undo"]
     /\ UNCHANGED <<maps, report, update, hist>>

Forget(c) ==
  /\ check[c].pc = "forget"
  /\ OldUserOnline' = [OldUserOnline EXCEPT ![check[c].ip] = None]
  /\ Return(c)
  /\ UNCHANGED <<UserLimitInfo, UserOnlineIP, addrs, report, update, hist>>

\* A refused connection takes its address out of the map it joined, or the
\* user's map, whichever that is by now, out of UserOnlineIP.
Undo(c) ==
  /\ check[c].pc = "undo"
  /\ IF check[c].map = None
     THEN /\ UserOnlineIP' = [UserOnlineIP EXCEPT ![check[c].user] = None]
          /\ UNCHANGED addrs
     ELSE /\ addrs' = [addrs EXCEPT ![check[c].map] = @ \ (User \X {check[c].ip})]
          /\ UNCHANGED UserOnlineIP
  /\ Return(c)
  /\ UNCHANGED <<UserLimitInfo, OldUserOnline, report, update, hist>>

CheckLimit(c) ==
  \/ Register(c) \/ Join(c) \/ Look(c) \/ Forget(c) \/ Undo(c)

-----------------------------------------------------------------------------
(* GetOnlineDevice *)

\* Range visits what is there throughout; what comes while it runs it may miss.
BeginReport ==
  /\ report.pc = "idle"
  /\ OldUserOnline' = [ip \in Ip |-> None]
  /\ report' = [Resting EXCEPT !.pc = "users",
                   !.users = {u \in User : UserOnlineIP[u] # None}]
  /\ check' = [c \in Conn |-> [check[c] EXCEPT !.alone = FALSE]]
  /\ before' = now
  /\ now' = {}
  /\ UNCHANGED <<UserLimitInfo, UserOnlineIP, addrs, update, raced>>

VisitUser(u) ==
  /\ report.pc = "users"
  /\ u \notin report.seen
  /\ UserOnlineIP[u] # None
  /\ report' = [report EXCEPT !.pc = "ips", !.seen = @ \cup {u}, !.user = u,
                   !.map = UserOnlineIP[u], !.devices = addrs[UserOnlineIP[u]]]
  /\ UNCHANGED <<maps, check, update, hist>>

\* The device is appended to the report.
VisitIp(u, ip) ==
  /\ report.pc = "ips"
  /\ <<u, ip>> \in addrs[report.map] \ report.taken
  /\ OldUserOnline' = [OldUserOnline EXCEPT ![ip] = u]
  /\ report' = [report EXCEPT !.taken = @ \cup {<<u, ip>>}]
  /\ UNCHANGED <<UserLimitInfo, UserOnlineIP, addrs, check, update, hist>>

\* Mutation of LeaveUser: the user's devices stay online.
LeaveUserOnline ==
  /\ report.pc = "ips"
  /\ report.devices \cap addrs[report.map] \subseteq report.taken
  /\ report' = [report EXCEPT !.pc = "users", !.user = None, !.map = None,
                   !.devices = {}, !.taken = {}]
  /\ UNCHANGED <<maps, check, update, hist>>

\* The user's map is reset, whichever it is by now.
LeaveUser ==
  /\ report.pc = "ips"
  /\ report.devices \cap addrs[report.map] \subseteq report.taken
  /\ UserOnlineIP' = [UserOnlineIP EXCEPT ![report.user] = None]
  /\ report' = [report EXCEPT !.pc = "users", !.user = None, !.map = None,
                   !.devices = {}, !.taken = {}]
  /\ UNCHANGED <<UserLimitInfo, addrs, OldUserOnline, check, update, hist>>

EndReport ==
  /\ report.pc = "users"
  /\ \A u \in report.users : u \in report.seen \/ UserOnlineIP[u] = None
  /\ report' = Resting
  /\ UNCHANGED <<maps, check, update, hist>>

GetOnlineDevice ==
  \/ \E u \in User : VisitUser(u)
  \/ \E u \in User, ip \in Ip : VisitIp(u, ip)
  \/ LeaveUser
  \/ EndReport

-----------------------------------------------------------------------------
(* UpdateUser *)

Delete(u) ==
  /\ update.pc = "idle"
  /\ u \in UserLimitInfo \ Steady
  /\ UserLimitInfo' = UserLimitInfo \ {u}
  /\ update' = [pc |-> "online", user |-> u]
  /\ raced' = IF \E c \in Conn : check[c].user = u THEN raced \cup {u} ELSE raced
  /\ UNCHANGED <<UserOnlineIP, addrs, OldUserOnline, check, report, now, before>>

\* Mutation of DeleteOnline: only the user's limits are taken away.
DeleteNothing ==
  /\ update.pc = "online"
  /\ update' = [pc |-> "idle", user |-> None]
  /\ UNCHANGED <<maps, check, report, hist>>

DeleteOnline ==
  /\ update.pc = "online"
  /\ UserOnlineIP' = [UserOnlineIP EXCEPT ![update.user] = None]
  /\ update' = [pc |-> "idle", user |-> None]
  /\ UNCHANGED <<UserLimitInfo, addrs, OldUserOnline, check, report, hist>>

Add(u) ==
  /\ update.pc = "idle"
  /\ u \notin UserLimitInfo
  /\ UserLimitInfo' = UserLimitInfo \cup {u}
  /\ raced' = raced \ {u}
  /\ UNCHANGED <<UserOnlineIP, addrs, OldUserOnline, check, report, update, now, before>>

Next ==
  \/ \E c \in Conn : Begin(c) \/ CheckLimit(c)
  \/ BeginReport
  \/ GetOnlineDevice
  \/ \E u \in User : Delete(u) \/ Add(u)
  \/ DeleteOnline

Spec == Init /\ [][Next]_vars

-----------------------------------------------------------------------------
(* Properties *)

Admits(c) ==
  /\ check[c].pc \notin {"idle", "undo"}
  /\ check'[c].pc = "idle"

(***************************************************************************)
(* A user at its device limit gets no new device: unless a report overlaps *)
(* with its check, a connection is let in only from an address that was    *)
(* stored for some user since the report before the last one began.        *)
(***************************************************************************)
StrangerRefused ==
  \A c \in Conn :
    Admits(c) /\ check[c].full /\ check[c].alone =>
      /\ ~check[c].stranger
      /\ check[c].pc = "join" => ~IsStranger(check[c].ip)

StrangersRefused == [][StrangerRefused]_vars

(***************************************************************************)
(* A device is reported only if a connection of that user came from that   *)
(* address since the previous report began: no device is online for ever   *)
(* because of a map that somebody went on using after it was reset.        *)
(***************************************************************************)
FreshReport ==
  report.pc = "ips" => addrs[report.map] \subseteq now \cup before

(***************************************************************************)
(* Once UpdateUser has taken away a deleted user's tables, the user is not *)
(* online any more, unless a connection of the user was being checked.     *)
(***************************************************************************)
DeletedOffline ==
  \A u \in User \ UserLimitInfo :
    update.user # u /\ u \notin raced => UserOnlineIP[u] = None

=============================================================================
