------------------------------- MODULE UserSync -------------------------------
(***************************************************************************)
(* The user list of one node controller: Controller.Start and the periodic *)
(* nodeInfoMonitor bring four tables in line with the list of the panel:   *)
(* the controller's userList, the core's uidMap (who is billed), the       *)
(* inbound's accounts (who may connect) and the limiter's UserLimitInfo    *)
(* (whom CheckLimit admits, and at which limits).                          *)
(*                                                                         *)
(* A list is a function from users to their limits, None for a user who is *)
(* not in it.  The entity tag of a reply stands for the reply's content:   *)
(* the panel answers 304 exactly when its list is the acknowledged one.    *)
(* One execution of the monitor runs at a time here, and one that deletes  *)
(* a user with an open connection may never return: only its deadline, and *)
(* the reload that follows, gets the node out of that.  Reload has what    *)
(* runs between a deadline and its reload, which throws that work away.    *)
(***************************************************************************)
EXTENDS Naturals

CONSTANTS
  User,       \* uuids
  Limit,      \* the speed and device limits of a user
  None,       \* not in the list
  PanelList,  \* the lists the panel may serve
  Refused,    \* users that do not become xray accounts (malformed uuid)
  NoTag,      \* the entity tag of a new client
  MaxFault    \* bound on failed calls and reloads

List  == [User -> Limit \cup {None}]
Empty == [u \in User |-> None]

ASSUME NoneAssumption  == None \notin Limit
ASSUME ListAssumption  == PanelList \subseteq List
ASSUME TagAssumption   == NoTag \notin List
ASSUME FaultAssumption == MaxFault \in Nat

VARIABLES
  panel,      \* the list the panel serves
  step,       \* where Start or nodeInfoMonitor is
  etag,       \* Client.userEtag: the list last acknowledged to the panel
  userList,   \* Controller.userList
  newU,       \* the list fetched by the execution under way
  del, add,   \* what DelUsers and AddUsers have yet to do
  uidMap,     \* users with an entry in V2Core.users.uidMap
  accounts,   \* users of the inbound (xray's user manager)
  limits,     \* Limiter.UserLimitInfo
  failed,     \* history: DelUsers or AddUsers has failed in this generation
  lost,       \* history: the last list fetched was dropped unapplied
  faults      \* faults so far

tables == <<userList, uidMap, accounts, limits>>
vars   == <<panel, step, etag, userList, newU, del, add, uidMap, accounts,
            limits, failed, lost, faults>>

Members(l) == {u \in User : l[u] # None}

TypeOK ==
  /\ panel \in PanelList
  /\ step \in {"down", "boot", "idle", "alive", "delete", "stuck", "add",
              "update"}
  /\ etag \in List \cup {NoTag}
  /\ userList \in List
  /\ newU \in List
  /\ del \subseteq User
  /\ add \subseteq User
  /\ uidMap \subseteq User
  /\ accounts \subseteq User
  /\ limits \in List
  /\ failed \in BOOLEAN
  /\ lost \in BOOLEAN
  /\ faults \in 0..MaxFault

-----------------------------------------------------------------------------
(* compareUserList and Limiter.UpdateUser *)

\* Mutation of Deleted: users are compared with their limits.
DeletedOrModified(old, new) ==
  {u \in Members(old) : old[u] # new[u]}

Deleted(old, new)  == Members(old) \ Members(new)
Added(old, new)    == Members(new) \ Members(old)
Modified(old, new) ==
  {u \in Members(old) \cap Members(new) : old[u] # new[u]}

\* Mutation of UpdateUser: modified users are forgotten.
UpdateMembers(l, old, new) ==
  [u \in User |->
     IF u \in Deleted(old, new) THEN None
     ELSE IF u \in Added(old, new) THEN new[u]
     ELSE l[u]]

\* A modified user without an entry gets none.
UpdateUser(l, old, new) ==
  [u \in User |->
     IF u \in Deleted(old, new) THEN None
     ELSE IF u \in Added(old, new) THEN new[u]
     ELSE IF u \in Modified(old, new) /\ l[u] # None THEN new[u]
     ELSE l[u]]

-----------------------------------------------------------------------------

\* Nothing runs: no process, or a closed generation.
Blank(s, e, ul, nu, d, a, um, ac, li, f, lo) ==
  /\ s = "down"
  /\ e = NoTag
  /\ ul = Empty
  /\ nu = Empty
  /\ d = {}
  /\ a = {}
  /\ um = {}
  /\ ac = {}
  /\ li = Empty
  /\ f = FALSE
  /\ lo = FALSE

Init ==
  /\ panel \in PanelList
  /\ Blank(step, etag, userList, newU, del, add, uidMap, accounts, limits,
           failed, lost)
  /\ faults = 0

Drop ==
  /\ Blank(step', etag', userList', newU', del', add', uidMap', accounts',
           limits', failed', lost')
  /\ UNCHANGED panel

Fault == faults < MaxFault /\ faults' = faults + 1

\* The monitor returns until its next tick.
Return ==
  /\ step' = "idle"
  /\ newU' = Empty
  /\ del' = {}
  /\ add' = {}

\* Controller.Start with a new client, a new core and a new limiter, up to the
\* loop of AddUsers.  It refuses to start without users.
Start ==
  /\ step = "down"
  /\ panel # Empty
  /\ etag' = panel
  /\ userList' = panel
  /\ limits' = panel
  /\ uidMap' = Members(panel)
  /\ add' = Members(panel)
  /\ step' = "boot"
  /\ UNCHANGED <<panel, newU, del, accounts, failed, lost, faults>>

\* Mutation of GetUserList: a 304 is not told from a list.
GetUserListNil ==
  /\ step = "idle"
  /\ etag' = panel
  /\ newU' = IF etag = panel THEN None ELSE panel
  /\ step' = "alive"
  /\ UNCHANGED <<panel, tables, del, add, failed, lost, faults>>

\* GetUserList: 304 and an empty list both come back as an empty slice.
GetUserList ==
  /\ step = "idle"
  /\ etag' = panel
  /\ newU' = IF etag = panel THEN Empty ELSE panel
  /\ step' = "alive"
  /\ UNCHANGED <<panel, tables, del, add, failed, lost, faults>>

\* GetUserAlive succeeds: an empty list means "nothing has changed", any other
\* is compared with userList.
GetUserAlive ==
  /\ step = "alive"
  /\ IF newU = Empty
     THEN Return
     ELSE /\ del' = Deleted(userList, newU)
          /\ add' = Added(userList, newU)
          /\ step' = "delete"
          /\ UNCHANGED newU
  /\ UNCHANGED <<panel, etag, tables, failed, lost, faults>>

\* GetUserAlive runs into a deadline, its context's or the HTTP client's: the
\* monitor returns with the list it has fetched, and acknowledged, unused.
AliveTimeout ==
  /\ step = "alive"
  /\ Fault
  /\ Return
  /\ lost' = (lost \/ newU # Empty)
  /\ UNCHANGED <<panel, etag, tables, failed>>

\* Mutation of DelUser: the uid stays behind.
DelUserKeepsUid(u) ==
  /\ step = "delete"
  /\ u \in del
  /\ u \in accounts
  /\ accounts' = accounts \ {u}
  /\ del' = del \ {u}
  /\ UNCHANGED <<panel, step, etag, userList, newU, add, uidMap, limits, failed,
                 lost, faults>>

\* The loop of DelUsers: the account goes, then its uid.
DelUser(u) ==
  /\ step = "delete"
  /\ u \in del
  /\ u \in accounts
  /\ accounts' = accounts \ {u}
  /\ uidMap' = uidMap \ {u}
  /\ del' = del \ {u}
  /\ UNCHANGED <<panel, step, etag, userList, newU, add, limits, failed, lost, faults>>

\* ... unless the user has an open link: CloseAll, which comes after both, waits
\* for the mutex it holds (UserLinks shows how), and DelUsers does not return.
DelUserHangs(u) ==
  /\ step = "delete"
  /\ u \in del
  /\ u \in accounts
  /\ accounts' = accounts \ {u}
  /\ uidMap' = uidMap \ {u}
  /\ del' = del \ {u}
  /\ step' = "stuck"
  /\ UNCHANGED <<panel, etag, userList, newU, add, limits, failed, lost, faults>>

\* Mutation of Deadline: the loop of the task goes on without a reload.
DeadlineWithoutReload ==
  /\ step = "stuck"
  /\ Return
  /\ UNCHANGED <<panel, etag, tables, failed, lost, faults>>

\* The deadline of that execution passes: ExecuteWithTimeout requests a reload,
\* which drops the generation with whoever waits in it.
Deadline ==
  /\ step = "stuck"
  /\ Drop
  /\ UNCHANGED faults

\* RemoveUser of a user the inbound does not have, or its inbound cannot be
\* found: the monitor gives up, userList stays.
DelUsersFails ==
  /\ step = "delete"
  /\ \/ \E u \in del : u \notin accounts /\ UNCHANGED faults
     \/ del # {} /\ Fault
  /\ Return
  /\ failed' = TRUE
  /\ UNCHANGED <<panel, etag, tables, lost>>

\* Mutation of DelUsersReturns: AddUsers adds the accounts before their uids.
AddUsersWithoutUid ==
  /\ step = "delete"
  /\ del = {}
  /\ step' = "add"
  /\ UNCHANGED <<panel, etag, userList, newU, del, add, uidMap, accounts, limits,
                 failed, lost, faults>>

\* AddUsers starts by giving every added user its uid.
DelUsersReturns ==
  /\ step = "delete"
  /\ del = {}
  /\ uidMap' = uidMap \cup add
  /\ step' = "add"
  /\ UNCHANGED <<panel, etag, userList, newU, del, add, accounts, limits,
                 failed, lost, faults>>

\* The loop of AddUsers, on behalf of Start or of the monitor.
AddUser(u) ==
  /\ step \in {"boot", "add"}
  /\ u \in add
  /\ u \notin accounts \cup Refused
  /\ accounts' = accounts \cup {u}
  /\ add' = add \ {u}
  /\ UNCHANGED <<panel, step, etag, userList, newU, del, uidMap, limits, failed,
                 lost, faults>>

\* xray refuses an account it has already, and one that cannot be built.  The
\* monitor gives up; Start fails, and with it the process.
AddUsersFails ==
  /\ step \in {"boot", "add"}
  /\ \/ add \cap (accounts \cup Refused) # {} /\ UNCHANGED faults
     \/ add # {} /\ Fault
  /\ \/ /\ step = "boot"
        /\ Drop
     \/ /\ step = "add"
        /\ Return
        /\ failed' = TRUE
        /\ UNCHANGED <<panel, etag, tables, lost>>

\* Mutation of AddUsersReturns: the loop leaves after any user.
AddUsersReturnsEarly ==
  /\ step \in {"boot", "add"}
  /\ step' = IF step = "boot" THEN "idle" ELSE "update"
  /\ add' = {}
  /\ UNCHANGED <<panel, etag, tables, newU, del, failed, lost, faults>>

AddUsersReturns ==
  /\ step \in {"boot", "add"}
  /\ add = {}
  /\ step' = IF step = "boot" THEN "idle" ELSE "update"
  /\ UNCHANGED <<panel, etag, tables, newU, del, add, failed, lost, faults>>

\* Mutation of UpdateLimiter: the controller keeps its old list.
UpdateLimiterOnly ==
  /\ step = "update"
  /\ limits' = UpdateUser(limits, userList, newU)
  /\ Return
  /\ UNCHANGED <<panel, etag, userList, uidMap, accounts, failed, lost, faults>>

\* Limiter.UpdateUser, then userList = newU.
UpdateLimiter ==
  /\ step = "update"
  /\ limits' = UpdateUser(limits, userList, newU)
  /\ userList' = newU
  /\ Return
  /\ lost' = FALSE
  /\ UNCHANGED <<panel, etag, uidMap, accounts, failed, faults>>

\* A reload (new node information, an expired deadline, an edited file) or the
\* end of the process, at any point.
Reload ==
  /\ step # "down"
  /\ Fault
  /\ Drop

\* The operator edits the users on the panel.
EditPanel ==
  /\ panel' \in PanelList \ {panel}
  /\ UNCHANGED <<step, etag, newU, del, add, tables, failed, lost, faults>>

Monitor ==
  \/ GetUserList \/ GetUserAlive
  \/ \E u \in User : DelUser(u) \/ DelUserHangs(u) \/ AddUser(u)
  \/ DelUsersFails \/ DelUsersReturns
  \/ AddUsersFails \/ AddUsersReturns
  \/ UpdateLimiter

Next == Start \/ Monitor \/ Deadline \/ AliveTimeout \/ Reload \/ EditPanel

Spec == Init /\ [][Next]_vars

\* The task's timer keeps ticking, an execution goes on until it returns or gets
\* stuck, and then its deadline passes.  A controller that failed to start is
\* started again with the process (systemd's Restart=always); the operator need
\* not act.  Nothing says that a deletion returns.
FairSpec == Spec /\ WF_vars(Start) /\ WF_vars(Monitor) /\ WF_vars(Deadline)

-----------------------------------------------------------------------------
(* Properties *)

(***************************************************************************)
(* Nobody connects unbilled: in every intermediate state of a boot, of a   *)
(* sync and of a sync that failed half-way, an account of the inbound has  *)
(* its uid in uidMap.  GetUserTrafficSlice throws away the traffic of a    *)
(* user without one.                                                       *)
(***************************************************************************)
BillableBeforeServed == accounts \subseteq uidMap

(***************************************************************************)
(* The limiter always enforces exactly the controller's list, although     *)
(* UpdateUser patches it entry by entry from a difference and several      *)
(* returns of the monitor leave both alone.                                *)
(***************************************************************************)
LimiterTracksList == limits = userList

(***************************************************************************)
(* As long as no sync of this generation has failed, a finished one leaves *)
(* the accounts and the uids in agreement with the controller's list.      *)
(***************************************************************************)
CleanSync ==
  step = "idle" /\ ~failed =>
    accounts = Members(userList) /\ uidMap = Members(userList)

(***************************************************************************)
(* Failures are never of the monitor's own making: until a call fails for  *)
(* another reason, RemoveUser finds every user it is asked to remove and   *)
(* AddUser none of those it is asked to add.                               *)
(***************************************************************************)
DiffApplies ==
  ~failed =>
    /\ step = "delete" => del \subseteq accounts
    /\ step \in {"boot", "add"} => add \cap accounts = {}

(***************************************************************************)
(* A sync never disconnects a user it keeps: within a generation an        *)
(* account, and its entry in the limiter, only go when the list being      *)
(* applied does not have that user.                                        *)
(***************************************************************************)
KeptStays ==
  \A u \in User :
    u \in accounts \ accounts' \/ (limits[u] # None /\ limits'[u] = None)
      => newU[u] = None \/ step' = "down"

KeptUsersStay == [][KeptStays]_vars

(***************************************************************************)
(* The panel answers 304 once a list is acknowledged, so a list that is    *)
(* not applied by then never will be.  As long as no call of this          *)
(* generation has failed and no fetched list was dropped, the acknowledged *)
(* list is the one served or the one being applied; only an empty one is   *)
(* passed over.                                                            *)
(***************************************************************************)
AcknowledgedIsServed ==
  ~failed /\ ~lost /\ etag \notin {NoTag, Empty} => etag \in {userList, newU}

(***************************************************************************)
(* Once the panel settles on a list of users whom xray accepts, all four   *)
(* tables end up in agreement with it and stay so, also when a deletion    *)
(* never returns and when calls fail, as soon as a reload or a later sync  *)
(* has made good for the latter: in the end no sync of the generation has  *)
(* failed and no fetched list was dropped.                                 *)
(***************************************************************************)
InForce ==
  /\ step # "boot"
  /\ userList = panel
  /\ limits = panel
  /\ accounts = Members(panel)
  /\ uidMap = Members(panel)

ListTakesEffect ==
  <>[][panel' = panel]_panel /\ <>[](~failed /\ ~lost) =>
    <>[](panel = Empty \/ Members(panel) \cap Refused # {} \/ InForce)

(***************************************************************************)
(* "The user list has not changed", logs nodeInfoMonitor (task.go:110)     *)
(* when it has fetched an empty slice: then the list it acknowledged to    *)
(* the panel is the one it serves.                                         *)
(***************************************************************************)
UnchangedIsUnchanged == step = "alive" /\ newU = Empty => etag = userList

(***************************************************************************)
(* The tables, tags and loops implement the promise of UserService: during *)
(* Start the node aims at its first list, during a sync at the list it has *)
(* fetched, and the users served are the accounts of the inbound.          *)
(***************************************************************************)
Service == INSTANCE UserService WITH
  list   <- IF step = "boot" THEN Empty ELSE userList,
  target <- IF step = "boot" \/ newU = Empty THEN userList ELSE newU,
  served <- accounts,
  clean  <- ~failed

ImplementsService == Service!Spec

(***************************************************************************)
(* In particular a client that the old and the new list both name is       *)
(* served throughout, and one that neither names at no time.               *)
(***************************************************************************)
ServedBetween == Service!ServedBetween

=============================================================================
