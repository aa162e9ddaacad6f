------------------------------ MODULE UserLinks -------------------------------
(***************************************************************************)
(* One user of one node: its connections, the LinkManager and the traffic  *)
(* storage they share through the dispatcher's concurrent maps, the report *)
(* task that empties the storage, and DelUsers/AddUsers of the monitor.    *)
(*                                                                         *)
(* Each access to a sync.Map, each locked section of a LinkManager and each *)
(* atomic operation on a counter is a step.  A manager, a traffic counter  *)
(* and a storage entry are identified with the connection that made them.  *)
(* Upload and download go through one counter.                             *)
(***************************************************************************)
EXTENDS Naturals

CONSTANTS
  Conn,       \* connections of the user
  Stream,     \* those that xray hands to DispatchLink; others use Dispatch
  Reporter,   \* report tasks that may overlap, each one execution at a time
  None,       \* no object in a map
  MaxBytes,   \* bound on the traffic counted by one storage
  MaxDel      \* bound on deletions of the user

ASSUME StreamAssumption   == Stream \subseteq Conn
ASSUME NoneAssumption     == None \notin Conn
ASSUME BoundAssumption    == MaxBytes \in Nat /\ MaxDel \in Nat

VARIABLES
  pc,         \* where each connection is in getLink or DispatchLink
  manager,    \* the connection's ManagedWriter.manager
  storage,    \* the connection's TrafficStorage
  lm,         \* LinkManagers[user]
  tc,         \* Counter[tag], a TrafficCounter
  entry,      \* the user's storage in each TrafficCounter
  links,      \* LinkManager.links, without the readers
  closing,    \* the manager whose mu CloseAll holds for good
  bytes,      \* the count of each storage
  rpc,        \* where each reporter is, and what it has read from where
  dpc,        \* where DelUsers is: it holds users.mapLock unless "idle"
  account,    \* the inbound has the user
  uid,        \* uidMap has the user
  deletions,  \* deletions so far
  carried,    \* history: the traffic counted by each storage
  reported    \* history: the traffic of each storage a reporter has billed

maps == <<lm, tc, entry>>
user == <<dpc, account, uid, deletions>>
vars == <<pc, manager, storage, maps, links, closing, bytes, rpc, user, carried,
          reported>>

Idle == [at |-> "idle", from |-> None, of |-> None, read |-> 0]

TypeOK ==
  /\ pc \in [Conn -> {"new", "manager", "newManager", "counter", "newCounter",
                      "storage", "link", "open", "closed"}]
  /\ manager \in [Conn -> Conn \cup {None}]
  /\ storage \in [Conn -> Conn \cup {None}]
  /\ lm \in Conn \cup {None}
  /\ tc \in Conn \cup {None}
  /\ entry \in [Conn -> Conn \cup {None}]
  /\ links \in [Conn -> SUBSET Conn]
  /\ closing \in Conn \cup {None}
  /\ bytes \in [Conn -> 0..MaxBytes]
  /\ rpc \in [Reporter -> [at : {"idle", "read", "zeroed"},
                           from : Conn \cup {None}, of : Conn \cup {None},
                           read : 0..MaxBytes]]
  /\ dpc \in {"idle", "uid", "counter", "links", "closing", "unmap"}
  /\ account \in BOOLEAN
  /\ uid \in BOOLEAN
  /\ carried \in [Conn -> 0..MaxBytes]
  /\ reported \in [Reporter -> [Conn -> Nat]]
  /\ deletions \in 0..MaxDel

Init ==
  /\ pc = [c \in Conn |-> "new"]
  /\ manager = [c \in Conn |-> None]
  /\ storage = [c \in Conn |-> None]
  /\ lm = None
  /\ tc = None
  /\ entry = [c \in Conn |-> None]
  /\ links = [c \in Conn |-> {}]
  /\ closing = None
  /\ bytes = [c \in Conn |-> 0]
  /\ rpc = [r \in Reporter |-> Idle]
  /\ dpc = "idle"
  /\ account = TRUE
  /\ uid = TRUE
  /\ carried = [c \in Conn |-> 0]
  /\ reported = [r \in Reporter |-> [c \in Conn |-> 0]]
  /\ deletions = 0

-----------------------------------------------------------------------------
(* Connections: getLink and DispatchLink *)

Goto(c, s) == pc' = [pc EXCEPT ![c] = s]

\* The inbound authenticates the user and CheckLimit admits it.
Admit(c) ==
  /\ pc[c] = "new"
  /\ account
  /\ Goto(c, "manager")
  /\ UNCHANGED <<manager, storage, maps, links, closing, bytes, rpc, user,
                 carried, reported>>

\* getLink adds its link before it looks for a counter, DispatchLink after.
Managed(c)  == Goto(c, IF c \in Stream THEN "counter" ELSE "link")
Linked(c)   == Goto(c, IF c \in Stream THEN "open" ELSE "counter")
Counted(c)  == Goto(c, IF c \in Stream THEN "link" ELSE "open")

LoadManager(c) ==
  /\ pc[c] = "manager"
  /\ manager' = [manager EXCEPT ![c] = lm]
  /\ IF lm = None THEN Goto(c, "newManager") ELSE Managed(c)
  /\ UNCHANGED <<storage, maps, links, closing, bytes, rpc, user, carried,
                 reported>>

\* d.LinkManagers.Store: another connection may have stored one meanwhile.
StoreManager(c) ==
  /\ pc[c] = "newManager"
  /\ lm' = c
  /\ manager' = [manager EXCEPT ![c] = c]
  /\ Managed(c)
  /\ UNCHANGED <<storage, tc, entry, links, closing, bytes, rpc, user, carried,
                 reported>>

AddLink(c) ==
  /\ pc[c] = "link"
  /\ closing # manager[c]
  /\ links' = [links EXCEPT ![manager[c]] = @ \cup {c}]
  /\ Linked(c)
  /\ UNCHANGED <<manager, storage, maps, closing, bytes, rpc, user, carried,
                 reported>>

\* The connection keeps the TrafficCounter it found in "storage" until
\* GetCounter replaces it by the user's entry there.
LoadCounter(c) ==
  /\ pc[c] = "counter"
  /\ storage' = [storage EXCEPT ![c] = tc]
  /\ Goto(c, IF tc = None THEN "newCounter" ELSE "storage")
  /\ UNCHANGED <<manager, maps, links, closing, bytes, rpc, user, carried,
                 reported>>

StoreCounter(c) ==
  /\ pc[c] = "newCounter"
  /\ tc' = c
  /\ storage' = [storage EXCEPT ![c] = c]
  /\ Goto(c, "storage")
  /\ UNCHANGED <<manager, lm, entry, links, closing, bytes, rpc, user, carried,
                 reported>>

\* TrafficCounter.GetCounter: LoadOrStore, one step.
GetCounter(c) ==
  /\ pc[c] = "storage"
  /\ LET t == storage[c]
         e == IF entry[t] = None THEN c ELSE entry[t]
     IN /\ entry' = [entry EXCEPT ![t] = e]
        /\ storage' = [storage EXCEPT ![c] = e]
  /\ Counted(c)
  /\ UNCHANGED <<manager, lm, tc, links, closing, bytes, rpc, user, carried,
                 reported>>

\* Mutation of Carry: two wrappers count the same bytes.
CarryTwice(c) ==
  /\ pc[c] = "open"
  /\ carried[storage[c]] < MaxBytes
  /\ carried' = [carried EXCEPT ![storage[c]] = @ + 1]
  /\ bytes' = [bytes EXCEPT ![storage[c]] = @ + 2]
  /\ UNCHANGED <<pc, manager, storage, maps, links, closing, rpc, user, reported>>

\* SizeStatWriter and CounterReader count what passes.
Carry(c) ==
  /\ pc[c] = "open"
  /\ carried[storage[c]] < MaxBytes
  /\ carried' = [carried EXCEPT ![storage[c]] = @ + 1]
  /\ bytes' = [bytes EXCEPT ![storage[c]] = @ + 1]
  /\ UNCHANGED <<pc, manager, storage, maps, links, closing, rpc, user, reported>>

\* Mutation of CloseLink: the writer is looked up in the mapped manager.
CloseMappedLink(c) ==
  /\ pc[c] = "open"
  /\ closing # manager[c]
  /\ links' = [m \in Conn |-> IF m = lm THEN links[m] \ {c} ELSE links[m]]
  /\ Goto(c, "closed")
  /\ UNCHANGED <<manager, storage, maps, closing, bytes, rpc, user, carried,
                 reported>>

\* ManagedWriter.Close: RemoveWriter under the manager's lock.
CloseLink(c) ==
  /\ pc[c] = "open"
  /\ closing # manager[c]
  /\ links' = [links EXCEPT ![manager[c]] = @ \ {c}]
  /\ Goto(c, "closed")
  /\ UNCHANGED <<manager, storage, maps, closing, bytes, rpc, user, carried,
                 reported>>

-----------------------------------------------------------------------------
(* GetUserTrafficSlice, under mapLock.RLock *)

ReadTraffic(r) ==
  /\ rpc[r].at = "idle"
  /\ dpc = "idle"
  /\ tc # None
  /\ entry[tc] # None
  /\ bytes[entry[tc]] > 0
  /\ rpc' = [rpc EXCEPT ![r] = [at |-> "read", from |-> tc, of |-> entry[tc],
                                read |-> bytes[entry[tc]]]]
  /\ UNCHANGED <<pc, manager, storage, maps, links, closing, bytes, user, carried,
                 reported>>

\* Mutation of StoreZero: the counters are read and not reset.
KeepCount(r) ==
  /\ rpc[r].at = "read"
  /\ rpc' = [rpc EXCEPT ![r].at = "zeroed"]
  /\ UNCHANGED <<pc, manager, storage, maps, links, closing, bytes, user, carried,
                 reported>>

StoreZero(r) ==
  /\ rpc[r].at = "read"
  /\ bytes' = [bytes EXCEPT ![rpc[r].of] = 0]
  /\ rpc' = [rpc EXCEPT ![r].at = "zeroed"]
  /\ UNCHANGED <<pc, manager, storage, maps, links, closing, user, carried,
                 reported>>

\* A user without a uid loses its storage, and the traffic read of it.
Bill(r) ==
  /\ rpc[r].at = "zeroed"
  /\ IF uid
     THEN /\ reported' = [reported EXCEPT ![r][rpc[r].of] = @ + rpc[r].read]
          /\ UNCHANGED entry
     ELSE /\ entry' = [entry EXCEPT ![rpc[r].from] = None]
          /\ UNCHANGED reported
  /\ rpc' = [rpc EXCEPT ![r] = Idle]
  /\ UNCHANGED <<pc, manager, storage, lm, tc, links, closing, bytes, user,
                 carried>>

-----------------------------------------------------------------------------
(* DelUsers and AddUsers, under mapLock.Lock *)

connVars == <<pc, manager, storage, bytes, rpc, carried, reported>>

RemoveUser ==
  /\ dpc = "idle"
  /\ account
  /\ deletions < MaxDel
  /\ \A r \in Reporter : rpc[r].at = "idle"
  /\ account' = FALSE
  /\ deletions' = deletions + 1
  /\ dpc' = "uid"
  /\ UNCHANGED <<connVars, maps, links, closing, uid>>

DeleteUid ==
  /\ dpc = "uid"
  /\ uid' = FALSE
  /\ dpc' = "counter"
  /\ UNCHANGED <<connVars, maps, links, closing, account, deletions>>

DeleteStorage ==
  /\ dpc = "counter"
  /\ entry' = IF tc = None THEN entry ELSE [entry EXCEPT ![tc] = None]
  /\ dpc' = "links"
  /\ UNCHANGED <<connVars, lm, tc, links, closing, account, uid, deletions>>

\* CloseAll takes the manager's lock; the first writer it closes asks for the
\* same lock in RemoveWriter, so with a link in the manager nothing follows.
CloseAll ==
  /\ dpc = "links"
  /\ \/ /\ lm = None
        /\ dpc' = "idle"
        /\ UNCHANGED closing
     \/ /\ lm # None
        /\ links[lm] = {}
        /\ dpc' = "unmap"
        /\ UNCHANGED closing
     \/ /\ lm # None
        /\ links[lm] # {}
        /\ dpc' = "closing"
        /\ closing' = lm
  /\ UNCHANGED <<connVars, maps, links, account, uid, deletions>>

\* d.LinkManagers.Delete: whichever manager is mapped by now.
DeleteManager ==
  /\ dpc = "unmap"
  /\ lm' = None
  /\ dpc' = "idle"
  /\ UNCHANGED <<connVars, tc, entry, links, closing, account, uid, deletions>>

AddUser ==
  /\ dpc = "idle"
  /\ ~account
  /\ \A r \in Reporter : rpc[r].at = "idle"
  /\ account' = TRUE
  /\ uid' = TRUE
  /\ UNCHANGED <<connVars, maps, links, closing, dpc, deletions>>

-----------------------------------------------------------------------------

Connection(c) ==
  \/ Admit(c) \/ LoadManager(c) \/ StoreManager(c) \/ AddLink(c)
  \/ LoadCounter(c) \/ StoreCounter(c) \/ GetCounter(c)
  \/ Carry(c) \/ CloseLink(c)

Report(r) == ReadTraffic(r) \/ StoreZero(r) \/ Bill(r)

DelUsers == DeleteUid \/ DeleteStorage \/ CloseAll \/ DeleteManager

Next ==
  \/ \E c \in Conn : Connection(c)
  \/ \E r \in Reporter : Report(r)
  \/ RemoveUser \/ DelUsers \/ AddUser

Spec == Init /\ [][Next]_vars

\* Goroutines run; nobody has to connect, to hang up or to edit the user list.
FairSpec == Spec /\ WF_vars(DelUsers) /\ \A r \in Reporter : WF_vars(Report(r))

-----------------------------------------------------------------------------
(* Properties *)

(***************************************************************************)
(* No execution of GetUserTrafficSlice bills a byte that it or one before  *)
(* it has billed, although counters are read and zeroed in two operations  *)
(* while connections add to them, users are deleted and added back, racing *)
(* connections each store a TrafficCounter, and another execution, which   *)
(* shares mapLock, reads and zeroes the same counters.  So the panel hears *)
(* of a byte at most once from each task that runs at one time.  (It may   *)
(* hear of less: what is added between the two operations is lost.)        *)
(***************************************************************************)
NeverOverbilled ==
  \A r \in Reporter, s \in Conn : reported[r][s] <= carried[s]

(***************************************************************************)
(* A connection that has closed is in no LinkManager, mapped or orphaned:  *)
(* a user who comes and goes does not pile up writers.                     *)
(***************************************************************************)
NoLeakedWriter ==
  \A c \in Conn : pc[c] = "closed" => \A m \in Conn : c \notin links[m]

(***************************************************************************)
(* A deletion of users returns, so that "update Limiter" (task.go:141),    *)
(* which the monitor runs after it for the deleted users, is reached.      *)
(***************************************************************************)
DeletionReturns == dpc # "idle" ~> dpc = "idle"

=============================================================================
