# A TLA+ model of v2node

v2node is the agent of a V2board panel on a proxy server.  It reads a list of
nodes from a configuration file, fetches each node's parameters and users from
the panel, runs one xray core with one inbound per node, enforces limits, counts
traffic and reports it.  There are no tests in the repository; this directory
models the parts whose correctness depends on the order of events, and the
translation of a node's configuration, checks them with TLC and proves the most
important properties with TLAPS.

## Inventory

| Part | Source | State | Operations | What makes it correct |
|---|---|---|---|---|
| Server | `cmd/server.go` | current `nodes`, `v2core`, `reloadCh` (capacity 1) | boot, select loop, `reload` | ends up running what the panel and the file say; closing never fails; one generation at a time owns ports and limiters |
| Node, Controller | `node/node.go`, `node/controller.go` | `info`, `userList`, `limiter`, three tasks | `New`, `Start`, `Close` | what `Start` registers, `Close` takes away |
| Task bodies | `node/task.go`, `node/user.go` | – | `nodeInfoMonitor`, `reportUserTrafficTask`, `compareUserList` | the user tables follow the panel's list; a new configuration leads to a reload |
| Task | `common/task/task.go` | `Running`, `Stop` | `Start`, `ExecuteWithTimeout`, `Close` | a closed loop ends; an expired deadline leads to a reload |
| Panel client | `api/v2board/*.go` | `responseBodyHash`, `nodeEtag`, `userEtag`, `AliveMap` | `GetNodeInfo`, `GetUserList`, `GetUserAlive`, `Report…` | "not modified" is said only of something that was used |
| Core | `core/core.go`, `core/node.go`, `core/inbound.go` | `Server`, `ihm`, `ohm`, `dispatcher` | `Start`, `Close`, `AddNode`, `DelNode` | not used once closed |
| User tables | `core/user.go` | `users.uidMap` under `mapLock`, xray's accounts | `AddUsers`, `DelUsers`, `GetUserTrafficSlice` | who can connect is billed, under the right id, once |
| Limiter | `limiter/*.go` | global `limiter[tag]`; `UserLimitInfo`, `UserOnlineIP`, `OldUserOnline`, `AliveList`, `SpeedLimiter` | `AddLimiter`, `UpdateUser`, `CheckLimit`, `GetOnlineDevice` | limits of the current list; no more devices than allowed |
| Dispatcher: links | `core/app/dispatcher/default.go`, `linkmanager.go`, `countreader.go`, `common/counter` | `LinkManagers`, `Counter` (concurrent maps) | `getLink`, `Dispatch`, `DispatchLink`, `CloseAll` | a deleted user is disconnected; bytes are counted once |
| Dispatcher: sniffing | `core/app/dispatcher/default.go`, `sniffer.go` | per connection: `cachedReader.cache`, the sniffers left, the deadline | `Cache`, `Read`, `sniffer`, `Sniff`, `routedDispatch` | nothing the client wrote is lost; content decides the route; no client waits forever |
| Configuration | `conf/conf.go`, `conf/watch.go` | the shared `Conf`; the watcher's `pre` | `LoadFromPath`, `Watch` | an edit takes effect |
| Routes and outbounds | `core/custom.go`, `core/outbound.go` | none (pure) | `GetCustomConfig` | every route gets the outbound it names |
| Inbounds and accounts | `core/inbound.go`, `core/user.go`, `core/node.go` | none (pure) | `buildInbound`, one builder per protocol, `buildVlessUser` and its like | the inbound is the one the panel asks for and understands its accounts |
| Certificates | `node/cert.go`, `node/lego.go` | files, ACME account | request, renew, self-sign | the core finds a pair that belongs together |

**How they interact.** The main goroutine boots and reloads; it alone creates
and closes *generations* (a `V2Core`, a `Node`, its controllers, clients and
tasks).  Each task is a loop goroutine that starts an execution goroutine for
every tick and waits for it or for a deadline.  Executions call the panel, patch
the core's and limiter's tables and send to `reloadCh` without blocking; the
file watcher sends to the same channel.  The connections of xray run through
the dispatcher, which reads the limiter and shares link managers and traffic
counters with the executions.  Only `reloadCh`, the global map of limiters and
the watcher survive from one generation to the next.

**What is hard.** Executions that outlive their deadline or their generation;
requests dropped at a full channel; hashes and entity tags remembered before
what they stand for is used; syncs that fail half-way; maps that are each
safe to share but read and written in two steps; locks taken twice; the debounce
of the watcher; two files that belong together and are written one after the
other; protocols that show in pieces while a deadline runs.  `PROJECT.json`
lists each at its line with the properties aimed at it.

## Modules

| Module | Models | Checked by | Proved in |
|---|---|---|---|
| `Reload` | main goroutine, controllers, task loops and executions over generations | itself | `ReloadProofs` |
| `Handover` | what a process promises about its ports: the abstract specification of `Reload` | through `Reload` | `ReloadProofs` |
| `UserService` | what a node promises about its users: the abstract specification of `UserSync` | through `UserSync` | `UserSyncProofs` |
| `UserSync` | the user list of one controller: `Start`, the monitor, four tables | `MCUserSync` | `UserSyncProofs` |
| `UserLinks` | connections, link managers, counters, report and deletion of one user | itself | `UserLinksProofs` |
| `Admission` | `CheckLimit`, `GetOnlineDevice` and `UpdateUser` of one limiter | `MCAdmission` | `AdmissionProofs` |
| `ConfigWatch` | editor, watcher, debounce, main | itself | `ConfigWatchProofs` |
| `Inbound` | the panel's reply, the inbound builders and the accounts, as operators | through `NodeSetup` | through `NodeSetupProofs` |
| `NodeSetup` | `Controller.Start` with its certificate, and the renewal task | `MCNodeSetup` | `NodeSetupProofs` |
| `Routing` | the translation of routes into rules and outbounds | through `Dispatching` | `RoutingProofs` |
| `Sniffing` | one connection from its reader through the sniffers to the outbound | through `Dispatching` | `DispatchingProofs` |
| `Pipe` | a connection that is not sniffed: the abstract specification of `Sniffing` | through `Dispatching` | `DispatchingProofs` |
| `Dispatching` | the composition of `Routing` and `Sniffing` in `routedDispatch` | `MCDispatching` | `DispatchingProofs` |

Every mutation used to test a property (`PROJECT.json`, "mutants") is a
definition headed "Mutation of …" just before the definition it mutates.

### Reload

State and code: `pc`, `todo` are the position of the main goroutine in
`serverHandle` and `reload` and the nodes its current loop has yet to visit;
`core[g]` is `V2Core.Start`/`Close` of a generation, `info` is
`Controller.info`, `seen` the client's `responseBodyHash`, `stop` a closed
`Task.Stop`, `at` the program counter of an execution (`"own"`: its loop waits
for it; `"late"`: its deadline has passed), `queued` the content of `reloadCh`,
`handlers` and `limiters` what `Controller.Start` registers, `node` the
controller main is starting or closing.  Main takes one step for every write to
what other goroutines read: `Load`, `FetchInfo`, `StartCore`; for each
controller `AddLimiter`, `AddNode`, `StartTasks`; `TakeReload`; for each
controller `DropLimiter`, `StopTasks`, `DelNode`; `CloseCore`.  The tasks of one
controller are started, and told to stop, in one step, since each looks at its
own channel only.  A loop takes `Tick`, `StopLoop`, `Timeout` and `Expire`; an
execution `GetNodeInfo`, `SendReload`, `UseCore`, `Hang` and `Finish`.  A panic,
a return of `serverHandle` and `os.Exit` are `Die`: everything but the panel is
gone.  `UseCore` on a closed core is such a panic (its `ihm` and `dispatcher` are
nil).

`Controller.Close` deletes the limiter (`controller.go:98`) before it removes the
inbound (`:108`).  Between the two the inbound goes on accepting connections, and
`GetLimiter` fails for each (`default.go:173`, `:359`): they are refused.
`InboundHasLimiter` therefore says where an inbound is without its limiter:
nowhere but at the one controller that is being closed, and no inbound ever has
another generation's.

A deletion of users may never return (`Hang`, the finding of `links_deletion`):
it keeps `mapLock`, and whoever of the same core asks for that lock gets stuck,
too.  Each deadline that passes for such an execution (`Expire`) requests a
reload, which is what gets the process out of it.  Late executions that are
stuck do not keep a generation's identity from being used again.

A generation's identity is reused once nothing refers to it (`Quiet`), so two
are enough for a closed generation to overlap with the running one, over any
number of reloads; a third only allows two closed ones to linger.
`MaxFault` bounds failed calls, deadlines of executions that would have
returned, deletions that hang, edits of the file and ends of the process; one is enough for each single fault to strike at any point, and the
crash it may lead to is not counted.  At most one late execution per task is
modelled.

`Handover` says what is left without core, clients, tasks and channels: the
ports of a generation open one by one, each after its limiter (`Limit`, `Open`);
once all are open the generation serves; when it is told to hand over, port after
port loses its limiter and then closes (`Refuse`, `Close`), all of them before
any opens again; a process that ends drops them.  The refinement mapping (`Ports ==
INSTANCE Handover WITH …` in `Reload`) takes `handlers` for the ports that are
open, `limiters` for the limiters and `pc` for the phase.  Everything else that
`Reload` does, by whatever goroutine of whatever generation, is a stutter of
`Handover` or the end of the process.

### UserSync and UserService

`panel` is the list the panel serves, `etag` the list acknowledged to it,
`userList` the controller's, `uidMap`, `accounts`, `limits` the three tables of
core, xray and limiter.  Lists are functions from users to limits, `None`
meaning absent, so that a change of limits is a change of value.  The monitor's
calls that can be interrupted by a failure are separate actions (`GetUserList`,
`GetUserAlive`, each `DelUser` and `AddUser` of a loop, `UpdateLimiter`).
`DelUserHangs` is the deletion of a user who has an open connection: account and
uid are gone, and `CloseAll` waits for ever for the mutex it holds.  Nothing
promises that a deletion returns; what follows is `Deadline`, the deadline of
that execution with the reload it requests.  An execution started between the
two would find an unchanged list, or get stuck as well, and is not modelled here.
`failed` is a history variable.  Users in `Refused` are those for whom xray
cannot build an account.  Of `Limiter.UpdateUser` only `UserLimitInfo` is here;
the tables of addresses are in `Admission`.

`UserService` says the same without tables, tags and loops: a node claims to
serve a list, aims at another, admits and expels users one by one and only in
the direction of its aim, and arrives; unless it has given up on the way, who
is served is exactly who is on the list.  The refinement mapping
(`Service == INSTANCE UserService WITH …` in `UserSync`) takes `userList` for
the list, `accounts` for the users served, the list a loop is applying for the
aim, and `~failed` for not having given up.

### UserLinks

One user of one node.  Every access to a `sync.Map`, every section under a
manager's mutex and every atomic operation on a counter is an action; a
manager, a traffic counter and an entry carry the name of the connection that
created them.  `Stream` are the connections that xray hands to `DispatchLink`,
which adds its link after looking for a counter while `getLink` does it before.
`DelUsers` and `AddUsers` exclude reports (`users.mapLock`) but not connections.
Connections do not reopen and the system may come to rest, hence no deadlock
check in its runs.

### Admission

One limiter of a node whose connections are checked for their devices (TCP, or
any under hysteria2 and tuic).  Each access of `CheckLimit` to `UserOnlineIP`,
to a user's map of addresses and to `OldUserOnline` is a step of the
connection; so is each of `GetOnlineDevice` for the report task and of
`UpdateUser` for the monitor.  Maps of addresses are objects with contents
`{Key: Ip, value: Uid}`, so that a connection may go on using one that has been
detached from `UserOnlineIP`.  `Range` of a `sync.Map` visits what is there
throughout and may or may not visit what comes meanwhile.  Whether a user is at
the limit (`deviceLimit > 0 && deviceLimit <= aliveIp`) is any truth value at
any check, since the panel sets both sides; so `AliveList` is not a variable.
`Source` says which users may come from which addresses, and `Steady` names users
without a device limit who are never deleted; both only make instances smaller.
History: `now` and `before` are the devices stored since the last report began
and in the period before; `raced` are deleted users of whom a check was under
way at the deletion; a check is `alone` if no report overlaps with it.

What the code does *not* ensure shows in the hypotheses of `StrangersRefused`:
a report that sees an address between its being stored and its being refused
makes it known, and so does a refused check to another from the same address.

### ConfigWatch

Time in seconds.  `events` are those not yet received, `age` the seconds since
the watcher's `pre` (capped at the debounce, where all ages are alike),
`sleepers` the time left to each delayed goroutine.  `Torn` is a file that does
not parse: boot and reload fail on it, and the delayed goroutine asks for a
reload all the same.  A reload is taken (`TakeReload`), loads the file (`Load`)
and rebuilds the generation (`Rebuilt`, state `"build"`); while it does, it may
fail for other reasons (`Crash`), and the service boots again.

### Inbound and NodeSetup

`Inbound` has no state.  A configuration is reduced to the fields on which
`GetNodeInfo`, `buildInbound`, the builder of each protocol and the builders of
accounts branch; each builder is an operator of its own that returns the stream
settings it leaves behind, or an error, and `buildInbound` merges TLS, REALITY
and the PROXY protocol into them as the code does.  `Proxy` and `Account` are
the two independent decisions about shadowsocks: that of xray by the cipher and
that of `AddUsers` by the server key.

`NodeSetup` follows `Controller.Start` (`GetNodeInfo`, `requestCert`, `AddNode`,
`startTasks`) and the executions of `renewCertTask`.  `act` is where each of
them is in `NewLego`, the order and `writeCert`; `cert`, `key` and `account` are
the contents of the three files, `Torn` one that was truncated and not yet
filled.  A file that is there is overwritten without truncation when the
certificate is self-signed (`Opened`).  `Renewal` are the execution slots:
`renewCertTask` ignores its context, so that an execution may go on after its
deadline and the reload that leads to (`Reload`), next to one of the new
generation.  `Expire` is the certificate coming due.  `Crash` strikes between
any two steps, and `Abort` is a call that fails.  The exchange with the CA is
one step that may fail.  History: `sole` has been writing the pair alone from
the start, `spoilt` says that a write was cut short or overlapped.

### Routing

`GetCustomConfig` is sequential; its loop over routes is the behaviour here, one
route a step, so that an invariant holds for every list of routes.  `rules` and
`outs` are the two flat lists, `left` the nodes still to be translated.  A match
is the set of targets it fits, and a connection is a node and a target; `Dns` is
port 53 over UDP.  An empty list of domains, addresses or protocols is no
condition, an empty list of ports fits nothing (`BlockPort`).  Routes that only
change the DNS servers, that have no value or whose value does not decode leave
the lists alone.  `named` remembers which tag a node's routes named first for
each target.  `Dispatch` is `routedDispatch` without outbound tags forced by xray
itself.

### Sniffing and Dispatching

One connection.  A conversation is what the sniffers can tell of it: which one
recognises it, after how many packets, and what that one and the others answer
before.  Packets are numbers, so that one lost, repeated or overtaken shows.
`reader` is the pipe of `Dispatch` or the client's own reader of `DispatchLink`
(`stream`), `cache` that of `cachedReader`, `out` what the outbound has read.
`Cache`, `CacheTimeout` and `CacheError` are the three results of
`cachedReader.Cache`; `Sniff` is `Sniffer.Sniff` with the cases `sniffer()` has
for its answer, and the override of the destination by a domain.  Time is
counted in units of the deadline and passes only in a read; `CounterReader`
takes its own `Second` whatever it is told.  `Interrupt` is `CloseAll` cutting a
connection's pipe.

`Pipe` is the other branch of `Dispatch` and `DispatchLink`, taken where
`sniffingRequest.Enabled` is false: a queue between the client and the outbound,
which reads the front of it.  In the refinement mapping (`Plain == INSTANCE Pipe
WITH …` in `Sniffing`) the queue is the cache with the reader behind it, until
the connection is closed; then every step of the sniffers is a stutter, an
interruption leaves what the cache holds, and a read takes the cache, or the
reader once the cache is empty.

`Dispatching` starts connections once `Routing` has produced an instance and
routes each by what sniffing made of it (`Seen`): its address, or what its
protocol and domain say (`Told`).  The steps of either side leave the other's
variables alone; that the composition implements both is `RoutingAlone` and
`SniffingAlone`, by which every theorem about the parts holds for the whole.

## Runs

| Run | Instance | States | Shows |
|---|---|---|---|
| `reload` | 1 node, the monitor, 2 generations, 2 versions, 1 fault | 202,988 | types; no reload is lost; inbounds and limiters are the running generation's, and an inbound is without one only while it closes; closing finds its inbounds; the process ends up serving what the panel has; closed loops end; all of it implements `Handover` |
| `reload_stopped_task` | the same with the report task | – | *violated*: a closed task's execution reaches the closed core |
| `users` | 2 users and a refused one, 2 limits, every list, 1 fault | 273,528 | the tables in every intermediate and failed state; an acknowledged list is served unless a call fails; the last list takes effect, also when a deletion hangs; all of it implements `UserService` |
| `users_lost_list` | 2 users, 1 fault | – | *violated*: a deadline drops an acknowledged list |
| `links` | 2 connections on the two paths, 2 overlapping reports, 2 units of traffic, 2 deletions | 1,356,197 | never overbilled, no leaked writers |
| `links_deletion` | 2 connections, 1 deletion | – | *violated*: deleting a connected user never returns |
| `config_watch` | 2 contents and a torn file, 10 s and 5 s, 2 waiting events | 2,601 | one delayed goroutine; no step drops an edit in time, and it is loaded |
| `config_missed_edit` | the same | – | *violated*: an edit at another time is not |
| `dispatching` | 2 nodes, 2 targets and DNS, 3 routes, connections over instances of up to 1 route, 5 conversations of up to 3 packets; symmetry | 538,824 | each node's own first route decides and decisions stay; sniffing implements `Pipe`, recognises, ends in time; what a connection shows decides where it goes |
| `sniff_more_data` | no routes, the same conversations | – | *violated*: a sniffer that asked for more data is not asked again |
| `admission` | 2 users, one with 2 addresses and one behind the same address as one of these, 2 checks at a time, 2 maps; symmetry and view | 4,600,093 | reports are fresh; deleted users go offline; the limit holds against unknown addresses |
| `node_setup` | every configuration the builders tell apart, 2 overlapping renewals, 4 orders, 2 faults | 236,494 | the files belong together; the inbound and the accounts are the configured ones; the node comes up; due certificates are renewed |

The bounds.  Three routes are enough for one of a node to come before or after
those of another, for a repeated tag and for a repeated target; longer lists are
the proofs' business.  Connections are followed over instances of at most one
route beyond the built-in rule (`MaxFollowed`), since a connection meets the
rules only through `Dispatch`, whose value for longer lists the routing
properties cover.  A conversation of two packets out of three has data before,
between and after what identifies it.  `Wait = 2` and `Second = 3` let a read
begin before the deadline and end on either side of it.  In `admission` the two
users meet under one address, and one of them has a second one (`Devices`): so a
device joins a map that holds another, also a map that has been detached, is
looked at there, refused and taken out again, and an address is reported for
another user.  Only that user is ever deleted or at the limit; the other
(`Steady`) is there for the shared address.  Two checks and two maps let one
check use a detached map while the other creates its successor.  The instance
identifies states that only differ in what is never read again (`View` in
`MCAdmission`): the content of a map nobody refers to, what a report still has on
its lists of things visited, and the flags of a check that is past using them.
More users, addresses and checks are `AdmissionProofs`' part.
`reload` has only the monitor, the one task that asks
for a reload of its own; the others differ in when they touch the core, and the
proofs cover every set of tasks.  The same goes for the number of nodes: a
reload that meets a second node half-way is `ReloadProofs`' part, where every
property of this run but the liveness is proved for any of them.  Two reports of
`links` may overlap in every way; two units of traffic can fall before, between
and after their readings.  Two faults in `node_setup` let a crash follow a
reload, and so meet both the renewal that outlived it and the next one.

The violated runs are disagreements between the code and what its comments or
log messages say; `PROJECT.json` quotes them under "findings": an execution that
outlives the "stopped" task, an acknowledged user list that is dropped, a
deletion that takes a lock twice, an edit that the debounce swallows, and a
sniffer whose "need more data" never reaches the loop that waits for it.

**Fairness.** `Reload`: weak fairness of main, of timers and of executions (Go
runs a runnable goroutine; calls to the panel have timeouts), strong fairness of
a loop's `Stop` case, since `select` chooses at random among ready cases and the
timer may be ready each time.  An execution goes on until it returns or gets
stuck; if it is stuck its deadline does pass (`Expire`), since `ExecuteWithTimeout`
waits for the timer and not for the execution.  That a dead process boots again
is systemd's `Restart=always` (`script/install.sh:338`); under OpenRC nothing
restarts it, and `Converges` and its like hold only until the process first ends.
`UserSync`: the timer of the monitor, steps of the monitor that return or hang,
the deadline of one that hangs (`Deadline`), and restart.  `NodeSetup`: start and restart, the daily timer, and every
order and write, which ends or fails; failures are bounded, so an order
eventually succeeds.  `ConfigWatch`: time, watcher and main; never the editor.
`UserLinks`: goroutines that hold no blocked lock.  `Dispatching` has safety
properties only.  Nothing is assumed of the operator of the panel, the editor of
the file or the users.

## Proofs

TLAPS proves, for every value of the constants allowed by the assumptions at the
head of each module:

* `ReloadProofs`: `TypeOK`, `NoLostReload`, `InboundHasLimiter`,
  `CloseFindsInbound`.  The invariant is `TypeOK` with: the generation main
  works on exists and its core is in the state `pc` says (`GenInv`); the
  inbounds are exactly those of the controllers that main has opened and not yet
  removed, and the limiters those of the controllers between `AddLimiter` and
  `DropLimiter`, whose interval begins and ends earlier (`HandlerInv`); a client's hash is that of what
  its controller runs until an execution of the *same* generation changes it
  (`FreshInv`); a generation that has not started its controllers has no
  executions (`IdleInv`); and `NoLostReload` itself.  `FreshInv` and `IdleInv`
  are what makes a reload request irrelevant when main takes it: the next
  generation starts from new clients.
  `PortsAreHandedOver` shows the refinement of `Handover`, one step per action of
  `Reload`: the invariant says which limiters and ports there are in which phase,
  so that `StartTasks` of the last controller is `Serve`, and `DelNode` of the
  last one ends the closing.
  `OneGenerationServes` is its consequence in `Reload`'s terms, and
  `ClosedLoopsAreTold` the safety part of `ClosedLoopsEnd`: a loop that outlives
  its generation finds its `Stop` channel closed, because `Close` has been to
  every node whose tasks were started before the core was closed.
* `UserSyncProofs`: `TypeOK`, `BillableBeforeServed`, `LimiterTracksList`,
  `CleanSync`, `DiffApplies`, the action property `KeptUsersStay`, the
  refinement `ImplementsService` and, from the refinement's invariant,
  `ServedBetween`; and `AcknowledgedIsServed`, the safety part of
  `ListTakesEffect`: the entity tag names the list that is served or is being
  applied, through every step that does not fail, and an answer "not modified"
  then leaves nothing behind (`AckInv`).  The invariant follows a sync: which part of `del` and `add`
  is done determines `accounts` and `uidMap` until a call fails (`CleanInv`), and
  there is a list being applied exactly within a sync (`AimInv`).  `PatchIsList`
  says that `UpdateUser` applied to the difference of two lists gives the
  second.  The refinement has one step per action, each mapped to a step of
  `UserService` or to a stutter.
* `UserLinksProofs`: `TypeOK`, `NoLeakedWriter` and `NeverOverbilled`.  A
  connection has what it looked up (`ConnInv`), and a link is only in the
  manager the connection remembers (`LinkInv`); what a reporter has read is in
  the count until it is zeroed and then in no count (`BillInv`).
  `NoByteBilledTwice` is about each report by itself, among any number of others
  that read and zero the same counters: none bills a connection more than it
  carried.  Of two reports that overlap both may bill the same bytes, if both
  read a count before either zeroes it; the code does not exclude that.
* `ConfigWatchProofs`: `TypeOK`, `OneSleeper` and the action property
  `EditNotLost`.  The invariant relates the two clocks: a delayed goroutine has
  `Delay - age` left.  `EditNotLost` is the safety part of `EditInTimeLoaded`:
  from the event over the sleeper and the channel to main's load, each station
  hands an edit on before it forgets it.
* `AdmissionProofs`: `TypeOK`, `FreshReport`, `DeletedOffline` and the action
  property `StrangersRefused`.  The argument follows a stored device: what a user
  has online was stored in the last two periods, and in the last one as soon as
  the report under way has dealt with the user (`OnlineInv`), which is what lets
  the next report forget the older period; then what was reported was stored in
  them, too (`OldInv`), and a check that no report overlaps with still sees what
  it saw (`AloneInv`, `StrangerInv`).  `RacedInv` is the part about deletion.
* `NodeSetupProofs`: `TypeOK`, `InboundAsConfigured`, `AccountsFit`,
  `FilesMatch` and `FilesPresent`, for any set of configurations, renewals and faults.  The inbound
  of a node past `AddNode` is the one built and one xray accepts (`BuiltInv`);
  the rest is a lemma per builder.  For the files: whoever writes alone has its
  own certificate in the first file by the time it writes the second, or
  `spoilt` is set (`SoleInv`).
  `FilesPresent` is the safety part of `NodeComesUp`: whatever has happened to
  the two files, a controller past `requestCert` has both, since no step
  removes a file and an order that returns to `Start` has written both
  (`PresentInv`).
* `RoutingProofs`: `TypeOK`, `TagsUnique`, `FirstRouteWins`, `NeverDirect` and
  the action property `DecisionsStay`.  The properties speak of the smallest
  index of a rule that fits; the invariant names it (`HitInv`), says that all
  rules but the first belong to a node (`RuleInv`) and where the built-in
  outbounds are (`OutInv`).  `Routing`'s `TypeOK` is checked as a part of
  `ConnTypeOK`.
* `DispatchingProofs`: of a connection, its types, `InOrder`, `Recognised`,
  `InTime` and the refinement `ImplementsPipe`; of the composition, `ConnTypeOK`, `RoutedByContent` and that it
  implements `Routing` and `Sniffing`.  `FlowInv` keeps what was taken equal to
  what is cached until the outbound reads; `TimeInv` splits the deadline into
  spent and left; `PendInv` says that, as long as the loop goes on, the sniffer
  that will know the protocol has not seen enough and is among those still
  asked, since it answers "no clue" and not "no" until then.  `RoutedByContent` then needs `NeverDirect` of
  the routing side only.  `PlainStep` maps each step of `Sniffing` to one of
  `Pipe`; what it needs of sequences, that the front and the rest of `s \o r` are
  `s` and `r`, is the lemma `FrontAndRest`.  `ConnectionsAreServed` collects what
  holds of the composition.

Seven of the properties proved are not checked by a run of their own, because a
run checks what they follow from or what they are a part of: `Handed` follows
from `ImplementsHandover`, `ServedBetween` from `ImplementsService`, `InOrder`
from `ImplementsPipe`, `DiffApplies` belongs to the invariant of `CleanSync` and
`TagsUnique` to that of `DecisionsStay`, and `ClosedAreTold` and `FilesPresent`
are the safety parts of `ClosedLoopsEnd` and `NodeComesUp`.

Only model-checked: liveness (`Converges`, `ClosedLoopsEnd`, `ListTakesEffect`,
`EditInTimeLoaded`, `NodeComesUp`, `DueIsRenewed`), which TLAPS does not cover
under fairness.  What these six lean on that is a matter of safety is proved:
that no request, acknowledged list or edit in time is lost (`NoLostReload`,
`AcknowledgedIsServed`, `EditNotLost`), that closed loops are told to end
(`ClosedAreTold`) and that ordered files are there (`FilesPresent`).  That the
steps left are then taken is what fairness and TLC add.

## Not modelled

* Rate limiting of bytes: the buckets of `SpeedLimiter` (`limiter/limiter.go:102`
  to `113` and `205` to `217`), `common/rate` and the dynamic limits
  (`limiter/dynamic.go`, `UpdateDynamicSpeedLimit`), which nothing calls.  What
  they promise is a rate over real time, not a relation between states.
* Fake DNS: `getCore` configures no engine for it, so that the dispatcher's
  metadata sniffer never exists; and outbound tags forced by xray itself.
* Two nodes that share the default paths of their certificates, and a
  self-signed certificate shorter than the file it overwrites, whose tail stays.
* Bytes that a reader returns together with an error: `CounterReader`
  (`countreader.go:18` to `20`, `29` to `31`) and `cachedReader.Cache`
  (`default.go:43` to `46`) discard them, uncounted and unsniffed.  A read in
  `Sniffing` gives data or an error, as xray's pipe does; a client's own reader
  behind `DispatchLink` might give both.
* A node configuration that the panel goes on serving and that never decodes
  (`Converges` covers a reply that is spoilt once); a list applied by two
  executions at once; a service that nothing restarts.
* DNS servers and the query strategy of `GetCustomConfig`; the merging of the
  configuration file's fields; the encodings of panel replies; keys, passwords
  and other values that are only copied into xray's configuration.
* That a user keeps its id (`node/user.go:83`): users are identified with their
  uuid everywhere.
* Data races on plain memory (`AliveList`, the pointer `OldUserOnline`, the
  fields of `UserLimitInfo`): noted as hazards; their crash is not an action.
* The command line, scripts other than the restart policy, logging, helpers,
  registration of xray's features and generated code have no state of their own.
