-------------------------------- MODULE Reload --------------------------------
(***************************************************************************)
(* The life of a v2node process: the main goroutine (boot, the select loop *)
(* of serverHandle, reload) against the goroutines of the periodic tasks   *)
(* that every node controller starts.                                      *)
(*                                                                         *)
(* A generation is one V2Core with the Node object, the controllers, the   *)
(* panel clients and the tasks built along with it.  reload() closes the   *)
(* running generation and builds another; the goroutines of the closed one *)
(* are told to stop but nobody waits for them, so they overlap with what   *)
(* follows.  The only state that survives from one generation to the next  *)
(* is the reload channel and the global limiter map.                       *)
(***************************************************************************)
EXTENDS Naturals

CONSTANTS
  Node,       \* entries of "Nodes" in the configuration file
  NoNode,     \* no node
  Kind,       \* the periodic tasks of a controller
  Gen,        \* pool of generation identities; one is reused once it is quiet
  NoGen,      \* no generation
  Version,    \* node configurations the panel may serve (bodies of the reply)
  Bad,        \* hash of a body that does not decode into a NodeInfo
  MaxFault    \* bound on failed calls, expired deadlines and signals

ASSUME KindAssumption  == Kind \subseteq {"monitor", "report", "cert"}
ASSUME NodeAssumption  == NoNode \notin Node
ASSUME NoGenAssumption == NoGen \notin Gen
ASSUME BadAssumption   == Bad \notin Version
ASSUME FaultAssumption == MaxFault \in Nat

VARIABLES
  pc,         \* where the main goroutine is
  todo,       \* nodes the current "for" loop of main has yet to deal with
  node,       \* the node whose controller main is starting or closing
  gen,        \* the generation main runs, closes or builds
  core,       \* V2Core.Start / V2Core.Close of each generation
  info,       \* Controller.info of each generation and node
  seen,       \* Client.responseBodyHash (with nodeEtag) of each client
  stop,       \* Task.Stop closed, for each task
  at,         \* where each execution goroutine (or its task loop) is
  queued,     \* messages in ReloadCh, a channel of capacity one
  watching,   \* the configuration file is watched (conf.Watch)
  handlers,   \* inbound handlers registered in a core, by generation and node
  limiters,   \* the global map limiter[tag], holding the generation's limiter
  panel,      \* what the panel serves for each node
  faults      \* faults so far

vars == <<pc, todo, node, gen, core, info, seen, stop, at, queued, watching,
          handlers, limiters, panel, faults>>

(***************************************************************************)
(* A task's loop awaits the execution it started ("own"); an execution     *)
(* that outlived its deadline keeps running without anybody waiting for it *)
(* ("late").  At most one late execution per task is modelled.             *)
(***************************************************************************)
Task == Gen \X Node \X Kind
Exec == Gen \X Node \X Kind \X {"own", "late"}

Own(g, n, k)  == <<g, n, k, "own">>
Late(g, n, k) == <<g, n, k, "late">>

Step == {"info", "send", "users", "traffic", "renew"}

First(k) == CASE k = "monitor" -> "info"
              [] k = "report"  -> "traffic"
              [] k = "cert"    -> "renew"

\* Where an execution may be: apart from the steps it takes, it may wait for ever
\* in DelUsers, with mapLock in its hands.
Point == Step \cup {"off", "wait", "stuck"}

Blank == [n \in Node |-> Bad]

MainPC == {"down", "load", "fetch", "coreStart", "start", "addNode",
           "startTasks", "select", "close", "stopTasks", "delNode", "coreClose"}

Closing == {"close", "stopTasks", "delNode"}

TypeOK ==
  /\ pc \in MainPC
  /\ todo \subseteq Node
  /\ IF pc \in {"addNode", "startTasks", "stopTasks", "delNode"}
     THEN node \in todo ELSE node = NoNode
  /\ gen \in Gen \cup {NoGen}
  /\ core \in [Gen -> {"free", "new", "up", "closed"}]
  /\ info \in [Gen -> [Node -> Version \cup {Bad}]]
  /\ seen \in [Gen -> [Node -> Version \cup {Bad}]]
  /\ stop \in [Task -> BOOLEAN]
  /\ at \in [Exec -> Point]
  /\ queued \in 0..1
  /\ watching \in BOOLEAN
  /\ handlers \subseteq Gen \X Node
  /\ limiters \in [Node -> Gen \cup {NoGen}]
  /\ panel \in [Node -> Version]
  /\ faults \in 0..MaxFault

\* No process: nothing but the panel has state.
Empty(p, t, o, g, c, i, s, st, a, q, w, h, l) ==
  /\ p = "down"
  /\ t = {}
  /\ o = NoNode
  /\ g = NoGen
  /\ c = [x \in Gen |-> "free"]
  /\ i = [x \in Gen |-> Blank]
  /\ s = [x \in Gen |-> Blank]
  /\ st = [x \in Task |-> FALSE]
  /\ a = [x \in Exec |-> "off"]
  /\ q = 0
  /\ w = FALSE
  /\ h = {}
  /\ l = [n \in Node |-> NoGen]

Init ==
  /\ Empty(pc, todo, node, gen, core, info, seen, stop, at, queued, watching,
           handlers, limiters)
  /\ panel \in [Node -> Version]
  /\ faults = 0

\* A panic in any goroutine, os.Exit and a return from serverHandle all end
\* the process with everything it holds.
Die ==
  /\ Empty(pc', todo', node', gen', core', info', seen', stop', at', queued',
           watching', handlers', limiters')
  /\ UNCHANGED panel

Fault == faults < MaxFault /\ faults' = faults + 1

-----------------------------------------------------------------------------
(* The main goroutine *)

\* A generation in which nothing moves any more.  What still waits for a lock of
\* its core, with no loop awaiting it, does so to no effect.
Quiet(g) ==
  /\ core[g] \in {"free", "closed"}
  /\ \A e \in Exec : e[1] = g => at[e] = "off" \/ (at[e] = "stuck" /\ e[4] = "late")

\* conf.LoadFromPath, then node.New and core.New: fresh clients with no hash,
\* fresh controllers without tasks, a core that is not started.
Load(g) ==
  /\ pc \in {"down", "load"}
  /\ Quiet(g)
  /\ gen' = g
  /\ core' = [core EXCEPT ![g] = "new"]
  /\ info' = [info EXCEPT ![g] = Blank]
  /\ seen' = [seen EXCEPT ![g] = Blank]
  /\ stop' = [t \in Task |-> IF t[1] = g THEN FALSE ELSE stop[t]]
  /\ at' = [e \in Exec |-> IF e[1] = g THEN "off" ELSE at[e]]
  /\ pc' = "fetch"
  /\ todo' = Node
  /\ UNCHANGED <<node, queued, watching, handlers, limiters, panel, faults>>

\* The body of node.New's loop: the first GetNodeInfo of a new client.
FetchInfo(n) ==
  /\ pc = "fetch"
  /\ n \in todo
  /\ info' = [info EXCEPT ![gen][n] = panel[n]]
  /\ seen' = [seen EXCEPT ![gen][n] = panel[n]]
  /\ todo' = todo \ {n}
  /\ pc' = IF todo = {n} THEN "coreStart" ELSE "fetch"
  /\ UNCHANGED <<node, gen, core, stop, at, queued, watching, handlers, limiters,
                 panel, faults>>

StartCore ==
  /\ pc = "coreStart"
  /\ core' = [core EXCEPT ![gen] = "up"]
  /\ pc' = "start"
  /\ todo' = Node
  /\ UNCHANGED <<node, gen, info, seen, stop, at, queued, watching, handlers,
                 limiters, panel, faults>>

\* Controller.Start: the limiter comes first, before requestCert, ...
AddLimiter(n) ==
  /\ pc = "start"
  /\ n \in todo
  /\ limiters' = [limiters EXCEPT ![n] = gen]
  /\ node' = n
  /\ pc' = "addNode"
  /\ UNCHANGED <<todo, gen, core, info, seen, stop, at, queued, watching,
                 handlers, panel, faults>>

\* ... then the inbound, which accepts connections from here on ...
AddNode ==
  /\ pc = "addNode"
  /\ handlers' = handlers \cup {<<gen, node>>}
  /\ pc' = "startTasks"
  /\ UNCHANGED <<todo, node, gen, core, info, seen, stop, at, queued, watching,
                 limiters, panel, faults>>

\* ... and after AddUsers (UserSync has it) the tasks.  That of the certificate
\* runs at once, the others wait for their first tick.  After the last controller
\* of the boot, serverHandle watches the file.
StartTasks ==
  /\ pc = "startTasks"
  /\ at' = [e \in Exec |->
              IF e[1] = gen /\ e[2] = node /\ e[4] = "own"
              THEN IF e[3] = "cert" THEN "renew" ELSE "wait"
              ELSE at[e]]
  /\ todo' = todo \ {node}
  /\ node' = NoNode
  /\ pc' = IF todo = {node} THEN "select" ELSE "start"
  /\ watching' = (watching \/ todo = {node})
  /\ UNCHANGED <<gen, core, info, seen, stop, queued, handlers, limiters, panel,
                 faults>>

\* Mutation of TakeReload: a reload is skipped while a task is executing.
TakeReloadWhenIdle ==
  /\ pc = "select"
  /\ queued = 1
  /\ queued' = 0
  /\ IF \E e \in Exec : e[1] = gen /\ at[e] \in Step
     THEN UNCHANGED <<pc, todo>>
     ELSE pc' = "close" /\ todo' = Node
  /\ UNCHANGED <<node, gen, core, info, seen, stop, at, watching, handlers,
                 limiters, panel, faults>>

\* Mutation of TakeReload: a request is served before boot or reload is done.
TakeReloadEarly ==
  /\ pc \in {"start", "select"}
  /\ queued = 1
  /\ queued' = 0
  /\ pc' = "close"
  /\ todo' = Node
  /\ UNCHANGED <<node, gen, core, info, seen, stop, at, watching, handlers,
                 limiters, panel, faults>>

\* case <-reloadCh: reload() begins with (*nodes).Close().
TakeReload ==
  /\ pc = "select"
  /\ queued = 1
  /\ queued' = 0
  /\ pc' = "close"
  /\ todo' = Node
  /\ UNCHANGED <<node, gen, core, info, seen, stop, at, watching, handlers,
                 limiters, panel, faults>>

\* Mutation of DropLimiter: the limiter stays in the map.
LeaveLimiter(n) ==
  /\ pc = "close"
  /\ n \in todo
  /\ node' = n
  /\ pc' = "stopTasks"
  /\ UNCHANGED <<todo, gen, core, info, seen, stop, at, queued, watching,
                 handlers, limiters, panel, faults>>

\* Controller.Close: DeleteLimiter comes first.  The inbound still accepts
\* connections, for which getLink and DispatchLink find no limiter, ...
DropLimiter(n) ==
  /\ pc = "close"
  /\ n \in todo
  /\ limiters' = [limiters EXCEPT ![n] = NoGen]
  /\ node' = n
  /\ pc' = "stopTasks"
  /\ UNCHANGED <<todo, gen, core, info, seen, stop, at, queued, watching,
                 handlers, panel, faults>>

\* Mutation of StopTasks: the tasks are not closed.
KeepTasks ==
  /\ pc = "stopTasks"
  /\ pc' = "delNode"
  /\ UNCHANGED <<todo, node, gen, core, info, seen, stop, at, queued, watching,
                 handlers, limiters, panel, faults>>

\* ... then every task is closed, without waiting for its execution.  Each reads
\* its own channel only, so that they are told at once makes no difference.
StopTasks ==
  /\ pc = "stopTasks"
  /\ stop' = [t \in Task |-> (t[1] = gen /\ t[2] = node) \/ stop[t]]
  /\ pc' = "delNode"
  /\ UNCHANGED <<todo, node, gen, core, info, seen, at, queued, watching,
                 handlers, limiters, panel, faults>>

\* ... and the inbound goes last.  DelNode fails when the core has none of that
\* tag; reload then panics.
DelNode ==
  /\ pc = "delNode"
  /\ IF <<gen, node>> \in handlers
     THEN /\ handlers' = handlers \ {<<gen, node>>}
          /\ todo' = todo \ {node}
          /\ node' = NoNode
          /\ pc' = IF todo = {node} THEN "coreClose" ELSE "close"
          /\ UNCHANGED <<gen, core, info, seen, stop, at, queued, watching,
                         limiters, panel>>
     ELSE Die
  /\ UNCHANGED faults

\* V2Core.Close: ihm, ohm and dispatcher become nil, the xray instance closes.
CloseCore ==
  /\ pc = "coreClose"
  /\ core' = [core EXCEPT ![gen] = "closed"]
  /\ pc' = "load"
  /\ UNCHANGED <<todo, node, gen, info, seen, stop, at, queued, watching,
                 handlers, limiters, panel, faults>>

\* A call of boot or reload fails (file, panel, xray, certificate, no users)
\* and serverHandle returns or panics, or a signal ends the process.
ProcessEnds ==
  /\ pc # "down"
  /\ Fault
  /\ Die

Main ==
  \/ \E g \in Gen : Load(g)
  \/ \E n \in Node : FetchInfo(n) \/ AddLimiter(n) \/ DropLimiter(n)
  \/ StartCore \/ AddNode \/ StartTasks
  \/ TakeReload \/ StopTasks \/ DelNode
  \/ CloseCore

-----------------------------------------------------------------------------
(* Task loops and their executions *)

mainVars == <<pc, todo, node, gen, core, info, stop, watching, handlers, limiters,
              panel>>

\* The execution returns: its loop waits for the next tick; a late one is gone.
Return(e) ==
  at' = [at EXCEPT ![e] = IF e[4] = "own" THEN "wait" ELSE "off"]

Goto(e, s) == at' = [at EXCEPT ![e] = s]

\* case <-timer.C: ExecuteWithTimeout starts Execute in a goroutine.  The timer
\* may win against a Stop channel that is closed already.
Tick(g, n, k) ==
  /\ at[Own(g, n, k)] = "wait"
  /\ Goto(Own(g, n, k), First(k))
  /\ UNCHANGED <<mainVars, seen, queued, faults>>

\* case <-t.Stop: the loop ends.
StopLoop(g, n, k) ==
  /\ at[Own(g, n, k)] = "wait"
  /\ stop[<<g, n, k>>]
  /\ Goto(Own(g, n, k), "off")
  /\ UNCHANGED <<mainVars, seen, queued, faults>>

\* case <-ctx.Done(): a reload is requested without blocking and the loop goes
\* on, leaving the execution behind.
Timeout(g, n, k) ==
  /\ at[Own(g, n, k)] \in Step
  /\ at[Late(g, n, k)] = "off"
  /\ Fault
  /\ at' = [at EXCEPT ![Own(g, n, k)] = "wait",
                      ![Late(g, n, k)] = at[Own(g, n, k)]]
  /\ queued' = 1
  /\ UNCHANGED <<mainVars, seen>>

\* GetNodeInfo inside nodeInfoMonitor.  The hash is stored before the body is
\* decoded; an expired context fails the call.
GetNodeInfo(e) ==
  LET g == e[1]
      n == e[2]
  IN /\ at[e] = "info"
     /\ \/ /\ IF e[4] = "late" THEN UNCHANGED faults ELSE Fault
           /\ Return(e)
           /\ UNCHANGED seen
        \/ /\ Fault
           /\ seen' = [seen EXCEPT ![g][n] = Bad]
           /\ Return(e)
        \/ /\ panel[n] = seen[g][n]
           /\ Goto(e, "users")
           /\ UNCHANGED <<seen, faults>>
        \/ /\ panel[n] # seen[g][n]
           /\ seen' = [seen EXCEPT ![g][n] = panel[n]]
           /\ Goto(e, "send")
           /\ UNCHANGED faults
     /\ UNCHANGED <<mainVars, queued>>

\* Mutation of SendReload: the channel holds more than one message.
SendReloadTwice(e) ==
  /\ at[e] = "send"
  /\ queued' = queued + 1
  /\ Goto(e, "users")
  /\ UNCHANGED <<mainVars, seen, faults>>

\* Mutation of SendReload: no reload is requested.
SendNothing(e) ==
  /\ at[e] = "send"
  /\ Goto(e, "users")
  /\ UNCHANGED <<mainVars, seen, queued, faults>>

\* select { case ReloadCh <- struct{}{}: default: }, after which the same
\* execution carries on with the user list.
SendReload(e) ==
  /\ at[e] = "send"
  /\ queued' = 1
  /\ Goto(e, "users")
  /\ UNCHANGED <<mainVars, seen, faults>>

\* DelUsers and AddUsers go through V2Core.ihm, GetUserTrafficSlice through
\* V2Core.dispatcher: both are nil once the core is closed.
UsesCore(e) == at[e] \in {"users", "traffic"}

\* Somebody waits for ever in a DelUsers of that core and never unlocks mapLock.
Blocked(g) == \E e \in Exec : e[1] = g /\ at[e] = "stuck"

\* The list is fetched and applied, or the traffic collected and reported.  Only
\* DelUsers looks at the core before it asks for mapLock.
UseCore(e) ==
  /\ UsesCore(e)
  /\ \/ /\ core[e[1]] = "closed"
        /\ at[e] = "traffic" => ~Blocked(e[1])
        /\ Die
     \/ /\ core[e[1]] # "closed"
        /\ ~Blocked(e[1])
        /\ Return(e)
        /\ UNCHANGED <<mainVars, seen, queued>>
  /\ UNCHANGED faults

\* A user to be deleted has an open link: CloseAll waits for the mutex it holds
\* (UserLinks shows how), and so does everybody who then asks for mapLock.
Hang(e) ==
  /\ UsesCore(e)
  /\ \/ Blocked(e[1]) /\ UNCHANGED faults
     \/ at[e] = "users" /\ core[e[1]] # "closed" /\ ~Blocked(e[1]) /\ Fault
  /\ Goto(e, "stuck")
  /\ UNCHANGED <<mainVars, seen, queued>>

\* The deadline of an execution that never returns does pass, as in Timeout.
Expire(g, n, k) ==
  /\ at[Own(g, n, k)] = "stuck"
  /\ at[Late(g, n, k)] \in {"off", "stuck"}
  /\ at' = [at EXCEPT ![Own(g, n, k)] = "wait", ![Late(g, n, k)] = "stuck"]
  /\ queued' = 1
  /\ UNCHANGED <<mainVars, seen, faults>>

\* The execution ends without touching the core: the user list could not be
\* fetched or has not changed, or it was the certificate that was renewed.
Finish(e) ==
  /\ at[e] \in {"users", "renew"}
  /\ Return(e)
  /\ UNCHANGED <<mainVars, seen, queued, faults>>

ExecStep(e) ==
  GetNodeInfo(e) \/ SendReload(e) \/ UseCore(e) \/ Hang(e) \/ Finish(e)

Tasks ==
  \/ \E g \in Gen, n \in Node, k \in Kind :
        Tick(g, n, k) \/ StopLoop(g, n, k) \/ Timeout(g, n, k) \/ Expire(g, n, k)
  \/ \E e \in Exec : ExecStep(e)

\* The operator edits the node on the panel, or the configuration file: the
\* watcher's callback requests a reload without blocking.
EditNode(n) ==
  /\ \E v \in Version \ {panel[n]} : panel' = [panel EXCEPT ![n] = v]
  /\ UNCHANGED <<pc, todo, node, gen, core, info, seen, stop, at, queued,
                 watching, handlers, limiters, faults>>

EditFile ==
  /\ watching
  /\ Fault
  /\ queued' = 1
  /\ UNCHANGED <<mainVars, seen, at>>

Next ==
  \/ Main
  \/ ProcessEnds
  \/ Tasks
  \/ \E n \in Node : EditNode(n)
  \/ EditFile

Spec == Init /\ [][Next]_vars

(***************************************************************************)
(* systemd restarts the service (Restart=always; under OpenRC nothing      *)
(* does), and goroutines that can run do run: an execution goes on until   *)
(* it returns or gets stuck, and if it is stuck its deadline passes.  Go's *)
(* select chooses at random among the ready cases, so a loop whose Stop    *)
(* channel is closed takes that case sooner or later even if its timer     *)
(* keeps firing: strong fairness.                                          *)
(***************************************************************************)
Fairness ==
  /\ WF_vars(Main)
  /\ \A g \in Gen, n \in Node, k \in Kind :
        /\ WF_vars(Tick(g, n, k)) /\ SF_vars(StopLoop(g, n, k))
        /\ WF_vars(Expire(g, n, k))
  /\ \A e \in Exec : WF_vars(ExecStep(e))

FairSpec == Spec /\ Fairness

-----------------------------------------------------------------------------
(* Properties *)

Monitoring(g, n) ==
  \E e \in Exec : e[1] = g /\ e[2] = n /\ at[e] = "send"

(***************************************************************************)
(* The reload channel drops a request when one is queued already.  That    *)
(* loses nothing: as long as a client of the running generation holds the  *)
(* hash of a configuration its controller does not run - after which no    *)
(* later poll will report it as new again - a reload is still queued or    *)
(* the execution that fetched it is about to send one.                     *)
(***************************************************************************)
NoLostReload ==
  pc \in {"start", "addNode", "startTasks", "select"} =>
    \A n \in Node :
      seen[gen][n] \notin {info[gen][n], Bad} => queued = 1 \/ Monitoring(gen, n)

(***************************************************************************)
(* Inbounds exist only in the generation main works on and only while its  *)
(* core is up.  The limiter map, which all generations share, has that     *)
(* generation's limiter for each of them, except while the controller is   *)
(* being closed: then it has none, so that a connection that still comes   *)
(* in is refused; it has no other generation's at any time.  And it keeps  *)
(* no limiter without an inbound, but the one whose inbound main is about  *)
(* to open.                                                                *)
(***************************************************************************)
InboundHasLimiter ==
  /\ \A g \in Gen, n \in Node :
       <<g, n>> \in handlers =>
         /\ g = gen
         /\ core[g] = "up"
         /\ limiters[n] = IF n = node /\ pc \in Closing THEN NoGen ELSE g
  /\ \A n \in Node :
       limiters[n] # NoGen =>
         \/ <<limiters[n], n>> \in handlers
         \/ n = node /\ pc = "addNode" /\ limiters[n] = gen

(***************************************************************************)
(* reload() never fails on its very first steps: every controller it still *)
(* has to close has its inbound, whatever ran or failed before.            *)
(***************************************************************************)
CloseFindsInbound ==
  pc \in Closing => \A n \in todo : <<gen, n>> \in handlers

(***************************************************************************)
(* Once the operator stops editing, the process ends up serving exactly    *)
(* what the panel has and stays there, through lost answers, undecodable   *)
(* bodies, expired deadlines, a deletion of users that never returns,      *)
(* crashes and restarts.                                                   *)
(***************************************************************************)
Converges ==
  <>[][FALSE]_panel => <>[](pc = "select" /\ info[gen] = panel)

(***************************************************************************)
(* Controller.Close stops every task it started: a loop told to stop does  *)
(* end, or the whole process does.                                         *)
(***************************************************************************)
ClosedLoopsEnd ==
  \A g \in Gen : core[g] = "closed" ~>
    (core[g] # "closed" \/ \A n \in Node, k \in Kind : at[Own(g, n, k)] = "off")

(***************************************************************************)
(* The safety part of it: a loop of a closed generation that still runs    *)
(* finds its Stop channel closed, so nothing survives a reload unnoticed.  *)
(***************************************************************************)
ClosedAreTold ==
  \A g \in Gen, n \in Node, k \in Kind :
    core[g] = "closed" /\ at[Own(g, n, k)] # "off" => stop[<<g, n, k>>]

(***************************************************************************)
(* Generations hand over the ports as Handover promises: boot and reload() *)
(* open them for one generation, each behind its limiter and all of them   *)
(* before the process serves; reload() closes them one at a time, limiter  *)
(* first, and all of them before the next generation gets any.             *)
(***************************************************************************)
Phase == CASE pc = "select"    -> "open"
           [] pc \in Closing   -> "closing"
           [] OTHER            -> "opening"

Ports == INSTANCE Handover WITH
  phase <- Phase, bound <- handlers, limit <- limiters

ImplementsHandover == Ports!Spec

(***************************************************************************)
(* So a port has one generation, whose limiter admits its connections, or  *)
(* nobody's while that one port is about to close, and a process that      *)
(* waits for reloads serves every node.                                    *)
(***************************************************************************)
Handed == Ports!Handed

(***************************************************************************)
(* "Task %s has stopped", logs Task.Close when it returns (task.go:99): an *)
(* execution of a task that was told to stop no longer works on the core.  *)
(***************************************************************************)
StoppedTaskLeavesCore ==
  \A e \in Exec : UsesCore(e) /\ stop[<<e[1], e[2], e[3]>>] => core[e[1]] # "closed"

=============================================================================
