----------------------------- MODULE ReloadProofs -----------------------------
(***************************************************************************)
(* Proofs about Reload, for any set of nodes, tasks, generations and node  *)
(* configurations and any number of faults.                                *)
(*                                                                         *)
(* The safety properties of Reload are not inductive: they say nothing of  *)
(* the phases in which main builds a generation.  Inv adds what holds      *)
(* there: which inbounds are registered at each point of each loop, that a *)
(* client just created agrees with its controller, and that nothing runs   *)
(* yet on behalf of a controller that main has not started.                *)
(***************************************************************************)
EXTENDS Reload, TLAPS

\* main holds a generation / a generation whose core is up.
Starting == {"start", "addNode", "startTasks"}
Running  == Starting \cup {"select", "coreClose"} \cup Closing
Building == Running \cup {"fetch", "coreStart"}

GenInv ==
  /\ pc \in Building => gen \in Gen
  /\ pc \in Running  => core[gen] = "up"

\* The nodes whose inbound is registered.
Served(n) ==
  \/ pc = "select"
  \/ pc \in Starting /\ n \notin todo
  \/ pc = "startTasks" /\ n = node
  \/ pc \in Closing /\ n \in todo

\* The nodes whose limiter is in the map: it comes before the inbound, and goes
\* before it.
Limited(n) ==
  IF n = node THEN pc \in {"addNode", "startTasks"} ELSE Served(n)

HandlerInv ==
  \A n \in Node :
    /\ \A g \in Gen : <<g, n>> \in handlers <=> (g = gen /\ Served(n))
    /\ limiters[n] = IF Limited(n) THEN gen ELSE NoGen

\* The nodes fetched by node.New whose controller is not started.
Fresh(n) ==
  \/ pc = "fetch" /\ n \notin todo
  \/ pc = "coreStart"
  \/ pc \in Starting /\ n \in todo

FreshInv == \A n \in Node : Fresh(n) => seen[gen][n] = info[gen][n]

\* The nodes whose controller is not started.
Unstarted(n) ==
  \/ pc \in {"fetch", "coreStart"}
  \/ pc \in Starting /\ n \in todo

IdleInv ==
  \A e \in Exec : e[1] = gen /\ Unstarted(e[2]) => at[e] = "off"

Inv == TypeOK /\ GenInv /\ HandlerInv /\ FreshInv /\ IdleInv /\ NoLostReload

-----------------------------------------------------------------------------

\* No process satisfies the invariant, whatever the panel serves.
LEMMA DownInv ==
  ASSUME Empty(pc, todo, node, gen, core, info, seen, stop, at, queued, watching,
               handlers, limiters),
         panel \in [Node -> Version], faults \in 0..MaxFault
  PROVE  Inv
<1>1. TypeOK
  <2>1. info \in [Gen -> [Node -> Version \cup {Bad}]]
    BY DEF Empty, Blank
  <2>2. seen \in [Gen -> [Node -> Version \cup {Bad}]]
    BY DEF Empty, Blank
  <2>3. stop \in [Task -> BOOLEAN] /\ watching \in BOOLEAN
    BY Zenon DEF Empty
  <2>4. at \in [Exec -> Point]
    BY DEF Empty, Point
  <2>5. core \in [Gen -> {"free", "new", "up", "closed"}]
    BY DEF Empty
  <2>6. limiters \in [Node -> Gen \cup {NoGen}]
    BY DEF Empty
  <2> QED
    BY <2>1, <2>2, <2>3, <2>4, <2>5, <2>6 DEF Empty, TypeOK, MainPC
<1>2. /\ pc = "down" /\ node = NoNode /\ handlers = {}
      /\ \A n \in Node : limiters[n] = NoGen
  BY DEF Empty
<1> QED
  BY <1>1, <1>2, NodeAssumption DEF Inv, GenInv, HandlerInv, FreshInv, IdleInv,
       NoLostReload, Fresh, Unstarted, Served, Limited, Building, Running,
       Starting, Closing

\* A step that ends the process leaves well-typed variables, and re-establishes
\* the invariant.
LEMMA DieType ==
  ASSUME TypeOK, Die, faults' \in 0..MaxFault
  PROVE  TypeOK'
<1>1. info' \in [Gen -> [Node -> Version \cup {Bad}]]
  BY DEF Die, Empty, Blank
<1>2. seen' \in [Gen -> [Node -> Version \cup {Bad}]]
  BY DEF Die, Empty, Blank
<1>3. stop' \in [Task -> BOOLEAN] /\ watching' \in BOOLEAN
  BY Zenon DEF Die, Empty
<1>4. at' \in [Exec -> Point]
  BY DEF Die, Empty, Point
<1>5. core' \in [Gen -> {"free", "new", "up", "closed"}]
  BY DEF Die, Empty
<1>6. limiters' \in [Node -> Gen \cup {NoGen}]
  BY DEF Die, Empty
<1> QED
  BY <1>1, <1>2, <1>3, <1>4, <1>5, <1>6 DEF Die, Empty, TypeOK, MainPC

LEMMA DieInv ==
  ASSUME Inv, Die, TypeOK'
  PROVE  Inv'
<1>1. /\ pc' = "down" /\ node' = NoNode /\ handlers' = {}
      /\ \A n \in Node : limiters'[n] = NoGen
  BY DEF Die, Empty
<1> QED
  BY <1>1, NodeAssumption DEF Inv, GenInv, HandlerInv, FreshInv, IdleInv,
       NoLostReload, Fresh, Unstarted, Served, Limited, Building, Running,
       Starting, Closing

-----------------------------------------------------------------------------
(* Type correctness *)

LEMMA TableType ==
  ASSUME NEW A, NEW B, NEW C, NEW f \in [A -> [B -> C]],
         NEW a \in A, NEW b \in B, NEW c \in C
  PROVE  [f EXCEPT ![a][b] = c] \in [A -> [B -> C]]
OBVIOUS

\* Every goroutine step keeps the types: what moves is where the execution is,
\* the hash of its client and the reload channel.
LEMMA TaskType ==
  ASSUME TypeOK, Tasks
  PROVE  TypeOK'
<1>1. CASE \E g \in Gen, n \in Node, k \in Kind :
              Tick(g, n, k) \/ StopLoop(g, n, k) \/ Timeout(g, n, k) \/ Expire(g, n, k)
  <2>1. PICK g \in Gen, n \in Node, k \in Kind :
              Tick(g, n, k) \/ StopLoop(g, n, k) \/ Timeout(g, n, k) \/ Expire(g, n, k)
    BY <1>1
  <2>2. First(k) \in Step
    BY KindAssumption DEF First, Step
  <2>3. Own(g, n, k) \in Exec /\ Late(g, n, k) \in Exec
    BY DEF Own, Late, Exec
  <2>4. CASE Tick(g, n, k)
    BY <2>2, <2>4 DEF Tick, Goto, TypeOK, Point, mainVars
  <2>5. CASE StopLoop(g, n, k)
    BY <2>5 DEF StopLoop, Goto, TypeOK, Point, mainVars
  <2>6. CASE Timeout(g, n, k)
    <3>1. at' \in [Exec -> Point]
      BY <2>3, <2>6 DEF Timeout, TypeOK, Point
    <3>2. faults' \in 0..MaxFault
      BY <2>6, FaultAssumption DEF Timeout, Fault, TypeOK
    <3> QED
      BY <2>6, <3>1, <3>2 DEF Timeout, TypeOK, mainVars
  <2>7. CASE Expire(g, n, k)
    <3>1. at' \in [Exec -> Point]
      BY <2>3, <2>7 DEF Expire, TypeOK, Point
    <3> QED
      BY <2>7, <3>1 DEF Expire, TypeOK, mainVars
  <2> QED
    BY <2>1, <2>4, <2>5, <2>6, <2>7
<1>2. CASE \E e \in Exec : ExecStep(e)
  <2>1. PICK e \in Exec : ExecStep(e)
    BY <1>2
  <2>2. e[1] \in Gen /\ e[2] \in Node
    BY DEF Exec
  <2>3. CASE GetNodeInfo(e)
    <3>1. seen' \in [Gen -> [Node -> Version \cup {Bad}]]
      <4>1. \/ seen' = seen
            \/ seen' = [seen EXCEPT ![e[1]][e[2]] = Bad]
            \/ seen' = [seen EXCEPT ![e[1]][e[2]] = panel[e[2]]]
        BY <2>3 DEF GetNodeInfo
      <4>2. panel[e[2]] \in Version \cup {Bad} /\ Bad \in Version \cup {Bad}
        BY <2>2 DEF TypeOK
      <4>3. seen \in [Gen -> [Node -> Version \cup {Bad}]]
        BY DEF TypeOK
      <4>4. \A v \in Version \cup {Bad} :
               [seen EXCEPT ![e[1]][e[2]] = v]
                 \in [Gen -> [Node -> Version \cup {Bad}]]
        BY <2>2, <4>3, TableType
      <4> QED
        BY <4>1, <4>2, <4>3, <4>4
    <3>2. at' \in [Exec -> Point]
      BY <2>3 DEF GetNodeInfo, Return, Goto, TypeOK, Point, Step
    <3>3. faults' \in 0..MaxFault
      BY <2>3, FaultAssumption DEF GetNodeInfo, Fault, TypeOK
    <3> QED
      BY <2>3, <3>1, <3>2, <3>3 DEF GetNodeInfo, TypeOK, mainVars
  <2>4. CASE SendReload(e)
    BY <2>4 DEF SendReload, Goto, TypeOK, mainVars, Point, Step
  <2>5. CASE UseCore(e)
    <3>1. CASE Die
      BY <2>5, <3>1, DieType DEF UseCore, TypeOK
    <3>2. CASE ~Die
      BY <2>5, <3>2 DEF UseCore, Return, TypeOK, Point, mainVars
    <3> QED
      BY <3>1, <3>2
  <2>6. CASE Finish(e)
    BY <2>6 DEF Finish, Return, TypeOK, Point, mainVars
  <2>7. CASE Hang(e)
    <3>1. at' \in [Exec -> Point]
      BY <2>7 DEF Hang, Goto, TypeOK, Point
    <3>2. faults' \in 0..MaxFault
      BY <2>7, FaultAssumption DEF Hang, Fault, TypeOK
    <3> QED
      BY <2>7, <3>1, <3>2 DEF Hang, TypeOK, mainVars
  <2> QED
    BY <2>1, <2>3, <2>4, <2>5, <2>6, <2>7 DEF ExecStep
<1> QED
  BY <1>1, <1>2 DEF Tasks

LEMMA MainType ==
  ASSUME TypeOK, GenInv, Main
  PROVE  TypeOK'
<1>1. ASSUME NEW g \in Gen, Load(g)
      PROVE  TypeOK'
  <2>1. info' \in [Gen -> [Node -> Version \cup {Bad}]]
    BY <1>1 DEF Load, Blank, TypeOK
  <2>2. seen' \in [Gen -> [Node -> Version \cup {Bad}]]
    BY <1>1 DEF Load, Blank, TypeOK
  <2>3. stop' \in [Task -> BOOLEAN]
    BY <1>1, Zenon DEF Load, TypeOK
  <2>4. at' \in [Exec -> Point]
    BY <1>1 DEF Load, TypeOK, Point
  <2> QED
    BY <1>1, <2>1, <2>2, <2>3, <2>4 DEF Load, TypeOK, MainPC
<1>2. ASSUME NEW n \in Node, FetchInfo(n)
      PROVE  TypeOK'
  BY <1>2 DEF FetchInfo, TypeOK, MainPC
<1>3. ASSUME NEW n \in Node, AddLimiter(n)
      PROVE  TypeOK'
  <2>1. gen \in Gen
    BY <1>3 DEF AddLimiter, GenInv, Building, Running, Starting
  <2>2. limiters' \in [Node -> Gen \cup {NoGen}]
    BY <1>3, <2>1 DEF AddLimiter, TypeOK
  <2> QED
    BY <1>3, <2>2 DEF AddLimiter, TypeOK, MainPC
<1>4. CASE AddNode
  <2>1. gen \in Gen /\ node \in Node
    BY <1>4 DEF AddNode, TypeOK, GenInv, Building, Running, Starting
  <2> QED
    BY <1>4, <2>1 DEF AddNode, TypeOK, MainPC
<1>5. CASE StartTasks
  <2>1. at' \in [Exec -> Point]
    BY <1>5 DEF StartTasks, TypeOK, Point, Step
  <2>2. watching' \in BOOLEAN
    BY <1>5, Zenon DEF StartTasks, TypeOK
  <2> QED
    BY <1>5, <2>1, <2>2 DEF StartTasks, TypeOK, MainPC
<1>6. ASSUME NEW n \in Node, DropLimiter(n)
      PROVE  TypeOK'
  BY <1>6 DEF DropLimiter, TypeOK, MainPC
<1>7. CASE StopTasks
  <2>1. stop' \in [Task -> BOOLEAN]
    BY <1>7, Zenon DEF StopTasks, TypeOK
  <2> QED
    BY <1>7, <2>1 DEF StopTasks, TypeOK, MainPC
<1>8. CASE DelNode
  <2>1. CASE <<gen, node>> \in handlers
    BY <1>8, <2>1 DEF DelNode, TypeOK, MainPC
  <2>2. CASE <<gen, node>> \notin handlers
    BY <1>8, <2>2, DieType DEF DelNode, TypeOK
  <2> QED
    BY <2>1, <2>2
<1>9. CASE StartCore
  BY <1>9 DEF StartCore, TypeOK, MainPC
<1>10. CASE TakeReload
  BY <1>10 DEF TakeReload, TypeOK, MainPC
<1>11. CASE CloseCore
  BY <1>11 DEF CloseCore, TypeOK, MainPC
<1> QED
  BY <1>1, <1>2, <1>3, <1>4, <1>5, <1>6, <1>7, <1>8, <1>9, <1>10, <1>11 DEF Main

LEMMA TypeStep == TypeOK /\ GenInv /\ [Next]_vars => TypeOK'
<1> SUFFICES ASSUME TypeOK, GenInv, [Next]_vars
             PROVE  TypeOK'
  OBVIOUS
<1>1. CASE Main
  BY <1>1, MainType
<1>2. CASE ProcessEnds
  BY <1>2, DieType, FaultAssumption DEF ProcessEnds, Fault, TypeOK
<1>3. CASE Tasks
  BY <1>3, TaskType
<1>4. CASE \E n \in Node : EditNode(n)
  BY <1>4 DEF EditNode, TypeOK
<1>5. CASE EditFile
  BY <1>5, FaultAssumption DEF EditFile, Fault, TypeOK, mainVars
<1>6. CASE UNCHANGED vars
  BY <1>6 DEF vars, TypeOK
<1> QED
  BY <1>1, <1>2, <1>3, <1>4, <1>5, <1>6 DEF Next

-----------------------------------------------------------------------------
(* The inductive step *)

\* The goroutines of the tasks touch neither the loops of main nor the inbounds,
\* and an execution that moves the hash of a running controller's client owes a
\* reload until it has queued one.
LEMMA TaskInv ==
  ASSUME Inv, Tasks, TypeOK'
  PROVE  Inv'
<1>1. CASE Die
  BY <1>1, DieInv
<1>2. CASE ~Die
  <2>1. UNCHANGED mainVars
    BY <1>2 DEF Tasks, ExecStep, Tick, StopLoop, Timeout, Expire, GetNodeInfo,
         SendReload, UseCore, Hang, Finish
  <2>2. GenInv' /\ HandlerInv'
    BY <2>1 DEF Inv, GenInv, HandlerInv, Served, Limited, mainVars
  <2>3. ASSUME NEW g \in Gen, NEW n \in Node, NEW k \in Kind,
               Tick(g, n, k) \/ StopLoop(g, n, k) \/ Timeout(g, n, k) \/ Expire(g, n, k)
        PROVE  FreshInv' /\ IdleInv' /\ NoLostReload'
    <3>1. Own(g, n, k) \in Exec /\ Late(g, n, k) \in Exec
      BY DEF Own, Late, Exec
    <3>2. seen' = seen /\ at[Own(g, n, k)] # "off"
      BY <2>3 DEF Tick, StopLoop, Timeout, Expire, Step
    <3>3. ~(g = gen /\ Unstarted(n))
      BY <3>1, <3>2 DEF Inv, IdleInv, Own
    <3>4. FreshInv'
      BY <2>1, <3>2 DEF Inv, FreshInv, Fresh, mainVars
    <3>5. ASSUME NEW e \in Exec, e # Own(g, n, k), e # Late(g, n, k)
          PROVE  at'[e] = at[e]
      BY <2>3, <3>5 DEF Tick, StopLoop, Timeout, Expire, Goto, Inv, TypeOK
    <3>6. IdleInv'
      BY <2>1, <3>3, <3>5 DEF Inv, IdleInv, Unstarted, mainVars, Own, Late
    <3>7. \A m \in Node : Monitoring(gen, m) => Monitoring(gen, m)' \/ queued' = 1
      <4>1. CASE Timeout(g, n, k) \/ Expire(g, n, k)
        BY <4>1 DEF Timeout, Expire
      <4>2. CASE ~(Timeout(g, n, k) \/ Expire(g, n, k))
        <5>1. at[Own(g, n, k)] = "wait" /\ at'[Late(g, n, k)] = at[Late(g, n, k)]
          BY <2>3, <3>1, <4>2 DEF Tick, StopLoop, Goto, Inv, TypeOK, Own, Late
        <5>2. \A e \in Exec : at[e] = "send" => at'[e] = "send"
          BY <3>5, <5>1
        <5> QED
          BY <5>2, <2>1 DEF Monitoring, mainVars
      <4> QED
        BY <4>1, <4>2
    <3>8. queued = 1 => queued' = 1
      BY <2>3 DEF Tick, StopLoop, Timeout, Expire
    <3> QED
      BY <2>1, <3>2, <3>4, <3>6, <3>7, <3>8 DEF Inv, NoLostReload, mainVars
  <2>4. ASSUME NEW e \in Exec, ExecStep(e)
        PROVE  FreshInv' /\ IdleInv' /\ NoLostReload'
    <3>1. e[1] \in Gen /\ e[2] \in Node /\ at[e] # "off"
      BY <1>2, <2>4 DEF ExecStep, GetNodeInfo, SendReload, UseCore, Hang,
           UsesCore, Finish, Exec
    <3>2. ~(e[1] = gen /\ Unstarted(e[2]))
      BY <3>1 DEF Inv, IdleInv
    <3>3. \A f \in Exec : f # e => at'[f] = at[f]
      BY <1>2, <2>4 DEF ExecStep, GetNodeInfo, SendReload, UseCore, Hang,
           Finish, Return, Goto, Inv, TypeOK
    <3>4. \A g \in Gen, n \in Node :
             ~(g = e[1] /\ n = e[2]) => seen'[g][n] = seen[g][n]
      BY <1>2, <2>4, <3>1 DEF ExecStep, GetNodeInfo, SendReload, UseCore, Hang,
           Finish, Inv, TypeOK
    <3>5. IdleInv'
      BY <2>1, <3>2, <3>3 DEF Inv, IdleInv, Unstarted, mainVars
    <3>6. FreshInv'
      BY <2>1, <3>2, <3>4 DEF Inv, TypeOK, GenInv, FreshInv, Fresh, Unstarted,
           Building, Running, Starting, mainVars
    <3>7. NoLostReload'
      <4>1. CASE SendReload(e)
        BY <4>1 DEF SendReload, NoLostReload
      <4>2. CASE ~SendReload(e)
        <5>1. queued' = queued /\ at[e] # "send"
          BY <1>2, <2>4, <4>2 DEF ExecStep, GetNodeInfo, SendReload, UseCore,
               UsesCore, Hang, Finish
        <5>2. \A n \in Node : Monitoring(gen, n) => Monitoring(gen, n)'
          BY <2>1, <3>3, <5>1 DEF Monitoring, mainVars
        <5>3. \/ seen' = seen
              \/ seen'[e[1]][e[2]] = Bad
              \/ at'[e] = "send"
          BY <1>2, <2>4, <3>1, <4>2 DEF ExecStep, GetNodeInfo, SendReload,
               UseCore, Hang, Finish, Goto, Inv, TypeOK
        <5>4. at'[e] = "send" => Monitoring(e[1], e[2])'
          BY DEF Monitoring
        <5> QED
          BY <2>1, <3>4, <5>1, <5>2, <5>3, <5>4
             DEF Inv, GenInv, Building, Running, Starting, NoLostReload, mainVars
      <4> QED
        BY <4>1, <4>2
    <3> QED
      BY <3>5, <3>6, <3>7
  <2> QED
    BY <1>2, <2>2, <2>3, <2>4 DEF Tasks, Inv
<1> QED
  BY <1>1, <1>2

\* The steps of main.  Each loop keeps "todo" and the registered inbounds in
\* step, and a client is used by nobody else until its controller has started.
LEMMA MainInv ==
  ASSUME Inv, Main, TypeOK'
  PROVE  Inv'
<1> USE NodeAssumption
        DEF Served, Limited, Fresh, Unstarted, Building, Running, Starting, Closing
<1>1. ASSUME NEW g \in Gen, Load(g)
      PROVE  Inv'
  <2>1. GenInv' /\ HandlerInv' /\ FreshInv' /\ NoLostReload'
    BY <1>1 DEF Load, Inv, TypeOK, GenInv, HandlerInv, FreshInv, NoLostReload,
         Blank
  <2>2. IdleInv'
    BY <1>1 DEF Load, Quiet, IdleInv
  <2> QED
    BY <2>1, <2>2 DEF Inv
<1>2. ASSUME NEW n \in Node, FetchInfo(n)
      PROVE  Inv'
  <2>1. GenInv' /\ HandlerInv' /\ IdleInv' /\ NoLostReload'
    BY <1>2 DEF FetchInfo, Inv, TypeOK, GenInv, HandlerInv, IdleInv,
         NoLostReload
  <2>2. \A m \in Node : m \notin todo' => seen'[gen'][m] = info'[gen'][m]
    BY <1>2 DEF FetchInfo, Inv, TypeOK, GenInv, FreshInv
  <2>3. FreshInv'
    BY <1>2, <2>2 DEF FetchInfo, FreshInv
  <2> QED
    BY <2>1, <2>3 DEF Inv
<1>3. ASSUME NEW n \in Node, AddLimiter(n)
      PROVE  Inv'
  <2>1. HandlerInv'
    BY <1>3 DEF AddLimiter, Inv, TypeOK, GenInv, HandlerInv
  <2> QED
    BY <1>3, <2>1 DEF AddLimiter, Inv, GenInv, FreshInv, IdleInv, NoLostReload,
         Monitoring
<1>4. CASE AddNode
  <2>1. HandlerInv'
    BY <1>4 DEF AddNode, Inv, TypeOK, GenInv, HandlerInv
  <2> QED
    BY <1>4, <2>1 DEF AddNode, Inv, GenInv, FreshInv, IdleInv, NoLostReload,
         Monitoring
<1>5. CASE StartTasks
  <2>0. node \in Node /\ node \in todo
    BY <1>5 DEF StartTasks, Inv, TypeOK
  <2>1. GenInv' /\ HandlerInv'
    BY <1>5, <2>0 DEF StartTasks, Inv, TypeOK, GenInv, HandlerInv
  <2>2. FreshInv'
    BY <1>5, <2>0 DEF StartTasks, Inv, TypeOK, FreshInv
  <2>3. IdleInv'
    BY <1>5, <2>0 DEF StartTasks, Inv, TypeOK, IdleInv
  <2>4. seen'[gen][node] = info'[gen][node]
    BY <1>5, <2>0 DEF StartTasks, Inv, FreshInv
  <2>5. NoLostReload'
    <3>1. ASSUME NEW m \in Node, m # node, Monitoring(gen, m)
          PROVE  Monitoring(gen, m)'
      BY <1>5, <3>1 DEF StartTasks, Monitoring
    <3> QED
      BY <1>5, <2>4, <3>1 DEF StartTasks, Inv, NoLostReload
  <2> QED
    BY <2>1, <2>2, <2>3, <2>5 DEF Inv
<1>6. ASSUME NEW n \in Node, DropLimiter(n)
      PROVE  Inv'
  <2>1. HandlerInv'
    BY <1>6 DEF DropLimiter, Inv, TypeOK, GenInv, HandlerInv
  <2> QED
    BY <1>6, <2>1 DEF DropLimiter, Inv, GenInv, FreshInv, IdleInv, NoLostReload
<1>7. CASE StopTasks
  BY <1>7 DEF StopTasks, Inv, GenInv, HandlerInv, FreshInv, IdleInv, NoLostReload
<1>8. CASE DelNode
  <2>1. gen \in Gen /\ node \in Node /\ node \in todo
    BY <1>8 DEF DelNode, Inv, TypeOK, GenInv
  <2>2. <<gen, node>> \in handlers
    BY <1>8, <2>1 DEF DelNode, Inv, HandlerInv
  <2>3. HandlerInv'
    BY <1>8, <2>1, <2>2 DEF DelNode, Inv, TypeOK, HandlerInv
  <2> QED
    BY <1>8, <2>2, <2>3 DEF DelNode, Inv, TypeOK, GenInv, FreshInv, IdleInv,
         NoLostReload
<1>9. CASE StartCore
  BY <1>9 DEF StartCore, Inv, TypeOK, GenInv, HandlerInv, FreshInv, IdleInv,
       NoLostReload
<1>10. CASE TakeReload
  BY <1>10 DEF TakeReload, Inv, TypeOK, GenInv, HandlerInv, FreshInv, IdleInv,
       NoLostReload
<1>11. CASE CloseCore
  BY <1>11 DEF CloseCore, Inv, TypeOK, GenInv, HandlerInv, FreshInv, IdleInv,
       NoLostReload
<1> QED
  BY <1>1, <1>2, <1>3, <1>4, <1>5, <1>6, <1>7, <1>8, <1>9, <1>10, <1>11 DEF Main

LEMMA StepInv == Inv /\ [Next]_vars => Inv'
<1> SUFFICES ASSUME Inv, [Next]_vars
             PROVE  Inv'
  OBVIOUS
<1>1. TypeOK'
  BY TypeStep DEF Inv
<1>2. CASE Main
  BY <1>1, <1>2, MainInv
<1>3. CASE ProcessEnds
  BY <1>1, <1>3, DieInv DEF ProcessEnds
<1>4. CASE Tasks
  BY <1>1, <1>4, TaskInv
<1>5. CASE \E n \in Node : EditNode(n)
  BY <1>1, <1>5 DEF EditNode, Inv, GenInv, HandlerInv, FreshInv, IdleInv,
       NoLostReload, Served, Limited, Fresh, Unstarted, Monitoring
<1>6. CASE EditFile
  BY <1>1, <1>6 DEF EditFile, Inv, GenInv, HandlerInv, FreshInv, IdleInv,
       NoLostReload, Served, Limited, Fresh, Unstarted, mainVars
<1>7. CASE UNCHANGED vars
  BY <1>1, <1>7 DEF vars, Inv, GenInv, HandlerInv, FreshInv, IdleInv,
       NoLostReload, Served, Limited, Fresh, Unstarted, Monitoring
<1> QED
  BY <1>2, <1>3, <1>4, <1>5, <1>6, <1>7 DEF Next

LEMMA Invariance == Spec => []Inv
<1>1. Init => Inv
  BY DownInv, FaultAssumption DEF Init
<1> QED
  BY <1>1, StepInv, PTL DEF Spec

-----------------------------------------------------------------------------
(* The theorems *)

(***************************************************************************)
(* Every variable keeps its type; in particular the reload channel never   *)
(* holds more than its one message, although nobody waits to send.         *)
(***************************************************************************)
THEOREM TypeCorrect == Spec => []TypeOK
BY Invariance, PTL DEF Inv

(***************************************************************************)
(* Dropping a reload request when one is queued loses nothing, for any     *)
(* number of nodes and of overlapping executions and any order of edits,   *)
(* polls, timeouts, crashes and reloads (the non-blocking sends of         *)
(* nodeInfoMonitor, ExecuteWithTimeout and serverHandle).                  *)
(***************************************************************************)
THEOREM ReloadNeverLost == Spec => []NoLostReload
BY Invariance, PTL DEF Inv

(***************************************************************************)
(* The steps of Controller.Start and Controller.Close keep the global      *)
(* limiter map in step with the inbounds, for any number of nodes: an      *)
(* inbound belongs to the generation main works on, whose core is up; its  *)
(* limiter is there before it opens and until main begins to close it,     *)
(* from when on the map has none for it, and never another generation's.   *)
(***************************************************************************)
THEOREM InboundLimited == Spec => []InboundHasLimiter
<1>1. Inv => InboundHasLimiter
  <2> SUFFICES ASSUME Inv
               PROVE  InboundHasLimiter
    OBVIOUS
  <2> USE DEF Inv, TypeOK, GenInv, HandlerInv, Served, Limited, Building, Running,
              Starting, Closing
  <2>1. ASSUME NEW g \in Gen, NEW n \in Node, <<g, n>> \in handlers
        PROVE  /\ g = gen
               /\ core[g] = "up"
               /\ limiters[n] = IF n = node /\ pc \in Closing THEN NoGen ELSE g
    BY <2>1, NodeAssumption
  <2>2. ASSUME NEW n \in Node, limiters[n] # NoGen
        PROVE  \/ <<limiters[n], n>> \in handlers
               \/ n = node /\ pc = "addNode" /\ limiters[n] = gen
    BY <2>2, NodeAssumption
  <2> QED
    BY <2>1, <2>2 DEF InboundHasLimiter
<1> QED
  BY <1>1, Invariance, PTL

(***************************************************************************)
(* Node.Close never finds a controller whose inbound is gone, so the panic *)
(* of a reload that cannot even close what it runs is out of reach.        *)
(***************************************************************************)
THEOREM CloseSucceeds == Spec => []CloseFindsInbound
<1>1. Inv => CloseFindsInbound
  BY DEF Inv, TypeOK, GenInv, HandlerInv, Served, Building, Running, Closing,
       CloseFindsInbound
<1> QED
  BY <1>1, Invariance, PTL

-----------------------------------------------------------------------------
(* The loops of a closed generation *)

\* Closing a controller tells its loops, and the core closes last.
ToldInv ==
  /\ \A n \in Node, k \in Kind :
          \/ pc = "coreClose"
          \/ pc \in Closing /\ n \notin todo
          \/ pc = "delNode" /\ n = node
       => stop[<<gen, n, k>>]
  /\ ClosedAreTold

LEMMA ToldDie ==
  ASSUME Die
  PROVE  ToldInv'
BY DEF Die, Empty, ToldInv, ClosedAreTold, Closing

\* No step of a goroutine brings back a loop that has ended.
LEMMA ToldTasks ==
  ASSUME Inv, ToldInv, Tasks
  PROVE  ToldInv'
<1>1. CASE Die
  BY <1>1, ToldDie
<1>2. CASE ~Die
  <2>1. UNCHANGED mainVars
    BY <1>2 DEF Tasks, ExecStep, Tick, StopLoop, Timeout, Expire, GetNodeInfo,
         SendReload, UseCore, Hang, Finish
  <2>2. ASSUME NEW g \in Gen, NEW n \in Node, NEW k \in Kind,
               at[Own(g, n, k)] = "off"
        PROVE  at'[Own(g, n, k)] = "off"
    <3>1. Own(g, n, k) \in Exec
      BY DEF Own, Exec
    <3>2. CASE \E h \in Gen, m \in Node, j \in Kind :
                 Tick(h, m, j) \/ StopLoop(h, m, j) \/ Timeout(h, m, j) \/ Expire(h, m, j)
      <4>1. PICK h \in Gen, m \in Node, j \in Kind :
                 Tick(h, m, j) \/ StopLoop(h, m, j) \/ Timeout(h, m, j) \/ Expire(h, m, j)
        BY <3>2
      <4>2. Own(g, n, k) # Own(h, m, j) /\ Own(g, n, k) # Late(h, m, j)
        BY <2>2, <4>1 DEF Tick, StopLoop, Timeout, Expire, Step, Own, Late
      <4> QED
        BY <2>2, <3>1, <4>1, <4>2
           DEF Tick, StopLoop, Timeout, Expire, Goto, Inv, TypeOK
    <3>3. CASE \E e \in Exec : ExecStep(e)
      <4>1. PICK e \in Exec : ExecStep(e)
        BY <3>3
      <4>2. Own(g, n, k) # e
        BY <1>2, <2>2, <4>1 DEF ExecStep, GetNodeInfo, SendReload, UseCore,
             UsesCore, Hang, Finish
      <4> QED
        BY <1>2, <2>2, <3>1, <4>1, <4>2 DEF ExecStep, GetNodeInfo, SendReload,
             UseCore, Hang, Finish, Return, Goto, Inv, TypeOK
    <3> QED
      BY <3>2, <3>3 DEF Tasks
  <2> QED
    BY <2>1, <2>2 DEF ToldInv, ClosedAreTold, mainVars
<1> QED
  BY <1>1, <1>2

LEMMA ToldMain ==
  ASSUME Inv, ToldInv, Main
  PROVE  ToldInv'
<1> USE DEF Closing
<1>1. ASSUME NEW g \in Gen, Load(g)
      PROVE  ToldInv'
  <2>1. \A h \in Gen, n \in Node, k \in Kind :
           /\ at'[Own(h, n, k)] = IF h = g THEN "off" ELSE at[Own(h, n, k)]
           /\ stop'[<<h, n, k>>] = IF h = g THEN FALSE ELSE stop[<<h, n, k>>]
    BY <1>1 DEF Load, Own, Exec, Task
  <2>2. \A h \in Gen : core'[h] = IF h = g THEN "new" ELSE core[h]
    BY <1>1 DEF Load, Inv, TypeOK
  <2>3. pc' = "fetch"
    BY <1>1 DEF Load
  <2>4. ASSUME NEW h \in Gen, NEW n \in Node, NEW k \in Kind,
               core'[h] = "closed", at'[Own(h, n, k)] # "off"
        PROVE  stop'[<<h, n, k>>]
    <3>1. h # g
      BY <2>2, <2>4
    <3>2. core[h] = "closed" /\ at[Own(h, n, k)] # "off"
      BY <2>1, <2>2, <2>4, <3>1
    <3> QED
      BY <2>1, <3>1, <3>2 DEF ToldInv, ClosedAreTold
  <2> QED
    BY <2>3, <2>4 DEF ToldInv, ClosedAreTold
<1>2. ASSUME NEW n \in Node, FetchInfo(n)
      PROVE  ToldInv'
  BY <1>2 DEF FetchInfo, ToldInv, ClosedAreTold
<1>3. ASSUME NEW n \in Node, AddLimiter(n)
      PROVE  ToldInv'
  BY <1>3 DEF AddLimiter, ToldInv, ClosedAreTold
<1>4. CASE AddNode
  BY <1>4 DEF AddNode, ToldInv, ClosedAreTold
<1>5. CASE StartTasks
  <2>1. core[gen] = "up" /\ core' = core
    BY <1>5 DEF StartTasks, Inv, GenInv, Running, Starting
  <2>2. ASSUME NEW e \in Exec, e[1] # gen
        PROVE  at'[e] = at[e]
    BY <1>5, <2>2 DEF StartTasks
  <2>3. \A g \in Gen, m \in Node, k \in Kind :
           Own(g, m, k) \in Exec /\ Own(g, m, k)[1] = g
    BY DEF Own, Exec
  <2> QED
    BY <1>5, <2>1, <2>2, <2>3 DEF StartTasks, ToldInv, ClosedAreTold
<1>6. ASSUME NEW n \in Node, DropLimiter(n)
      PROVE  ToldInv'
  BY <1>6 DEF DropLimiter, ToldInv, ClosedAreTold
<1>7. CASE StopTasks
  <2>1. \A t \in Task : stop'[t] <=> (t[1] = gen /\ t[2] = node) \/ stop[t]
    BY <1>7 DEF StopTasks
  <2>2. \A g \in Gen, m \in Node, k \in Kind : <<g, m, k>> \in Task
    BY DEF Task
  <2>3. gen \in Gen
    BY <1>7 DEF StopTasks, Inv, GenInv, Building, Running
  <2> QED
    BY <1>7, <2>1, <2>2, <2>3 DEF StopTasks, ToldInv, ClosedAreTold
<1>8. CASE DelNode
  <2>1. CASE Die
    BY <2>1, ToldDie
  <2>2. CASE ~Die
    <3>1. ASSUME NEW m \in Node,
                 pc' = "coreClose" \/ (pc' \in Closing /\ m \notin todo')
          PROVE  m = node \/ m \notin todo
      BY <1>8, <2>2, <3>1 DEF DelNode
    <3> QED
      BY <1>8, <2>2, <3>1 DEF DelNode, ToldInv, ClosedAreTold
  <2> QED
    BY <2>1, <2>2
<1>9. CASE StartCore
  BY <1>9 DEF StartCore, Inv, TypeOK, ToldInv, ClosedAreTold
<1>10. CASE TakeReload
  BY <1>10 DEF TakeReload, ToldInv, ClosedAreTold
<1>11. CASE CloseCore
  <2>1. /\ pc = "coreClose" /\ pc' = "load"
        /\ UNCHANGED <<stop, at>>
    BY <1>11 DEF CloseCore
  <2>2. \A g \in Gen : core'[g] = IF g = gen THEN "closed" ELSE core[g]
    BY <1>11 DEF CloseCore, Inv, TypeOK
  <2>3. ClosedAreTold'
    BY <2>1, <2>2 DEF ToldInv, ClosedAreTold
  <2> QED
    BY <2>1, <2>3 DEF ToldInv
<1> QED
  BY <1>1, <1>2, <1>3, <1>4, <1>5, <1>6, <1>7, <1>8, <1>9, <1>10, <1>11 DEF Main

(***************************************************************************)
(* Controller.Close reaches every task it started before the core closes:  *)
(* a loop that outlives its generation has been told to end.               *)
(***************************************************************************)
THEOREM ClosedLoopsAreTold == Spec => []ClosedAreTold
<1>1. Init => ToldInv
  BY DEF Init, Empty, ToldInv, ClosedAreTold, Closing
<1>2. Inv /\ ToldInv /\ [Next]_vars => ToldInv'
  <2>1. ASSUME ToldInv, UNCHANGED <<pc, todo, node, gen, core, stop, at>>
        PROVE  ToldInv'
    BY <2>1 DEF ToldInv, ClosedAreTold
  <2>2. ASSUME \/ \E n \in Node : EditNode(n)
               \/ EditFile
               \/ UNCHANGED vars
        PROVE  UNCHANGED <<pc, todo, node, gen, core, stop, at>>
    BY <2>2 DEF EditNode, EditFile, mainVars, vars
  <2> QED
    BY <2>1, <2>2, ToldTasks, ToldMain, ToldDie DEF Next, ProcessEnds
<1>3. ToldInv => ClosedAreTold
  BY DEF ToldInv
<1> QED
  BY <1>1, <1>2, <1>3, Invariance, PTL DEF Spec

-----------------------------------------------------------------------------
(* The refinement *)

LEMMA BarFree ==
  ASSUME pc = "down", handlers = {}, limiters = [n \in Node |-> NoGen]
  PROVE  Ports!Free
BY DEF Ports!Free, Phase, Closing

LEMMA BarDie ==
  ASSUME Die
  PROVE  Ports!Next
BY DEF Die, Empty, Ports!Next, Ports!End, Ports!Free, Phase, Closing

\* The inbounds registered are those of main's generation, node by node.
LEMMA HandlersAre ==
  ASSUME Inv, gen \in Gen
  PROVE  handlers = {<<gen, n>> : n \in {m \in Node : Served(m)}}
BY DEF Inv, TypeOK, HandlerInv

LEMMA BarMain ==
  ASSUME Inv, Main
  PROVE  Ports!Next \/ UNCHANGED Ports!vars
<1> USE NodeAssumption, NoGenAssumption DEF Phase, Closing
<1>1. ASSUME NEW g \in Gen, Load(g)
      PROVE  UNCHANGED Ports!vars
  BY <1>1 DEF Load, Ports!vars
<1>2. ASSUME NEW n \in Node, FetchInfo(n)
      PROVE  UNCHANGED Ports!vars
  BY <1>2 DEF FetchInfo, Ports!vars
<1>3. ASSUME NEW n \in Node, AddLimiter(n)
      PROVE  Ports!Limit(gen, n) /\ gen \in Gen
  BY <1>3 DEF AddLimiter, Inv, TypeOK, GenInv, HandlerInv, Served, Limited,
       Building, Running, Starting, Ports!Limit
<1>4. ASSUME AddNode
      PROVE  Ports!Open(gen, node) /\ gen \in Gen /\ node \in Node
  BY <1>4 DEF AddNode, Inv, TypeOK, GenInv, HandlerInv, Limited, Building,
       Running, Starting, Ports!Open
<1>5. ASSUME StartTasks
      PROVE  Ports!Serve \/ UNCHANGED Ports!vars
  <2>1. CASE todo = {node}
    <3>1. \A n \in Node : <<gen, n>> \in handlers /\ gen \in Gen
      BY <1>5, <2>1 DEF StartTasks, Inv, GenInv, HandlerInv, Served, Building,
           Running, Starting
    <3> QED
      BY <1>5, <2>1, <3>1 DEF StartTasks, Ports!Serve
  <2>2. CASE todo # {node}
    BY <1>5, <2>2 DEF StartTasks, Ports!vars
  <2> QED
    BY <2>1, <2>2
<1>6. ASSUME NEW n \in Node, DropLimiter(n)
      PROVE  Ports!Refuse(n)
  <2>1. gen \in Gen /\ node = NoNode
    BY <1>6 DEF DropLimiter, Inv, TypeOK, GenInv, Building, Running
  <2>2. handlers = {<<gen, m>> : m \in {m \in Node : Served(m)}}
    BY <2>1, HandlersAre
  <2>3. \A m \in Node : Served(m) => limiters[m] = gen
    BY <2>1 DEF Inv, HandlerInv, Limited
  <2>4. \A p \in handlers : limiters[p[2]] = p[1]
    BY <2>2, <2>3
  <2> QED
    BY <1>6, <2>4 DEF DropLimiter, Ports!Refuse
<1>7. ASSUME StopTasks
      PROVE  UNCHANGED Ports!vars
  BY <1>7 DEF StopTasks, Ports!vars
<1>8. ASSUME DelNode
      PROVE  Ports!Close(gen, node) /\ gen \in Gen /\ node \in Node
  <2>1. gen \in Gen /\ node \in todo /\ node \in Node /\ todo \subseteq Node
    BY <1>8 DEF DelNode, Inv, TypeOK, GenInv, Building, Running
  <2>2. handlers = {<<gen, m>> : m \in todo}
    BY <1>8, <2>1, HandlersAre DEF DelNode, Served, Starting
  <2>3. /\ <<gen, node>> \in handlers
        /\ handlers' = handlers \ {<<gen, node>>}
        /\ limiters' = limiters
    BY <1>8, <2>1, <2>2 DEF DelNode
  <2>4. limiters[node] = NoGen
    BY <1>8, <2>1 DEF DelNode, Inv, HandlerInv, Limited
  <2>5. handlers' = {} <=> todo = {node}
    <3>1. handlers' = {<<gen, m>> : m \in todo \ {node}}
      BY <2>2, <2>3
    <3>2. todo \ {node} = {} <=> todo = {node}
      BY <2>1
    <3> QED
      BY <3>1, <3>2
  <2>6. Phase = "closing" /\ Phase' = IF todo = {node} THEN "opening" ELSE "closing"
    BY <1>8, <2>3 DEF DelNode
  <2> QED
    BY <2>1, <2>3, <2>4, <2>5, <2>6 DEF Ports!Close
<1>9. CASE TakeReload
  BY <1>9 DEF TakeReload, Ports!Next, Ports!TurnOver
<1>10. CASE StartCore \/ CloseCore
  BY <1>10 DEF StartCore, CloseCore, Ports!vars
<1> QED
  BY <1>1, <1>2, <1>3, <1>4, <1>5, <1>6, <1>7, <1>8, <1>9, <1>10
     DEF Main, Ports!Next

(***************************************************************************)
(* Reload implements Handover, for any nodes, tasks and generations and    *)
(* whatever goroutines of closed generations still do: their steps leave   *)
(* the ports alone or end the process.                                     *)
(***************************************************************************)
THEOREM PortsAreHandedOver == Spec => ImplementsHandover
<1>1. Init => Ports!Init
  BY BarFree DEF Init, Empty, Ports!Init
<1>2. Inv /\ [Next]_vars => [Ports!Next]_(Ports!vars)
  <2>1. ASSUME Tasks, ~Die
        PROVE  UNCHANGED Ports!vars
    BY <2>1 DEF Tasks, ExecStep, Tick, StopLoop, Timeout, Expire, GetNodeInfo,
         SendReload, UseCore, Hang, Finish, mainVars, Phase, Ports!vars
  <2>2. ASSUME \/ \E n \in Node : EditNode(n)
               \/ EditFile
               \/ UNCHANGED vars
        PROVE  UNCHANGED Ports!vars
    BY <2>2 DEF EditNode, EditFile, mainVars, vars, Phase, Ports!vars
  <2> QED
    BY <2>1, <2>2, BarMain, BarDie DEF Next, ProcessEnds
<1> QED
  BY <1>1, <1>2, Invariance, PTL DEF Spec, ImplementsHandover, Ports!Spec

(***************************************************************************)
(* At any time one generation has the ports.  Each has its own limiter,    *)
(* but for at most one, which is about to close and has none; and main     *)
(* waits in its select only when every node serves.                        *)
(***************************************************************************)
THEOREM OneGenerationServes == Spec => []Handed
<1>1. Inv => Handed
  <2> SUFFICES ASSUME Inv
               PROVE  Ports!Handed
    BY DEF Handed
  <2>0. CASE gen \notin Gen
    <3>1. handlers = {} /\ Phase = "opening"
      BY <2>0 DEF Inv, TypeOK, GenInv, HandlerInv, Building, Running, Closing, Phase
    <3> QED
      BY <3>1 DEF Ports!Handed
  <2>1. CASE gen \in Gen
    <3>1. \A p \in handlers : p[1] = gen /\ p[2] \in Node /\ Served(p[2])
      BY <2>1, HandlersAre
    <3>2. ASSUME NEW n \in Node, Served(n)
          PROVE  /\ limiters[n] \in {gen, NoGen}
                 /\ limiters[n] = NoGen => n = node /\ pc \in Closing
      BY <2>1, <3>2, NodeAssumption, NoGenAssumption
         DEF Inv, TypeOK, HandlerInv, Served, Limited, Starting, Closing
    <3>3. \A p, q \in handlers :
            limiters[p[2]] = NoGen /\ limiters[q[2]] = NoGen => p = q
      <4>1. handlers \subseteq Gen \X Node
        BY DEF Inv, TypeOK
      <4> QED
        BY <3>1, <3>2, <4>1
    <3>4. Phase = "open" => \A n \in Node : <<gen, n>> \in handlers
      BY <2>1 DEF Inv, HandlerInv, Served, Phase
    <3>5. pc \in Closing => Phase = "closing"
      BY DEF Phase, Closing
    <3> QED
      BY <2>1, <3>1, <3>2, <3>3, <3>4, <3>5 DEF Ports!Handed
  <2> QED
    BY <2>0, <2>1
<1> QED
  BY <1>1, Invariance, PTL

=============================================================================
