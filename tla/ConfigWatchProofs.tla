-------------------------- MODULE ConfigWatchProofs ---------------------------
(***************************************************************************)
(* Proofs about ConfigWatch, for any debounce longer than the delay.       *)
(*                                                                         *)
(* The argument is one of clocks: the goroutine of the last accepted event *)
(* has as long to sleep as the age of that event is short of the delay.    *)
(***************************************************************************)
EXTENDS ConfigWatch, TLAPS

\* The clocks of the watcher, without the variables it only passes on.
Clocks ==
  /\ age \in 0..Debounce
  /\ \/ sleepers = <<>>
     \/ age <= Delay /\ sleepers = <<Delay - age>>

\* What the other variables hold.
Others ==
  /\ file \in Content \cup {Torn}
  /\ watched \in BOOLEAN
  /\ events \in 0..MaxEvents
  /\ queued \in 0..1
  /\ main \in {"down", "boot", "select", "load", "build"}
  /\ loaded \in Content \cup {Torn}

Inv == Clocks /\ Others

LEMMA InvTypes == Inv => TypeOK
<1> SUFFICES ASSUME Inv
             PROVE  TypeOK
  OBVIOUS
<1>1. CASE sleepers = <<>>
  BY <1>1 DEF Inv, TypeOK, Clocks, Others
<1>2. CASE age <= Delay /\ sleepers = <<Delay - age>>
  <2>1. Delay - age \in 0..Delay
    BY <1>2, DelayAssumption DEF Inv, Clocks
  <2>2. sleepers \in Seq(0..Delay)
    BY <1>2, <2>1
  <2> QED
    BY <2>2 DEF Inv, TypeOK, Clocks, Others
<1> QED
  BY <1>1, <1>2 DEF Inv, Clocks

LEMMA StepClocks == Clocks /\ [Next]_vars => Clocks'
<1> SUFFICES ASSUME Clocks, [Next]_vars
             PROVE  Clocks'
  OBVIOUS
<1>0. Delay \in Nat /\ Debounce \in Nat /\ Delay < Debounce
  BY DelayAssumption
<1>1. CASE Receive
  <2>1. CASE age < Debounce
    BY <1>1, <2>1 DEF Receive, Clocks
  <2>2. CASE ~(age < Debounce)
    \* The last accepted event is older than any sleep.
    <3>1. age = Debounce
      BY <1>0, <2>2 DEF Clocks
    <3>2. sleepers = <<>>
      BY <1>0, <3>1 DEF Clocks
    <3>3. age' = 0 /\ sleepers' = <<Delay>>
      BY <1>1, <2>2, <3>2 DEF Receive
    <3> QED
      BY <1>0, <3>3 DEF Clocks
  <2> QED
    BY <2>1, <2>2
<1>2. CASE Signal
  <2>1. sleepers # <<>> /\ sleepers' = Tail(sleepers) /\ age' = age
    BY <1>2 DEF Signal, Due
  <2>2. PICK d : sleepers = <<d>>
    BY <2>1 DEF Clocks
  <2>3. Tail(<<d>>) = <<>>
    OBVIOUS
  <2> QED
    BY <2>1, <2>2, <2>3 DEF Clocks
<1>3. CASE Tick
  <2>1. CASE sleepers = <<>>
    BY <1>0, <1>3, <2>1 DEF Tick, Clocks
  <2>2. CASE age <= Delay /\ sleepers = <<Delay - age>>
    <3>1. Delay - age # 0
      BY <1>3, <2>2 DEF Tick, Due
    <3>2. age' = age + 1 /\ age' \in 0..Debounce /\ age' <= Delay
      BY <1>0, <1>3, <2>2, <3>1 DEF Tick, Clocks
    <3>3. sleepers' = <<Delay - age'>>
      BY <1>0, <1>3, <2>2, <3>2 DEF Tick, Clocks
    <3> QED
      BY <3>2, <3>3 DEF Clocks
  <2> QED
    BY <2>1, <2>2 DEF Clocks
<1>4. CASE Load \/ Crash
  <2>1. \/ age' = Debounce /\ sleepers' = <<>>
        \/ age' = age /\ sleepers' = sleepers
    BY <1>4 DEF Load, Crash, Die
  <2>2. CASE age' = Debounce /\ sleepers' = <<>>
    BY <1>0, <2>2 DEF Clocks
  <2>3. CASE age' = age /\ sleepers' = sleepers
    BY <2>3 DEF Clocks
  <2> QED
    BY <2>1, <2>2, <2>3
<1>5. CASE UNCHANGED <<age, sleepers>>
  BY <1>5 DEF Clocks
<1> QED
  BY <1>1, <1>2, <1>3, <1>4, <1>5
     DEF Next, Watcher, Main, Write, Replace, Boot, StartWatch, OtherReload,
         TakeReload, Rebuilt, vars

LEMMA StepOthers == Others /\ [Next]_vars => Others'
<1> SUFFICES ASSUME Others, [Next]_vars
             PROVE  Others'
  OBVIOUS
<1>1. file' \in Content \cup {Torn} /\ loaded' \in Content \cup {Torn}
  BY DEF Others, Next, Watcher, Main, vars, Write, Replace, Receive, Signal,
         Tick, Boot, StartWatch, OtherReload, TakeReload, Load, Rebuilt,
         Crash, Die
<1>2. watched' \in BOOLEAN
  BY Zenon
     DEF Others, Next, Watcher, Main, vars, Write, Replace, Receive, Signal,
         Tick, Boot, StartWatch, OtherReload, TakeReload, Load, Rebuilt,
         Crash, Die
<1>3. events' \in 0..MaxEvents
  BY EventsAssumption
     DEF Others, Next, Watcher, Main, vars, Write, Replace, Notify, Receive,
         Signal, Tick, Boot, StartWatch, OtherReload, TakeReload, Load, Rebuilt,
         Crash, Die
<1>4. queued' \in 0..1
  BY DEF Others, Next, Watcher, Main, vars, Write, Replace, Receive, Signal,
         Tick, Boot, StartWatch, OtherReload, TakeReload, Load, Rebuilt,
         Crash, Die
<1>5. main' \in {"down", "boot", "select", "load", "build"}
  BY DEF Others, Next, Watcher, Main, vars, Write, Replace, Receive, Signal,
         Tick, Boot, StartWatch, OtherReload, TakeReload, Load, Rebuilt,
         Crash, Die
<1> QED
  BY <1>1, <1>2, <1>3, <1>4, <1>5 DEF Others

LEMMA Invariance == Spec => []Inv
<1>1. Init => Inv
  <2> SUFFICES ASSUME Init
               PROVE  Clocks /\ Others
    BY DEF Inv
  <2>1. Clocks
    BY DelayAssumption DEF Init, Clocks
  <2>2. watched \in BOOLEAN
    BY Zenon DEF Init
  <2>3. Others
    BY <2>2, EventsAssumption DEF Init, Others
  <2> QED
    BY <2>1, <2>3
<1>2. Inv /\ [Next]_vars => Inv'
  BY StepClocks, StepOthers DEF Inv
<1> QED
  BY <1>1, <1>2, PTL DEF Spec

(***************************************************************************)
(* Every variable of the watcher keeps its type; the age of the last       *)
(* accepted event and the time left to sleep stay within their ranges.     *)
(***************************************************************************)
THEOREM TypeCorrect == Spec => []TypeOK
BY Invariance, InvTypes, PTL

(***************************************************************************)
(* The debounce of Conf.Watch (10 s) admits no second delayed goroutine    *)
(* while one sleeps (5 s), whatever the events: for any two durations the  *)
(* shorter of which is the delay.                                          *)
(***************************************************************************)
THEOREM OneSleeperAtATime == Spec => []OneSleeper
<1>1. Inv => OneSleeper
  <2> SUFFICES ASSUME Inv
               PROVE  Len(sleepers) <= 1
    BY DEF OneSleeper
  <2>1. CASE sleepers = <<>>
    BY <2>1
  <2>2. CASE sleepers = <<Delay - age>>
    BY <2>2
  <2> QED
    BY <2>1, <2>2 DEF Inv, Clocks
<1> QED
  BY <1>1, Invariance, PTL

(***************************************************************************)
(* No edit made in time is dropped on its way to main, whatever the        *)
(* durations and however edits, events, reloads and restarts interleave:   *)
(* each station hands it to the next, and the last one reads the file.     *)
(***************************************************************************)
THEOREM NoEditInTimeIsLost == Spec => EditNotLost
<1>1. ASSUME Inv, Next, Pending, ~Pending'
      PROVE  loaded' = file' \/ main' = "down"
  <2> USE <1>1 DEF Pending, InTime
  <2>1. CASE \/ \E v \in Content \cup {Torn} : Write(v)
             \/ \E v \in Content : Replace(v)
    BY <2>1, EventsAssumption DEF Write, Replace, Notify, Inv, Others
  <2>2. CASE Receive
    <3>1. CASE age < Debounce
      BY <2>2, <3>1, DelayAssumption DEF Receive, Inv, Clocks
    <3>2. CASE ~(age < Debounce)
      <4>1. sleepers' # <<>>
        BY <2>2, <3>2, DelayAssumption DEF Receive, Inv, Clocks
      <4> QED
        BY <4>1
    <3> QED
      BY <3>1, <3>2
  <2>3. CASE Signal
    BY <2>3 DEF Signal
  <2>4. CASE Tick
    <3>1. sleepers # <<>> => sleepers' # <<>>
      BY <2>4 DEF Tick, Inv, Clocks
    <3>2. age = Debounce => age' = Debounce
      BY <2>4, DelayAssumption DEF Tick
    <3> QED
      BY <2>4, <3>1, <3>2 DEF Tick
  <2>5. CASE Main
    BY <2>5 DEF Main, Boot, StartWatch, TakeReload, Load, Rebuilt, Die
  <2>6. CASE OtherReload
    BY <2>6 DEF OtherReload
  <2>7. CASE Crash
    BY <2>7 DEF Crash, Die
  <2> QED
    BY <2>1, <2>2, <2>3, <2>4, <2>5, <2>6, <2>7 DEF Next, Watcher
<1>2. Inv /\ [Next]_vars =>
        [Pending /\ ~Pending' => loaded' = file' \/ main' = "down"]_vars
  BY <1>1
<1> QED
  BY <1>2, Invariance, PTL DEF Spec, EditNotLost

=============================================================================
