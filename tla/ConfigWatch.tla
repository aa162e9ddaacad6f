----------------------------- MODULE ConfigWatch ------------------------------
(***************************************************************************)
(* The configuration file: its editor, the goroutine of Conf.Watch with    *)
(* its debounce, the delayed goroutine it starts for an event, and main,   *)
(* which reads the file at boot and again in reload().                     *)
(*                                                                         *)
(* Time advances in seconds.  Timers fire in the second they are due; how  *)
(* long an event waits to be received and main takes to react is free.     *)
(***************************************************************************)
EXTENDS Naturals, Sequences

CONSTANTS
  Content,    \* complete configuration files
  Torn,       \* a file caught half-written: it does not parse
  Debounce,   \* events this close to the last accepted one are ignored
  Delay,      \* an accepted event signals the reload after this long
  MaxEvents   \* bound on events waiting in the watcher

ASSUME TornAssumption   == Torn \notin Content
ASSUME DelayAssumption  == Delay \in Nat /\ Debounce \in Nat /\ Delay < Debounce
ASSUME EventsAssumption == MaxEvents \in Nat \ {0}

VARIABLES
  file,       \* what the file holds
  watched,    \* the watcher still watches it
  events,     \* events not received yet
  age,        \* seconds since "pre", up to Debounce
  sleepers,   \* seconds left to the goroutines in their Sleep, oldest first
  queued,     \* messages in reloadCh
  main,       \* where the main goroutine is
  loaded      \* the configuration main runs

vars == <<file, watched, events, age, sleepers, queued, main, loaded>>

TypeOK ==
  /\ file \in Content \cup {Torn}
  /\ watched \in BOOLEAN
  /\ events \in 0..MaxEvents
  /\ age \in 0..Debounce
  /\ sleepers \in Seq(0..Delay)
  /\ queued \in 0..1
  /\ main \in {"down", "boot", "select", "load", "build"}
  /\ loaded \in Content \cup {Torn}

Init ==
  /\ file \in Content \cup {Torn}
  /\ watched = FALSE
  /\ events = 0
  /\ age = Debounce
  /\ sleepers = <<>>
  /\ queued = 0
  /\ main = "down"
  /\ loaded = Torn

-----------------------------------------------------------------------------
(* The editor *)

\* One more event, unless nobody watches.
Notify == events' = IF watched /\ events < MaxEvents THEN events + 1 ELSE events

\* The file is written in place, in one go or after it was truncated.
Write(v) ==
  /\ v # file
  /\ file' = v
  /\ Notify
  /\ UNCHANGED <<watched, age, sleepers, queued, main, loaded>>

\* The file is replaced by another: the watch goes with the old one.
Replace(v) ==
  /\ file' = v
  /\ Notify
  /\ watched' = FALSE
  /\ UNCHANGED <<age, sleepers, queued, main, loaded>>

-----------------------------------------------------------------------------
(* Conf.Watch *)

\* Mutation of Receive: the debounce is shorter than the delay.
ReceiveEarly ==
  /\ events > 0
  /\ events' = events - 1
  /\ IF age < Delay - 1
     THEN UNCHANGED <<age, sleepers>>
     ELSE /\ age' = 0
          /\ sleepers' = Append(sleepers, Delay)
  /\ UNCHANGED <<file, watched, queued, main, loaded>>

\* case e := <-watcher.Events, for anything but a change of mode.
Receive ==
  /\ events > 0
  /\ events' = events - 1
  /\ IF age < Debounce
     THEN UNCHANGED <<age, sleepers>>
     ELSE /\ age' = 0
          /\ sleepers' = Append(sleepers, Delay)
  /\ UNCHANGED <<file, watched, queued, main, loaded>>

\* A delayed goroutine is due.
Due == sleepers # <<>> /\ Head(sleepers) = 0

\* Mutation of Signal: the channel holds more than one message.
SignalTwice ==
  /\ Due
  /\ sleepers' = Tail(sleepers)
  /\ queued' = queued + 1
  /\ UNCHANGED <<file, watched, events, age, main, loaded>>

\* Mutation of Signal: an unbuffered channel, to which nothing can be sent
\* unless main is waiting in its select.
SignalUnbuffered ==
  /\ Due
  /\ sleepers' = Tail(sleepers)
  /\ queued' = IF main = "select" THEN 1 ELSE queued
  /\ UNCHANGED <<file, watched, events, age, main, loaded>>

\* The delayed goroutine reloads into a Conf nobody reads any more, and calls
\* reload(): a send that does not block.
Signal ==
  /\ Due
  /\ sleepers' = Tail(sleepers)
  /\ queued' = 1
  /\ UNCHANGED <<file, watched, events, age, main, loaded>>

Tick ==
  /\ main # "down"
  /\ ~Due
  /\ age' = IF age < Debounce THEN age + 1 ELSE age
  /\ sleepers' = [i \in DOMAIN sleepers |-> sleepers[i] - 1]
  /\ UNCHANGED <<file, watched, events, queued, main, loaded>>

-----------------------------------------------------------------------------
(* main *)

\* serverHandle reads the file; a file that does not parse ends the process.
Boot ==
  /\ main = "down"
  /\ file # Torn
  /\ loaded' = file
  /\ main' = "boot"
  /\ UNCHANGED <<file, watched, events, age, sleepers, queued>>

\* Nodes and core are up: the file is watched from here on.
StartWatch ==
  /\ main = "boot"
  /\ watched' = TRUE
  /\ main' = "select"
  /\ UNCHANGED <<file, events, age, sleepers, queued, loaded>>

\* A monitor or an expired deadline asks for a reload.
OtherReload ==
  /\ main \in {"select", "load", "build"}
  /\ queued' = 1
  /\ UNCHANGED <<file, watched, events, age, sleepers, main, loaded>>

TakeReload ==
  /\ main = "select"
  /\ queued = 1
  /\ queued' = 0
  /\ main' = "load"
  /\ UNCHANGED <<file, watched, events, age, sleepers, loaded>>

\* The process ends with its watcher and goroutines; the service manager
\* starts it again.
Die ==
  /\ main' = "down"
  /\ watched' = FALSE
  /\ events' = 0
  /\ age' = Debounce
  /\ sleepers' = <<>>
  /\ queued' = 0
  /\ loaded' = Torn
  /\ UNCHANGED file

\* reload() has closed everything when it reads the file, and panics if that
\* fails.
Load ==
  /\ main = "load"
  /\ IF file = Torn
     THEN Die
     ELSE /\ main' = "build"
          /\ loaded' = file
          /\ UNCHANGED <<file, watched, events, age, sleepers, queued>>

\* reload() has built and started the nodes and the core of what it read.
Rebuilt ==
  /\ main = "build"
  /\ main' = "select"
  /\ UNCHANGED <<file, watched, events, age, sleepers, queued, loaded>>

\* Any panic, at any time.
Crash == main # "down" /\ Die

Main    == Boot \/ StartWatch \/ TakeReload \/ Load \/ Rebuilt
Watcher == Receive \/ Signal

Next ==
  \/ \E v \in Content \cup {Torn} : Write(v)
  \/ \E v \in Content : Replace(v)
  \/ Watcher \/ Tick \/ Main \/ OtherReload \/ Crash

Spec == Init /\ [][Next]_vars

\* Time passes and goroutines that can run do; the editor need not act.
FairSpec ==
  Spec /\ WF_vars(Receive) /\ WF_vars(Signal) /\ WF_vars(Tick) /\ WF_vars(Main)

-----------------------------------------------------------------------------
(* Properties *)

(***************************************************************************)
(* The debounce admits one delayed goroutine at a time: two of them would  *)
(* rewrite the shared Conf at once and reload twice for one edit.          *)
(***************************************************************************)
OneSleeper == Len(sleepers) <= 1

(***************************************************************************)
(* An edit made while an event can be accepted, or before the delayed      *)
(* goroutine of the last accepted one has woken, takes effect: main loads  *)
(* it, unless it is edited again or the process ends.                      *)
(***************************************************************************)
InTime == sleepers # <<>> \/ (events > 0 /\ age = Debounce)

EditInTimeLoaded ==
  \A v \in Content :
    (InTime /\ file = v) ~> (loaded = v \/ file # v \/ main = "down")

(***************************************************************************)
(* Such an edit is pending, in the event, the sleeping goroutine, the      *)
(* message or main's way to the file, and stops being so in one way only:  *)
(* main loads what the file holds at that moment, the last edit included.  *)
(* Neither the debounce nor the channel that is full loses it.             *)
(***************************************************************************)
Pending == InTime \/ queued = 1 \/ main = "load"

EditNotLost ==
  [][Pending /\ ~Pending' => loaded' = file' \/ main' = "down"]_vars

(***************************************************************************)
(* "On file change, just signal reload" (cmd/server.go:108): every change  *)
(* of the watched file leads to a load of what it holds.                   *)
(***************************************************************************)
EveryEditLoaded ==
  \A v \in Content :
    (watched /\ file = v) ~> (loaded = v \/ file # v \/ main = "down")

=============================================================================
