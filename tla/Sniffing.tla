------------------------------- MODULE Sniffing -------------------------------
(***************************************************************************)
(* What DefaultDispatcher does with one connection between getLink and the *)
(* outbound: cachedReader collects what the client writes, the sniffers    *)
(* look at it, and the outbound reads the cache first and then the reader. *)
(*                                                                         *)
(* Packets are numbered.  A sniffer is asked about everything in the cache *)
(* (more than 32767 bytes do not occur).  No fake DNS engine is configured *)
(* (getCore), so no metadata sniffer answers and no result is composite.   *)
(***************************************************************************)
EXTENDS Naturals, Sequences

CONSTANTS
  Content,    \* what clients say, a set of conversations
  Silent,     \* no connection
  MaxPacket,  \* bound on the packets of a conversation
  Wait,       \* the deadline of sniffing
  Second      \* how long CounterReader waits, whatever it is told

Sniffer == {"http", "tls", "tcp-bittorrent", "quic", "utp"}

\* The sniffer that recognises a conversation and how many packets it needs,
\* what it answers before, what the others answer, and whether the result has
\* a domain.
Conversation ==
  [net : {"tcp", "udp"}, by : Sniffer, at : 1..(MaxPacket + 1),
   until : {"noClue", "needMoreData"}, others : {"noClue", "no"},
   domain : BOOLEAN]

ASSUME ContentAssumption == Content \subseteq Conversation /\ Silent \notin Content
ASSUME TimeAssumption    == Wait \in Nat /\ Second \in Nat /\ MaxPacket \in Nat

VARIABLES
  conv,       \* what the client says
  stream,     \* DispatchLink: the client's reader is a CounterReader, no pipe
  pc,         \* where the goroutine of Dispatch, or DispatchLink, is
  sent,       \* packets the client has written
  ended,      \* the client has closed
  cut,        \* the pipe has been interrupted
  reader,     \* what can be read from the pipe or the client
  cache,      \* cachedReader.cache
  sniffers,   \* Sniffer.sniffer
  attempts,   \* totalAttempt
  time,       \* cacheDeadline, 0 when it has passed
  protocol,   \* content.Protocol, by its sniffer
  target,     \* ob.Target: the address asked for, or the domain
  out,        \* what the outbound has read
  taken,      \* history: packets that were read for sniffing
  spent       \* history: how long sniffing has taken

sniffVars == <<conv, stream, pc, sent, ended, cut, reader, cache, sniffers,
               attempts, time, protocol, target, out, taken, spent>>
client == <<conv, stream, sent, ended, cut>>

SniffTypeOK ==
  /\ conv \in Content \cup {Silent}
  /\ stream \in BOOLEAN
  /\ pc \in {"none", "loop", "sniff", "route", "forward", "closed"}
  /\ pc # "none" => conv \in Content
  /\ sent \in 0..MaxPacket
  /\ ended \in BOOLEAN
  /\ cut \in BOOLEAN
  /\ reader \in Seq(1..MaxPacket)
  /\ cache \in Seq(1..MaxPacket)
  /\ sniffers \subseteq Sniffer
  /\ attempts \in 0..2
  /\ time \in 0..Wait
  /\ protocol \in Sniffer \cup {"none"}
  /\ target \in {"asked", "domain"}
  /\ out \in Seq(1..MaxPacket)
  /\ taken \in 0..MaxPacket
  /\ spent \in Nat

SniffInit ==
  /\ conv = Silent
  /\ stream = FALSE
  /\ pc = "none"
  /\ sent = 0
  /\ ended = FALSE
  /\ cut = FALSE
  /\ reader = << >>
  /\ cache = << >>
  /\ sniffers = Sniffer
  /\ attempts = 0
  /\ time = Wait
  /\ protocol = "none"
  /\ target = "asked"
  /\ out = << >>
  /\ taken = 0
  /\ spent = 0

-----------------------------------------------------------------------------
(* The client, and the deletion of its user *)

\* Dispatch or DispatchLink is called, with the sniffing that buildInbound
\* configures: enabled, with content.
Begin ==
  /\ pc = "none"
  /\ conv' \in Content
  /\ stream' \in BOOLEAN
  /\ pc' = "loop"
  /\ UNCHANGED <<sent, ended, cut, reader, cache, sniffers, attempts, time,
                 protocol, target, out, taken, spent>>

Send ==
  /\ pc \notin {"none", "closed"}
  /\ ~ended /\ ~cut
  /\ sent < MaxPacket
  /\ sent' = sent + 1
  /\ reader' = Append(reader, sent')
  /\ UNCHANGED <<conv, stream, pc, ended, cut, cache, sniffers, attempts, time,
                 protocol, target, out, taken, spent>>

End ==
  /\ pc \notin {"none", "closed"}
  /\ ~ended
  /\ ended' = TRUE
  /\ UNCHANGED <<conv, stream, pc, sent, cut, reader, cache, sniffers, attempts,
                 time, protocol, target, out, taken, spent>>

\* LinkManager.CloseAll interrupts the pipe, whose content is gone; it cannot
\* interrupt a CounterReader.
Interrupt ==
  /\ pc \notin {"none", "closed"}
  /\ ~stream /\ ~cut
  /\ cut' = TRUE
  /\ reader' = << >>
  /\ UNCHANGED <<conv, stream, pc, sent, ended, cache, sniffers, attempts, time,
                 protocol, target, out, taken, spent>>

-----------------------------------------------------------------------------
(* sniffer: the loop *)

\* The next read waits for what is left of the deadline, or for a second.
Patience == IF stream THEN Second ELSE time

Minus(d) == IF d < time THEN time - d ELSE 0

\* Mutation of Takes: every read has the whole deadline for itself.
TakesAll(d) == spent' = spent + d /\ UNCHANGED time

Takes(d) ==
  /\ time' = Minus(d)
  /\ spent' = spent + d

\* Mutation of Cache: what was read before is not kept.
CacheLast ==
  /\ pc = "loop"
  /\ reader # << >>
  /\ \E d \in 0..Patience : Takes(d)
  /\ cache' = reader
  /\ taken' = taken + Len(reader)
  /\ reader' = << >>
  /\ pc' = "sniff"
  /\ UNCHANGED <<client, sniffers, attempts, protocol, target, out>>

\* cachedReader.Cache: everything that is there, behind what came before.
Cache ==
  /\ pc = "loop"
  /\ reader # << >>
  /\ \E d \in 0..Patience : Takes(d)
  /\ cache' = cache \o reader
  /\ taken' = taken + Len(reader)
  /\ reader' = << >>
  /\ pc' = "sniff"
  /\ UNCHANGED <<client, sniffers, attempts, protocol, target, out>>

\* Nothing has come: an error from a pipe, an empty read or an error from a
\* TimeoutWrapperReader.
CacheTimeout ==
  /\ pc = "loop"
  /\ reader = << >> /\ ~ended /\ ~cut
  /\ Takes(Patience)
  /\ \/ pc' = "route"
     \/ stream /\ pc' = "sniff"
  /\ UNCHANGED <<client, reader, cache, sniffers, attempts, protocol, target, out, taken>>

\* The client is gone, or the context is done.
CacheError ==
  /\ pc = "loop"
  /\ pc' = "route"
  /\ UNCHANGED <<client, reader, cache, sniffers, attempts, time, protocol, target,
                 out, taken, spent>>

Network(s) == IF s \in {"quic", "utp"} THEN "udp" ELSE "tcp"

Answer(s) ==
  IF s # conv.by THEN conv.others
  ELSE IF Len(cache) < conv.at THEN conv.until
  ELSE "result"

Asked == {s \in sniffers : Network(s) = conv.net}

\* A sniffer that needs more data is not among them.
Clueless == {s \in Asked : Answer(s) = "noClue"}

\* The protocols whose domain takes the place of the address.
DestOverride == {"http", "tls", "quic"}

shouldOverride(s) == s \in DestOverride /\ conv.domain

\* Mutation of NextAttempt: one attempt too many.
NextAttemptLate ==
  /\ attempts' = attempts + 1
  /\ pc' = IF attempts' > 2 \/ time = 0 THEN "route" ELSE "loop"

NextAttempt ==
  /\ attempts' = attempts + 1
  /\ pc' = IF attempts' >= 2 \/ time = 0 THEN "route" ELSE "loop"

\* Sniffer.Sniff over the cache, and what the loop makes of its answer.
Sniff ==
  /\ pc = "sniff"
  /\ \/ /\ cache = << >>
        /\ NextAttempt
        /\ UNCHANGED <<sniffers, protocol, target>>
     \/ /\ cache # << >>
        /\ \E s \in Asked :
             /\ Answer(s) = "result"
             /\ protocol' = s
             /\ target' = IF shouldOverride(s) THEN "domain" ELSE "asked"
        /\ pc' = "route"
        /\ UNCHANGED <<sniffers, attempts>>
     \/ /\ cache # << >>
        /\ \A s \in Asked : Answer(s) # "result"
        /\ IF Clueless # {}
           THEN sniffers' = Clueless /\ NextAttempt
           ELSE pc' = "route" /\ UNCHANGED <<sniffers, attempts>>
        /\ UNCHANGED <<protocol, target>>
  /\ UNCHANGED <<client, reader, cache, time, out, taken, spent>>

-----------------------------------------------------------------------------
(* routedDispatch and the outbound *)

\* Without an outbound the link is closed, and the cache dropped; of readers
\* cachedReader interrupts only a pipe.
RoutedDispatch(closed) ==
  /\ pc = "route"
  /\ IF closed
     THEN /\ pc' = "closed"
          /\ cache' = << >>
          /\ IF stream THEN UNCHANGED <<reader, cut>> ELSE reader' = << >> /\ cut' = TRUE
     ELSE /\ pc' = "forward"
          /\ UNCHANGED <<reader, cut, cache>>
  /\ UNCHANGED <<conv, stream, sent, ended, sniffers, attempts, time, protocol,
                 target, out, taken, spent>>

\* Mutation of Read: the cache is for the sniffers only.
ReadOn ==
  /\ pc = "forward"
  /\ \/ reader # << >> /\ out' = out \o reader /\ reader' = << >> /\ UNCHANGED cache
     \/ reader = << >> /\ cache # << >> /\ out' = out \o cache /\ cache' = << >>
        /\ UNCHANGED reader
  /\ UNCHANGED <<client, pc, sniffers, attempts, time, protocol, target, taken, spent>>

\* cachedReader.ReadMultiBuffer.
Read ==
  /\ pc = "forward"
  /\ \/ cache # << >> /\ out' = out \o cache /\ cache' = << >> /\ UNCHANGED reader
     \/ cache = << >> /\ reader # << >> /\ out' = out \o reader /\ reader' = << >>
        /\ UNCHANGED cache
  /\ UNCHANGED <<client, pc, sniffers, attempts, time, protocol, target, taken, spent>>

SniffSteps ==
  Send \/ End \/ Interrupt \/ Cache \/ CacheTimeout \/ CacheError \/ Sniff \/ Read

SniffNext == Begin \/ SniffSteps \/ \E closed \in BOOLEAN : RoutedDispatch(closed)

SniffSpec == SniffInit /\ [][SniffNext]_sniffVars

-----------------------------------------------------------------------------
(* Properties *)

Numbers(n) == [i \in 1..n |-> i]

(***************************************************************************)
(* Sniffing takes nothing away from the outbound: what it has read, then   *)
(* the cache and then the reader are the packets that the client wrote, in *)
(* order and once each; after an interruption they are the first of them.  *)
(***************************************************************************)
InOrder ==
  pc # "closed" =>
    IF cut THEN \E n \in 0..sent : out \o cache = Numbers(n)
           ELSE out \o cache \o reader = Numbers(sent)

(***************************************************************************)
(* The sniffers are invisible to the client and to the outbound: step by   *)
(* step a sniffed connection is one that is not sniffed (the two branches  *)
(* of Dispatch on sniffingRequest.Enabled), with the cache as the front of *)
(* its queue.  What a connection drops is the cache and a reader it closes.*)
(***************************************************************************)
Plain == INSTANCE Pipe WITH
  over  <- cut \/ pc = "closed",
  queue <- IF pc = "closed" THEN << >> ELSE cache \o reader

ImplementsPipe == Plain!Spec

(***************************************************************************)
(* What the client shows is recognised: if enough of it has been read for  *)
(* some sniffer, the connection is routed with that protocol, however the  *)
(* packets came in, whatever the other sniffers answered and whatever came *)
(* after it, unless the sniffer had asked for more data.                   *)
(***************************************************************************)
Decided == pc \in {"route", "forward", "closed"}
Shown   == taken >= conv.at /\ Network(conv.by) = conv.net

Recognised ==
  Decided /\ Shown /\ conv.until # "needMoreData" => protocol = conv.by

(***************************************************************************)
(* A client that says nothing, or nothing of use, is not kept waiting: it  *)
(* is routed before the deadline, and no more than a second later if the   *)
(* reader is a CounterReader.                                              *)
(***************************************************************************)
InTime == spent <= IF stream THEN Wait + Second ELSE Wait

(***************************************************************************)
(* "Protocol Need More Data: protocol matches, but need more data to       *)
(* complete sniffing" (default.go:484): a sniffer that has asked for more  *)
(* data recognises the protocol once the data is there.                    *)
(***************************************************************************)
MoreDataIsLookedAt == Decided /\ Shown => protocol = conv.by

=============================================================================
