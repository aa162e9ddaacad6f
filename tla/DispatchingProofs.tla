-------------------------- MODULE DispatchingProofs ---------------------------
(***************************************************************************)
(* Proofs about Sniffing, for any conversations, deadlines and number of   *)
(* packets, and about Dispatching, for any routes.                         *)
(***************************************************************************)
EXTENDS Dispatching, RoutingProofs, SequenceTheorems

-----------------------------------------------------------------------------
(* Packets in order *)

LEMMA SameRange ==
  ASSUME NEW a \in Nat, NEW b \in Nat, 1..a = 1..b
  PROVE  a = b
<1>1. CASE a > b
  <2>1. a \in 1..a /\ a \notin 1..b
    BY <1>1
  <2> QED
    BY <2>1
<1>2. CASE b > a
  <2>1. b \in 1..b /\ b \notin 1..a
    BY <1>2
  <2> QED
    BY <2>1
<1> QED
  BY <1>1, <1>2

\* A sequence of numbers is a beginning of 1, 2, 3, ... iff each is its index.
LEMMA NumbersIs ==
  ASSUME NEW s \in Seq(Nat), NEW n \in Nat
  PROVE  s = Numbers(n) <=> Len(s) = n /\ \A i \in 1..n : s[i] = i
<1>1. Len(s) \in Nat /\ DOMAIN s = 1..Len(s) /\ s \in [1..Len(s) -> Nat]
  BY LenProperties
<1>2. DOMAIN Numbers(n) = 1..n /\ \A i \in 1..n : Numbers(n)[i] = i
  BY DEF Numbers
<1>3. ASSUME s = Numbers(n)
      PROVE  Len(s) = n /\ \A i \in 1..n : s[i] = i
  <2>1. 1..Len(s) = 1..n
    BY <1>1, <1>2, <1>3
  <2>2. Len(s) = n
    BY <1>1, <2>1, SameRange
  <2> QED
    BY <1>2, <1>3, <2>2
<1>4. ASSUME Len(s) = n, \A i \in 1..n : s[i] = i
      PROVE  s = Numbers(n)
  BY <1>1, <1>4 DEF Numbers
<1> QED
  BY <1>3, <1>4

LEMMA Grow ==
  ASSUME NEW s \in Seq(Nat), NEW r \in Seq(Nat), NEW n \in Nat,
         s \o r = Numbers(n)
  PROVE  s \o Append(r, n + 1) = Numbers(n + 1)
<1> DEFINE q == Append(r, n + 1)
<1>1. /\ s \o r \in Seq(Nat)
      /\ Len(s) \in Nat /\ Len(r) \in Nat
      /\ Len(s \o r) = Len(s) + Len(r)
      /\ \A i \in 1..(Len(s) + Len(r)) :
           (s \o r)[i] = IF i <= Len(s) THEN s[i] ELSE r[i - Len(s)]
  BY ConcatProperties, LenProperties
<1>2. /\ q \in Seq(Nat)
      /\ Len(q) = Len(r) + 1
      /\ \A i \in 1..Len(r) : q[i] = r[i]
      /\ q[Len(r) + 1] = n + 1
  OBVIOUS
<1> HIDE DEF q
<1>3. /\ s \o q \in Seq(Nat)
      /\ Len(s \o q) = Len(s) + Len(q)
      /\ \A i \in 1..(Len(s) + Len(q)) :
           (s \o q)[i] = IF i <= Len(s) THEN s[i] ELSE q[i - Len(s)]
  BY <1>2, ConcatProperties
<1>4. Len(s) + Len(r) = n /\ \A i \in 1..n : (s \o r)[i] = i
  BY <1>1, NumbersIs
<1>5. /\ Len(s) \in Nat /\ Len(r) \in Nat
      /\ n = Len(s) + Len(r)
      /\ n + 1 = Len(s) + Len(q)
  BY <1>1, <1>2, <1>4
<1>6. Len(s \o q) = n + 1
  BY <1>3, <1>5
<1>7. ASSUME NEW i \in 1..(n + 1)
      PROVE  (s \o q)[i] = i
  <2>1. (s \o q)[i] = IF i <= Len(s) THEN s[i] ELSE q[i - Len(s)]
    BY <1>3, <1>5
  <2>2. CASE i <= Len(s)
    <3>1. i \in 1..n
      BY <1>5, <2>2
    <3>2. s[i] = i
      BY <1>1, <1>4, <1>5, <2>2, <3>1
    <3> QED
      BY <2>1, <2>2, <3>2
  <2>3. CASE i > Len(s) /\ i <= n
    <3>1. i - Len(s) \in 1..Len(r) /\ i \in 1..n /\ ~(i <= Len(s))
      BY <1>5, <2>3
    <3>2. r[i - Len(s)] = i
      BY <1>1, <1>4, <1>5, <3>1
    <3> QED
      BY <1>2, <2>1, <3>1, <3>2
  <2>4. CASE i = n + 1
    <3>1. i - Len(s) = Len(r) + 1 /\ ~(i <= Len(s))
      BY <1>5, <2>4
    <3> QED
      BY <1>2, <2>1, <2>4, <3>1
  <2>5. i <= Len(s) \/ (i > Len(s) /\ i <= n) \/ i = n + 1
    BY <1>5
  <2> QED
    BY <2>2, <2>3, <2>4, <2>5
<1>8. s \o q = Numbers(n + 1)
  <2>1. n + 1 \in Nat
    OBVIOUS
  <2> QED
    BY <1>3, <1>6, <1>7, <2>1, NumbersIs
<1> QED
  BY <1>8 DEF q

LEMMA Regroup ==
  ASSUME NEW s \in Seq(Nat), NEW r \in Seq(Nat), NEW q \in Seq(Nat)
  PROVE  (s \o r) \o q = s \o (r \o q)
BY ConcatAssociative

LEMMA Beginning ==
  ASSUME NEW s \in Seq(Nat), NEW r \in Seq(Nat), NEW n \in Nat,
         s \o r = Numbers(n)
  PROVE  Len(s) \in 0..n /\ s = Numbers(Len(s))
<1>1. /\ s \o r \in Seq(Nat)
      /\ Len(s) \in Nat /\ Len(r) \in Nat
      /\ Len(s \o r) = Len(s) + Len(r)
      /\ \A i \in 1..(Len(s) + Len(r)) :
           (s \o r)[i] = IF i <= Len(s) THEN s[i] ELSE r[i - Len(s)]
  BY ConcatProperties, LenProperties
<1>2. Len(s) + Len(r) = n /\ \A i \in 1..n : (s \o r)[i] = i
  BY <1>1, NumbersIs
<1>3. Len(s) \in 0..n
  BY <1>1, <1>2
<1>4. \A i \in 1..Len(s) : s[i] = i
  BY <1>1, <1>2
<1> QED
  BY <1>1, <1>3, <1>4, NumbersIs

\* The front and the rest of a queue.
LEMMA FrontAndRest ==
  ASSUME NEW s \in Seq(Nat), NEW r \in Seq(Nat)
  PROVE  /\ Len(s) \in 0..Len(s \o r)
         /\ s # << >> => Len(s) \in 1..Len(s \o r)
         /\ SubSeq(s \o r, 1, Len(s)) = s
         /\ SubSeq(s \o r, Len(s) + 1, Len(s \o r)) = r
<1> DEFINE q == s \o r
<1>1. /\ q \in Seq(Nat)
      /\ Len(s) \in Nat /\ Len(r) \in Nat
      /\ Len(q) = Len(s) + Len(r)
      /\ \A i \in 1..(Len(s) + Len(r)) :
           q[i] = IF i <= Len(s) THEN s[i] ELSE r[i - Len(s)]
  BY ConcatProperties, LenProperties
<1>2. \A i \in 1..Len(q) : q[i] \in Nat
  BY <1>1, ElementOfSeq
<1> HIDE DEF q
<1>3. SubSeq(q, 1, Len(s)) = s
  <2> DEFINE f == SubSeq(q, 1, Len(s))
  <2>1. /\ f \in Seq(Nat)
        /\ Len(f) = IF 1 <= Len(s) THEN Len(s) - 1 + 1 ELSE 0
        /\ \A i \in 1..(Len(s) - 1 + 1) : f[i] = q[1 + i - 1]
    <3>1. 1 \in Int /\ Len(s) \in Int /\ \A i \in 1..Len(s) : q[i] \in Nat
      BY <1>1, <1>2
    <3> QED
      BY <3>1, SubSeqProperties
  <2> HIDE DEF f
  <2>2. Len(f) = Len(s) /\ \A i \in 1..Len(f) : f[i] = s[i]
    BY <1>1, <2>1
  <2>3. f = s
    BY <2>1, <2>2, SeqEqual
  <2> QED
    BY <2>3 DEF f
<1>4. SubSeq(q, Len(s) + 1, Len(q)) = r
  <2> DEFINE f == SubSeq(q, Len(s) + 1, Len(q))
  <2>1. /\ f \in Seq(Nat)
        /\ Len(f) = IF Len(s) + 1 <= Len(q) THEN Len(q) - (Len(s) + 1) + 1 ELSE 0
        /\ \A i \in 1..(Len(q) - (Len(s) + 1) + 1) : f[i] = q[(Len(s) + 1) + i - 1]
    <3>1. Len(s) + 1 \in Int /\ Len(q) \in Int
          /\ \A i \in (Len(s) + 1)..Len(q) : q[i] \in Nat
      BY <1>1, <1>2
    <3> QED
      BY <3>1, SubSeqProperties
  <2> HIDE DEF f
  <2>2. Len(f) = Len(r)
    BY <1>1, <2>1
  <2>4. ASSUME NEW i \in 1..Len(f)
        PROVE  f[i] = r[i]
    <3>1. i \in 1..(Len(q) - (Len(s) + 1) + 1)
      BY <1>1, <2>2
    <3>2. f[i] = q[(Len(s) + 1) + i - 1]
      BY <2>1, <3>1
    <3>3. (Len(s) + 1) + i - 1 = Len(s) + i
      BY <1>1
    <3>4. Len(s) + i \in 1..(Len(s) + Len(r)) /\ ~(Len(s) + i <= Len(s))
          /\ (Len(s) + i) - Len(s) = i
      BY <1>1, <2>2
    <3>5. q[Len(s) + i] = r[(Len(s) + i) - Len(s)]
      BY <1>1, <3>4
    <3> QED
      BY <3>2, <3>3, <3>4, <3>5
  <2>3. f = r
    BY <2>1, <2>2, <2>4, SeqEqual
  <2> QED
    BY <2>3 DEF f
<1>5. s # << >> => Len(s) # 0
  BY EmptySeq
<1> QED
  BY <1>1, <1>3, <1>4, <1>5 DEF q

-----------------------------------------------------------------------------
(* The invariant of one connection *)

\* Before the outbound reads, what was taken is in the cache.
FlowInv ==
  /\ InOrder
  /\ cut => reader = << >>
  /\ pc \notin {"forward", "closed"} => out = << >> /\ taken = Len(cache)

\* A connection that has not begun has touched nothing.
FreshInv ==
  pc = "none" => /\ cache = << >>
                 /\ sniffers = Sniffer
                 /\ attempts = 0
                 /\ time = Wait
                 /\ spent = 0

\* While there is time left, it is what the deadline has not spent; only a read
\* from a CounterReader can outlast it, and none starts after it.
TimeInv ==
  /\ ~stream \/ time > 0 => spent + time = Wait
  /\ stream => spent <= Wait + Second
  /\ pc = "loop" /\ time = 0 => spent = 0

AttemptInv == pc \in {"none", "loop", "sniff"} => attempts <= 1

\* The sniffer that will recognise the conversation without asking for more.
Patient == conv.until # "needMoreData" /\ Network(conv.by) = conv.net

\* Until there is enough to recognise it, that sniffer is asked again.
PendInv ==
  /\ pc \in {"loop", "sniff"} /\ Patient => conv.by \in sniffers
  /\ pc = "loop" /\ Patient => taken < conv.at
  /\ Recognised

SniffInv ==
  SniffTypeOK /\ FlowInv /\ FreshInv /\ TimeInv /\ AttemptInv /\ PendInv

LEMMA SniffInitInv == SniffInit => SniffInv
<1> SUFFICES ASSUME SniffInit
             PROVE  SniffInv
  OBVIOUS
<1>0. MaxPacket \in Nat /\ Wait \in Nat /\ Second \in Nat
  BY TimeAssumption
<1>1. SniffTypeOK
  <2>1. << >> \in Seq(1..MaxPacket)
    BY EmptySeq
  <2>2. 0 \in 0..MaxPacket /\ Wait \in 0..Wait /\ 0 \in 0..2
    BY <1>0
  <2> QED
    BY <1>0, <2>1, <2>2 DEF SniffInit, SniffTypeOK
<1>2. FlowInv
  <2>1. Numbers(0) = << >>
    <3>1. << >> \in Seq(Nat) /\ Len(<< >>) = 0
      BY EmptySeq
    <3>2. 0 \in Nat /\ \A i \in 1..0 : << >>[i] = i
      OBVIOUS
    <3> QED
      BY <3>1, <3>2, NumbersIs
  <2>2. << >> \o << >> \o << >> = << >>
    OBVIOUS
  <2> QED
    BY <2>1, <2>2 DEF SniffInit, FlowInv, InOrder
<1>3. FreshInv /\ TimeInv /\ AttemptInv
  BY <1>0 DEF SniffInit, FreshInv, TimeInv, AttemptInv
<1>4. PendInv
  BY DEF SniffInit, PendInv, Recognised, Decided
<1> QED
  BY <1>1, <1>2, <1>3, <1>4 DEF SniffInv

LEMMA FlowStep ==
  ASSUME SniffTypeOK, FlowInv, [SniffNext]_sniffVars
  PROVE  FlowInv'
<1>0. /\ out \in Seq(Nat) /\ cache \in Seq(Nat) /\ reader \in Seq(Nat)
      /\ sent \in Nat
  <2>1. 1..MaxPacket \subseteq Nat /\ 0..MaxPacket \subseteq Nat
    BY TimeAssumption
  <2> QED
    BY <2>1, SeqMonotonic DEF SniffTypeOK
<1>1. out \o cache \in Seq(Nat) /\ cache \o reader \in Seq(Nat)
  BY <1>0, ConcatProperties
<1>2. CASE UNCHANGED <<sent, cut, reader, cache, out, taken>>
           /\ (pc' = "closed" => pc = "closed")
           /\ (pc' \notin {"forward", "closed"} => pc \notin {"forward", "closed"})
           /\ (pc = "closed" => pc' = "closed")
  BY <1>2 DEF FlowInv, InOrder
<1>3. CASE Send
  <2>1. ~cut /\ sent' = sent + 1 /\ reader' = Append(reader, sent + 1)
        /\ UNCHANGED <<pc, cut, cache, out, taken>> /\ pc # "closed"
    BY <1>3 DEF Send
  <2>2. out \o cache \o reader = Numbers(sent)
    BY <2>1 DEF FlowInv, InOrder
  <2>3. (out \o cache) \o Append(reader, sent + 1) = Numbers(sent + 1)
    BY <1>0, <1>1, <2>2, Grow
  <2> QED
    BY <2>1, <2>3 DEF FlowInv, InOrder
<1>4. CASE Interrupt
  <2>1. ~cut /\ cut' = TRUE /\ reader' = << >>
        /\ UNCHANGED <<pc, sent, cache, out, taken>> /\ pc # "closed"
    BY <1>4 DEF Interrupt
  <2>2. out \o cache \o reader = Numbers(sent)
    BY <2>1 DEF FlowInv, InOrder
  <2>3. \E n \in 0..sent : out \o cache = Numbers(n)
    BY <1>0, <1>1, <2>2, Beginning
  <2> QED
    BY <2>1, <2>3 DEF FlowInv, InOrder
<1>5. CASE Cache
  <2>1. /\ pc = "loop" /\ reader # << >> /\ pc' = "sniff"
        /\ cache' = cache \o reader /\ reader' = << >>
        /\ taken' = taken + Len(reader)
        /\ UNCHANGED <<sent, cut, out>>
    BY <1>5 DEF Cache, client
  <2>2. ~cut /\ out \o cache \o reader = Numbers(sent)
        /\ out = << >> /\ taken = Len(cache)
    BY <2>1 DEF FlowInv, InOrder
  <2>3. out \o cache' \o reader' = out \o cache \o reader
    <3>1. out \o cache' = out \o cache \o reader
      <4>1. (out \o cache) \o reader = out \o (cache \o reader)
        BY <1>0, Regroup
      <4> QED
        BY <2>1, <4>1, Zenon
    <3>2. out \o cache \o reader \in Seq(Nat)
      BY <1>0, <1>1, ConcatProperties
    <3> QED
      BY <2>1, <3>1, <3>2, ConcatEmptySeq
  <2>4. taken' = Len(cache')
    BY <1>0, <2>1, <2>2, ConcatProperties
  <2> QED
    BY <2>1, <2>2, <2>3, <2>4 DEF FlowInv, InOrder
<1>6. CASE Read
  <2>1. pc = "forward" /\ UNCHANGED <<pc, sent, cut, taken>>
    BY <1>6 DEF Read, client
  <2>2. CASE out' = out \o cache /\ cache' = << >> /\ reader' = reader
    <3>1. out' \o cache' = out \o cache
      BY <1>1, <2>2, ConcatEmptySeq
    <3> QED
      BY <2>1, <2>2, <3>1 DEF FlowInv, InOrder
  <2>3. CASE cache = << >> /\ reader # << >> /\ out' = out \o reader
             /\ reader' = << >> /\ cache' = cache
    <3>1. ~cut
      BY <2>3 DEF FlowInv
    <3>2. out \o reader \in Seq(Nat)
      BY <1>0, ConcatProperties
    <3>3. out' \o cache' \o reader' = out \o cache \o reader
      BY <1>0, <2>3, <3>2, ConcatEmptySeq
    <3> QED
      BY <2>1, <2>3, <3>1, <3>3 DEF FlowInv, InOrder
  <2> QED
    BY <1>6, <2>2, <2>3 DEF Read
<1>7. ASSUME NEW closed \in BOOLEAN, RoutedDispatch(closed)
      PROVE  FlowInv'
  <2>1. CASE closed
    BY <1>7, <2>1 DEF RoutedDispatch, FlowInv, InOrder
  <2>2. CASE ~closed
    <3>1. pc = "route" /\ pc' = "forward"
          /\ UNCHANGED <<sent, cut, reader, cache, out, taken>>
      BY <1>7, <2>2 DEF RoutedDispatch
    <3> QED
      BY <3>1 DEF FlowInv, InOrder
  <2> QED
    BY <2>1, <2>2
<1>8. Begin \/ End \/ CacheTimeout \/ CacheError \/ Sniff \/ UNCHANGED sniffVars
      => FlowInv'
  BY <1>2 DEF Begin, End, CacheTimeout, CacheError, Sniff, NextAttempt, client, sniffVars
<1> QED
  BY <1>3, <1>4, <1>5, <1>6, <1>7, <1>8 DEF SniffNext, SniffSteps

LEMMA TypeStep ==
  ASSUME SniffInv, [SniffNext]_sniffVars
  PROVE  SniffTypeOK'
<1>0. SniffTypeOK /\ FlowInv /\ AttemptInv
  BY DEF SniffInv
<1>1. /\ MaxPacket \in Nat /\ Wait \in Nat /\ Second \in Nat
      /\ sent \in 0..MaxPacket /\ time \in 0..Wait /\ spent \in Nat
      /\ attempts \in 0..2 /\ taken \in 0..MaxPacket /\ stream \in BOOLEAN
      /\ reader \in Seq(1..MaxPacket) /\ cache \in Seq(1..MaxPacket)
      /\ out \in Seq(1..MaxPacket)
  BY <1>0, TimeAssumption DEF SniffTypeOK
<1>2. Patience \in Nat
  BY <1>1 DEF Patience
<1>3. ASSUME NEW d \in 0..Patience, Takes(d)
      PROVE  time' \in 0..Wait /\ spent' \in Nat
  BY <1>1, <1>2, <1>3 DEF Takes, Minus
<1>4. CASE Begin \/ End
  BY <1>0, <1>4 DEF Begin, End, SniffTypeOK
<1>5. CASE Send
  <2>1. sent' \in 0..MaxPacket /\ reader' \in Seq(1..MaxPacket)
    <3>1. sent + 1 \in 1..MaxPacket
      BY <1>1, <1>5 DEF Send
    <3> QED
      BY <1>1, <1>5, <3>1 DEF Send
  <2> QED
    BY <1>0, <1>5, <2>1 DEF Send, SniffTypeOK
<1>6. CASE Interrupt
  <2>1. << >> \in Seq(1..MaxPacket)
    BY EmptySeq
  <2> QED
    BY <1>0, <1>6, <2>1 DEF Interrupt, SniffTypeOK
<1>7. CASE Cache
  <2>1. << >> \in Seq(1..MaxPacket) /\ cache \o reader \in Seq(1..MaxPacket)
    BY <1>1, EmptySeq, ConcatProperties
  <2>2. time' \in 0..Wait /\ spent' \in Nat
    BY <1>3, <1>7 DEF Cache
  <2>3. taken' \in 0..MaxPacket
    <3>1. ~cut /\ out = << >> /\ taken = Len(cache)
          /\ out \o cache \o reader = Numbers(sent)
      BY <1>0, <1>7 DEF Cache, FlowInv, InOrder
    <3>2. cache \in Seq(Nat) /\ reader \in Seq(Nat)
      <4>1. 1..MaxPacket \subseteq Nat
        BY <1>1
      <4> QED
        BY <1>1, <4>1, SeqMonotonic
    <3>3. cache \o reader \in Seq(Nat) /\ Len(cache \o reader) = Len(cache) + Len(reader)
          /\ Len(cache) \in Nat /\ Len(reader) \in Nat
      BY <3>2, ConcatProperties, LenProperties
    <3>4. cache \o reader = Numbers(sent)
      <4>1. << >> \o cache = cache
        BY <3>2, ConcatEmptySeq
      <4> QED
        BY <3>1, <4>1
    <3>5. Len(cache) + Len(reader) = sent
      <4>1. sent \in Nat
        BY <1>1
      <4> QED
        BY <3>3, <3>4, <4>1, NumbersIs
    <3> QED
      BY <1>1, <1>7, <3>1, <3>3, <3>5 DEF Cache
  <2> QED
    BY <1>0, <1>7, <2>1, <2>2, <2>3 DEF Cache, client, SniffTypeOK
<1>8. CASE CacheTimeout
  <2>1. Patience \in 0..Patience
    BY <1>2
  <2>2. time' \in 0..Wait /\ spent' \in Nat
    BY <1>3, <1>8, <2>1 DEF CacheTimeout
  <2> QED
    BY <1>0, <1>8, <2>2 DEF CacheTimeout, client, SniffTypeOK
<1>9. CASE CacheError
  BY <1>0, <1>9 DEF CacheError, client, SniffTypeOK
<1>10. CASE Sniff
  <2>1. sniffers' \subseteq Sniffer
    BY <1>0, <1>10 DEF Sniff, SniffTypeOK, Clueless, Asked
  <2>2. protocol' \in Sniffer \cup {"none"} /\ target' \in {"asked", "domain"}
    BY <1>0, <1>10 DEF Sniff, SniffTypeOK, Asked
  <2>3. attempts' \in 0..2 /\ pc' \in {"loop", "route"}
    BY <1>0, <1>1, <1>10 DEF Sniff, NextAttempt, AttemptInv
  <2>4. UNCHANGED <<conv, stream, sent, ended, cut, reader, cache, time, out, taken, spent>>
        /\ pc = "sniff"
    BY <1>10 DEF Sniff, client
  <2> QED
    BY <1>0, <2>1, <2>2, <2>3, <2>4 DEF SniffTypeOK
<1>11. CASE Read
  <2>1. /\ out \o cache \in Seq(1..MaxPacket)
        /\ out \o reader \in Seq(1..MaxPacket)
        /\ << >> \in Seq(1..MaxPacket)
    BY <1>1, EmptySeq, ConcatProperties
  <2> QED
    BY <1>0, <1>11, <2>1 DEF Read, client, SniffTypeOK
<1>12. ASSUME NEW closed \in BOOLEAN, RoutedDispatch(closed)
       PROVE  SniffTypeOK'
  <2>1. << >> \in Seq(1..MaxPacket)
    BY EmptySeq
  <2> QED
    BY <1>0, <1>12, <2>1 DEF RoutedDispatch, SniffTypeOK
<1>13. CASE UNCHANGED sniffVars
  BY <1>0, <1>13 DEF sniffVars, SniffTypeOK
<1> QED
  BY <1>4, <1>5, <1>6, <1>7, <1>8, <1>9, <1>10, <1>11, <1>12, <1>13
  DEF SniffNext, SniffSteps

LEMMA TimeStep ==
  ASSUME SniffInv, [SniffNext]_sniffVars
  PROVE  FreshInv' /\ TimeInv' /\ AttemptInv'
<1>0. SniffTypeOK /\ FreshInv /\ TimeInv /\ AttemptInv
  BY DEF SniffInv
<1>1. /\ Wait \in Nat /\ Second \in Nat /\ time \in 0..Wait /\ spent \in Nat
      /\ attempts \in 0..2 /\ stream \in BOOLEAN
  BY <1>0, TimeAssumption DEF SniffTypeOK
<1>2. Patience \in Nat
  BY <1>1 DEF Patience
<1>3. ASSUME pc = "loop", pc' # "loop", stream' = stream,
             NEW d \in 0..Patience, Takes(d)
      PROVE  TimeInv'
  <2>1. /\ time' = IF d < time THEN time - d ELSE 0
        /\ spent' = spent + d
        /\ d \in 0..(IF stream THEN Second ELSE time)
    BY <1>3 DEF Takes, Minus, Patience
  <2>2. CASE ~stream
    <3>1. spent' + time' = Wait
      BY <1>0, <1>1, <2>1, <2>2 DEF TimeInv
    <3>2. ~stream' /\ pc' # "loop"
      BY <1>3, <2>2
    <3> QED
      BY <3>1, <3>2 DEF TimeInv
  <2>3. CASE stream /\ time = 0
    <3>1. time' = 0 /\ spent' \in 0..Second
      BY <1>0, <1>1, <1>3, <2>1, <2>3 DEF TimeInv
    <3> QED
      BY <1>1, <1>3, <2>3, <3>1 DEF TimeInv
  <2>4. CASE stream /\ time > 0
    <3>1. spent + time = Wait
      BY <1>0, <2>4 DEF TimeInv
    <3>2. spent' <= Wait + Second /\ (time' > 0 => spent' + time' = Wait)
      BY <1>1, <2>1, <2>4, <3>1
    <3> QED
      BY <1>3, <2>4, <3>2 DEF TimeInv
  <2> QED
    BY <1>1, <2>2, <2>3, <2>4
<1>4. CASE Begin
  <2>1. spent' = 0 /\ time' = Wait /\ attempts' = 0 /\ pc' = "loop" /\ stream' \in BOOLEAN
    BY <1>0, <1>4 DEF Begin, FreshInv
  <2> QED
    BY <1>1, <2>1 DEF FreshInv, TimeInv, AttemptInv
<1>5. CASE Cache \/ CacheTimeout
  <2>1. \E d \in 0..Patience : Takes(d)
    <3>1. Patience \in 0..Patience
      BY <1>2
    <3> QED
      BY <1>5, <3>1 DEF Cache, CacheTimeout
  <2>2. pc = "loop" /\ pc' \in {"sniff", "route"} /\ UNCHANGED <<stream, attempts>>
    BY <1>5 DEF Cache, CacheTimeout, client
  <2>3. TimeInv'
    BY <1>3, <2>1, <2>2
  <2> QED
    BY <1>0, <2>2, <2>3 DEF FreshInv, AttemptInv
<1>6. CASE CacheError
  <2>1. pc = "loop" /\ pc' = "route" /\ UNCHANGED <<stream, time, spent>>
    BY <1>6 DEF CacheError, client
  <2> QED
    BY <1>0, <2>1 DEF FreshInv, TimeInv, AttemptInv
<1>7. CASE Sniff
  <2>1. pc = "sniff" /\ UNCHANGED <<stream, time, spent>>
    BY <1>7 DEF Sniff, client
  <2>2. pc' = "route" \/ (pc' = "loop" /\ time # 0 /\ attempts' < 2 /\ attempts' \in Nat)
    BY <1>1, <1>7 DEF Sniff, NextAttempt
  <2> QED
    BY <1>0, <1>1, <2>1, <2>2 DEF FreshInv, TimeInv, AttemptInv
<1>8. CASE UNCHANGED <<stream, sniffers, attempts, time, spent>>
           /\ (pc' = "none" => pc = "none" /\ cache' = cache)
           /\ (pc' \in {"loop", "sniff"} => pc' = pc)
  BY <1>0, <1>8 DEF FreshInv, TimeInv, AttemptInv
<1>9. Send \/ End \/ Interrupt \/ Read \/ UNCHANGED sniffVars
      => FreshInv' /\ TimeInv' /\ AttemptInv'
  BY <1>8 DEF Send, End, Interrupt, Read, client, sniffVars
<1>10. ASSUME NEW closed \in BOOLEAN, RoutedDispatch(closed)
       PROVE  FreshInv' /\ TimeInv' /\ AttemptInv'
  BY <1>8, <1>10 DEF RoutedDispatch
<1> QED
  BY <1>4, <1>5, <1>6, <1>7, <1>9, <1>10 DEF SniffNext, SniffSteps

LEMMA PendStep ==
  ASSUME SniffInv, [SniffNext]_sniffVars
  PROVE  PendInv'
<1>0. SniffTypeOK /\ FlowInv /\ FreshInv /\ PendInv
  BY DEF SniffInv
<1>1. pc # "none" => conv \in Conversation
  BY <1>0, ContentAssumption DEF SniffTypeOK
<1>2. taken \in Nat
  BY <1>0, TimeAssumption DEF SniffTypeOK
<1>3. CASE Begin
  <2>1. /\ conv' \in Conversation /\ pc' = "loop" /\ sniffers' = Sniffer
        /\ taken' = 0
    BY <1>0, <1>3, ContentAssumption, EmptySeq DEF Begin, FreshInv, FlowInv
  <2>2. conv'.at >= 1 /\ conv'.at \in Nat /\ conv'.by \in Sniffer
    BY <2>1, TimeAssumption DEF Conversation
  <2> QED
    BY <2>1, <2>2 DEF PendInv, Recognised, Decided
<1>4. CASE Cache
  <2>1. pc = "loop" /\ pc' = "sniff" /\ UNCHANGED <<conv, sniffers>>
    BY <1>4 DEF Cache, client
  <2> QED
    BY <1>0, <2>1 DEF PendInv, Recognised, Decided, Patient
<1>5. CASE CacheTimeout \/ CacheError
  <2>1. pc = "loop" /\ pc' \in {"route", "sniff"} /\ UNCHANGED <<conv, sniffers, taken>>
    BY <1>5 DEF CacheTimeout, CacheError, client
  <2>2. conv.at \in Nat
    BY <1>1, <2>1, TimeAssumption DEF Conversation
  <2> QED
    BY <1>0, <1>2, <2>1, <2>2 DEF PendInv, Recognised, Decided, Patient, Shown
<1>6. CASE Sniff
  <2>1. pc = "sniff" /\ UNCHANGED <<conv, taken, cache>> /\ taken = Len(cache)
    BY <1>0, <1>6 DEF Sniff, client, FlowInv
  <2>2. /\ conv.at \in Nat /\ conv.at >= 1 /\ conv.by \in Sniffer
        /\ conv.others \in {"noClue", "no"} /\ conv.until \in {"noClue", "needMoreData"}
    BY <1>1, <2>1, TimeAssumption DEF Conversation
  <2>3. Patient => conv.by \in Asked
    BY <1>0, <2>1 DEF PendInv, Patient, Asked
  <2>4. CASE /\ cache = << >> /\ UNCHANGED <<sniffers, protocol>>
             /\ pc' \in {"loop", "route"}
    <3>1. taken < conv.at
      BY <2>1, <2>2, <2>4, EmptySeq
    <3> QED
      BY <1>0, <1>2, <2>1, <2>2, <2>4, <3>1
      DEF PendInv, Recognised, Decided, Patient, Shown
  <2>5. ASSUME NEW s \in Asked, Answer(s) = "result", protocol' = s, pc' = "route"
        PROVE  PendInv'
    <3>1. s = conv.by
      BY <2>2, <2>5 DEF Answer
    <3> QED
      BY <2>1, <2>5, <3>1 DEF PendInv, Recognised
  <2>6. CASE /\ \A s \in Asked : Answer(s) # "result"
             /\ pc' \in {"loop", "route"}
             /\ IF Clueless # {} THEN sniffers' = Clueless
                                 ELSE pc' = "route" /\ sniffers' = sniffers
    <3>1. ASSUME Patient
          PROVE  conv.by \in Clueless /\ taken < conv.at
      BY <1>2, <2>1, <2>2, <2>3, <2>6, <3>1 DEF Answer, Clueless, Patient
    <3> QED
      BY <1>2, <2>1, <2>2, <2>6, <3>1 DEF PendInv, Recognised, Decided, Patient, Shown
  <2> QED
    BY <1>6, <2>4, <2>5, <2>6 DEF Sniff, NextAttempt
<1>7. CASE UNCHANGED <<conv, sniffers, protocol, taken>>
           /\ (pc' \in {"loop", "sniff"} => pc' = pc)
           /\ (pc' \in {"route", "forward", "closed"} =>
                 pc \in {"route", "forward", "closed"})
  BY <1>0, <1>7 DEF PendInv, Recognised, Decided, Patient, Shown
<1>8. Send \/ End \/ Interrupt \/ Read \/ UNCHANGED sniffVars => PendInv'
  BY <1>7 DEF Send, End, Interrupt, Read, client, sniffVars
<1>9. ASSUME NEW closed \in BOOLEAN, RoutedDispatch(closed)
      PROVE  PendInv'
  BY <1>7, <1>9 DEF RoutedDispatch
<1> QED
  BY <1>3, <1>4, <1>5, <1>6, <1>8, <1>9 DEF SniffNext, SniffSteps

LEMMA SniffStepInv == SniffInv /\ [SniffNext]_sniffVars => SniffInv'
<1> SUFFICES ASSUME SniffInv, [SniffNext]_sniffVars
             PROVE  SniffInv'
  OBVIOUS
<1>1. SniffTypeOK /\ FlowInv
  BY DEF SniffInv
<1>2. FlowInv'
  BY <1>1, FlowStep
<1> QED
  BY <1>2, TypeStep, TimeStep, PendStep DEF SniffInv

LEMMA SniffInvariance == SniffSpec => []SniffInv
BY SniffInitInv, SniffStepInv, PTL DEF SniffSpec

-----------------------------------------------------------------------------
(* Theorems about one connection *)

(***************************************************************************)
(* Sniffing keeps its types: it never reads more than was written, and     *)
(* never makes a third attempt (sniffer, default.go).                      *)
(***************************************************************************)
THEOREM SniffTypeCorrect == SniffSpec => []SniffTypeOK
BY SniffInvariance, PTL DEF SniffInv

(***************************************************************************)
(* cachedReader loses, repeats and reorders nothing that the client wrote. *)
(***************************************************************************)
THEOREM NothingIsLost == SniffSpec => []InOrder
<1>1. SniffInv => InOrder
  BY DEF SniffInv, FlowInv
<1> QED
  BY <1>1, SniffInvariance, PTL

(***************************************************************************)
(* The sniffer that knows the protocol is asked again until it can tell.   *)
(***************************************************************************)
THEOREM ProtocolIsFound == SniffSpec => []Recognised
<1>1. SniffInv => Recognised
  BY DEF SniffInv, PendInv
<1> QED
  BY <1>1, SniffInvariance, PTL

(***************************************************************************)
(* Sniffing ends by its deadline, or a second after it.                    *)
(***************************************************************************)
THEOREM SniffingIsBounded == SniffSpec => []InTime
<1>1. SniffInv => InTime
  <2> SUFFICES ASSUME SniffInv
               PROVE  InTime
    OBVIOUS
  <2>1. /\ stream \in BOOLEAN /\ time \in 0..Wait /\ spent \in Nat
        /\ Wait \in Nat /\ Second \in Nat
    BY TimeAssumption DEF SniffInv, SniffTypeOK
  <2>2. CASE stream
    BY <2>2 DEF SniffInv, TimeInv, InTime
  <2>3. CASE ~stream
    <3>1. spent + time = Wait
      BY <2>3 DEF SniffInv, TimeInv
    <3> QED
      BY <2>1, <2>3, <3>1 DEF InTime
  <2> QED
    BY <2>2, <2>3
<1> QED
  BY <1>1, SniffInvariance, PTL

-----------------------------------------------------------------------------
(* Sniffing implements a plain connection *)

LEMMA PlainStep ==
  ASSUME SniffInv, [SniffNext]_sniffVars
  PROVE  [Plain!Next]_(Plain!vars)
<1>0. /\ out \in Seq(Nat) /\ cache \in Seq(Nat) /\ reader \in Seq(Nat)
      /\ sent \in Nat
  <2>1. 1..MaxPacket \subseteq Nat /\ 0..MaxPacket \subseteq Nat
    BY TimeAssumption
  <2> QED
    BY <2>1, SeqMonotonic DEF SniffInv, SniffTypeOK
<1>1. cache \o reader \in Seq(Nat) /\ << >> \in Seq(Nat)
  BY <1>0, ConcatProperties, EmptySeq
<1>2. CASE UNCHANGED <<sent, ended, out, cut>>
           /\ cache' \o reader' = cache \o reader
           /\ (pc' = "closed" <=> pc = "closed")
  BY <1>2 DEF Plain!vars
<1>3. CASE Send
  <2>1. /\ pc # "closed" /\ UNCHANGED <<pc, ended, cut, cache, out>>
        /\ ~ended /\ ~cut /\ sent < MaxPacket
        /\ sent' = sent + 1 /\ reader' = Append(reader, sent')
    BY <1>3 DEF Send
  <2>2. cache \o Append(reader, sent') = Append(cache \o reader, sent')
    BY <1>0, <2>1
  <2>3. Plain!Write
    BY <2>1, <2>2 DEF Plain!Write
  <2> QED
    BY <2>3 DEF Plain!Next
<1>4. CASE End
  <2>1. Plain!End
    BY <1>4 DEF End, Plain!End
  <2> QED
    BY <2>1 DEF Plain!Next
<1>5. CASE Interrupt
  <2>1. /\ pc # "closed" /\ cut' = TRUE /\ reader' = << >>
        /\ UNCHANGED <<pc, sent, ended, cache, out>>
    BY <1>5 DEF Interrupt
  <2>2. cache' \o reader' = cache
    BY <1>0, <2>1, ConcatEmptySeq
  <2>3. /\ Len(cache) \in 0..Len(cache \o reader)
        /\ SubSeq(cache \o reader, 1, Len(cache)) = cache
    BY <1>0, FrontAndRest
  <2>4. Plain!Interrupt
    BY <2>1, <2>2, <2>3 DEF Plain!Interrupt
  <2> QED
    BY <2>4 DEF Plain!Next
<1>6. CASE Cache
  <2>1. /\ cache' = cache \o reader /\ reader' = << >>
        /\ pc = "loop" /\ pc' = "sniff" /\ UNCHANGED <<sent, ended, cut, out>>
    BY <1>6 DEF Cache, client
  <2>2. cache' \o reader' = cache \o reader
    BY <1>1, <2>1, ConcatEmptySeq
  <2> QED
    BY <1>2, <2>1, <2>2
<1>7. CASE Read
  <2>1. pc = "forward" /\ UNCHANGED <<pc, sent, ended, cut>>
    BY <1>7 DEF Read, client
  <2>2. CASE cache # << >> /\ out' = out \o cache /\ cache' = << >> /\ reader' = reader
    <3>1. /\ Len(cache) \in 1..Len(cache \o reader)
          /\ SubSeq(cache \o reader, 1, Len(cache)) = cache
          /\ SubSeq(cache \o reader, Len(cache) + 1, Len(cache \o reader)) = reader
      BY <1>0, <2>2, FrontAndRest
    <3>2. cache' \o reader' = reader
      BY <1>0, <2>2, ConcatEmptySeq
    <3>3. Plain!Deliver
      BY <2>1, <2>2, <3>1, <3>2 DEF Plain!Deliver
    <3> QED
      BY <3>3 DEF Plain!Next
  <2>3. CASE cache = << >> /\ reader # << >> /\ out' = out \o reader
             /\ reader' = << >> /\ cache' = cache
    <3>1. cache \o reader = reader /\ reader \o << >> = reader
          /\ cache' \o reader' = << >>
      BY <1>0, <1>1, <2>3, ConcatEmptySeq
    <3>2. /\ Len(reader) \in 1..Len(reader)
          /\ SubSeq(reader, 1, Len(reader)) = reader
          /\ SubSeq(reader, Len(reader) + 1, Len(reader)) = << >>
      <4>1. /\ Len(reader) \in 1..Len(reader \o << >>)
            /\ SubSeq(reader \o << >>, 1, Len(reader)) = reader
            /\ SubSeq(reader \o << >>, Len(reader) + 1, Len(reader \o << >>)) = << >>
        BY <1>0, <1>1, <2>3, FrontAndRest
      <4>2. reader \o << >> = reader
        BY <3>1
      <4> QED
        BY <4>1, <4>2, Zenon
    <3>3. Plain!Deliver
      BY <2>1, <2>3, <3>1, <3>2 DEF Plain!Deliver
    <3> QED
      BY <3>3 DEF Plain!Next
  <2> QED
    BY <1>7, <2>2, <2>3 DEF Read
<1>8. ASSUME NEW closed \in BOOLEAN, RoutedDispatch(closed)
      PROVE  [Plain!Next]_(Plain!vars)
  <2>1. CASE closed
    <3>1. pc = "route" /\ pc' = "closed" /\ UNCHANGED <<sent, ended, out>>
      BY <1>8, <2>1 DEF RoutedDispatch
    <3>2. 0 \in 0..Len(cache \o reader) /\ SubSeq(cache \o reader, 1, 0) = << >>
      BY <1>1, LenProperties, SubSeqEmpty
    <3>3. Plain!Interrupt
      BY <3>1, <3>2 DEF Plain!Interrupt
    <3> QED
      BY <3>3 DEF Plain!Next
  <2>2. CASE ~closed
    BY <1>2, <1>8, <2>2 DEF RoutedDispatch
  <2> QED
    BY <2>1, <2>2
<1>9. Begin \/ CacheTimeout \/ CacheError \/ Sniff \/ UNCHANGED sniffVars
      => [Plain!Next]_(Plain!vars)
  BY <1>2 DEF Begin, CacheTimeout, CacheError, Sniff, NextAttempt, client, sniffVars
<1> QED
  BY <1>3, <1>4, <1>5, <1>6, <1>7, <1>8, <1>9 DEF SniffNext, SniffSteps

(***************************************************************************)
(* Whatever the sniffers answer and however long they take, the client and *)
(* the outbound see a connection that nobody sniffs.                       *)
(***************************************************************************)
THEOREM SniffingIsInvisible == SniffSpec => ImplementsPipe
<1>1. SniffInit => Plain!Init
  <2>1. << >> \o << >> = << >>
    OBVIOUS
  <2> QED
    BY <2>1 DEF SniffInit, Plain!Init
<1>2. SniffInv /\ [SniffNext]_sniffVars => [Plain!Next]_(Plain!vars)
  BY PlainStep
<1> QED
  BY <1>1, <1>2, SniffInvariance, PTL DEF SniffSpec, ImplementsPipe, Plain!Spec

-----------------------------------------------------------------------------
(* The composition *)

(***************************************************************************)
(* Connections do not touch the rules: what is proved of Routing holds for *)
(* the routes of the composition.                                          *)
(***************************************************************************)
THEOREM RoutingAlone == DispatchingSpec => Spec
<1>1. DispatchingInit => Init
  BY DEF DispatchingInit
<1>2. [DispatchingNext]_allVars => [Next]_vars
  BY DEF DispatchingNext, Connect, routedDispatch, allVars
<1> QED
  BY <1>1, <1>2, PTL DEF DispatchingSpec, Spec

(***************************************************************************)
(* Routing decides only whether a connection is closed: what is proved of  *)
(* Sniffing holds for the connections of the composition.                  *)
(***************************************************************************)
THEOREM SniffingAlone == DispatchingSpec => SniffSpec
<1>1. DispatchingInit => SniffInit
  BY DEF DispatchingInit
<1>2. [DispatchingNext]_allVars => [SniffNext]_sniffVars
  <2>1. Next /\ UNCHANGED connVars => UNCHANGED sniffVars
    BY DEF connVars
  <2>2. Connect => Begin
    BY DEF Connect
  <2>3. routedDispatch => \E closed \in BOOLEAN : RoutedDispatch(closed)
    <3>1. (via' = Closed) \in BOOLEAN
      OBVIOUS
    <3> QED
      BY <3>1 DEF routedDispatch
  <2>4. UNCHANGED allVars => UNCHANGED sniffVars
    BY DEF allVars, connVars
  <2> QED
    BY <2>1, <2>2, <2>3, <2>4 DEF DispatchingNext, SniffNext
<1> QED
  BY <1>1, <1>2, PTL DEF DispatchingSpec, SniffSpec

\* Routing is over when connections come, and a connection stays where the
\* rules sent what was seen of it.
ConnInv ==
  /\ inbound \in Node
  /\ via \in Def \cup Native \cup {Closed, "none"}
  /\ pc # "none" => result = "instance"
  /\ pc \in {"forward", "closed"} <=> via # "none"
  /\ pc \in {"forward", "closed"} => via = Dispatch(inbound, Seen)

LEMMA DispatchType ==
  ASSUME Inv, NEW n, NEW t
  PROVE  Dispatch(n, t) \in Def \cup Native \cup {Closed}
<1>1. CASE hasOutboundWithTag(PickRoute(n, t))
  <2>1. PICK i \in DOMAIN outs : outs[i].tag = PickRoute(n, t)
    BY <1>1 DEF hasOutboundWithTag
  <2>2. outs[i].def \in Def \cup Native
    <3>1. outs[i] \in OutSet
      BY <2>1, ElementOfSeq, LenProperties DEF Inv, TypeOK
    <3> QED
      BY <3>1 DEF OutSet
  <2> QED
    BY <2>1, <2>2, TheOutbound DEF Inv, OutInv
<1>2. CASE ~hasOutboundWithTag(PickRoute(n, t))
  BY <1>2 DEF Dispatch
<1> QED
  BY <1>1, <1>2

LEMMA ConnInitInv == DispatchingInit => ConnInv
BY DEF DispatchingInit, SniffInit, ConnInv

LEMMA ConnStep ==
  ASSUME Inv, SniffInv, ConnInv, [DispatchingNext]_allVars
  PROVE  ConnInv'
<1>1. CASE Next /\ UNCHANGED connVars
  <2>1. UNCHANGED <<inbound, via, pc, protocol>>
    BY <1>1 DEF connVars, sniffVars
  <2>2. pc # "none" => FALSE
    BY <1>1 DEF ConnInv, Next, BlockMatch, BlockPort, Block, Route, More, NextNode, Build
  <2> QED
    BY <2>1, <2>2 DEF ConnInv
<1>2. CASE Connect
  BY <1>2 DEF Connect, Begin, ConnInv, vars
<1>3. CASE SniffSteps /\ UNCHANGED <<vars, inbound, via>>
  <2>1. UNCHANGED <<rules, outs, result, inbound, via>>
    BY <1>3 DEF vars
  <2>2. /\ pc \in {"forward", "closed"} => pc' = pc /\ protocol' = protocol
        /\ pc' \in {"forward", "closed"} => pc' = pc
        /\ pc' = "none" <=> pc = "none"
    BY <1>3 DEF SniffSteps, Send, End, Interrupt, Cache, CacheTimeout, CacheError,
                Sniff, NextAttempt, Read, client
  <2> QED
    BY <2>1, <2>2 DEF ConnInv, Dispatch, PickRoute, Hits, hasOutboundWithTag, Seen
<1>4. CASE routedDispatch
  <2>1. /\ via' = Dispatch(inbound, Seen) /\ pc = "route" /\ pc' \in {"forward", "closed"}
        /\ UNCHANGED <<vars, inbound, protocol>>
    BY <1>4 DEF routedDispatch, RoutedDispatch
  <2>2. via' \in Def \cup Native \cup {Closed} /\ via' # "none"
    BY <2>1, DispatchType, ViaAssumption DEF Native, Closed
  <2> QED
    BY <2>1, <2>2 DEF ConnInv, Dispatch, PickRoute, Hits, hasOutboundWithTag, Seen, vars
<1>5. CASE UNCHANGED allVars
  BY <1>5 DEF allVars, connVars, sniffVars, vars, ConnInv, Dispatch, PickRoute, Hits,
              hasOutboundWithTag, Seen
<1> QED
  BY <1>1, <1>2, <1>3, <1>4, <1>5 DEF DispatchingNext

LEMMA ConnInvariance == DispatchingSpec => [](Inv /\ SniffInv /\ ConnInv)
<1>1. DispatchingSpec => []Inv
  BY RoutingAlone, Invariance, PTL
<1>2. DispatchingSpec => []SniffInv
  BY SniffingAlone, SniffInvariance, PTL
<1>3. Inv /\ SniffInv /\ ConnInv /\ [DispatchingNext]_allVars => ConnInv'
  BY ConnStep
<1> QED
  BY <1>1, <1>2, <1>3, ConnInitInv, PTL DEF DispatchingSpec

(***************************************************************************)
(* Routes and connections keep their types together: no connection before  *)
(* the rules are in an instance, an outbound for each that is forwarded.   *)
(***************************************************************************)
THEOREM ConnTypeCorrect == DispatchingSpec => []ConnTypeOK
<1>1. Inv /\ SniffInv /\ ConnInv => ConnTypeOK
  BY DEF Inv, SniffInv, ConnInv, ConnTypeOK
<1> QED
  BY <1>1, ConnInvariance, PTL

(***************************************************************************)
(* What a route forbids for a protocol or a domain is kept from leaving    *)
(* directly when the connection shows it, by whatever address it came.     *)
(***************************************************************************)
THEOREM RoutesSeeContent == DispatchingSpec => []RoutedByContent
<1>1. Inv /\ SniffInv /\ ConnInv => RoutedByContent
  <2> SUFFICES ASSUME Inv, SniffInv, ConnInv, pc = "forward", Shown,
                      conv.until # "needMoreData",
                      named[inbound][Told] \notin {Nobody, "Default"}
               PROVE  via # "freedom"
    BY DEF RoutedByContent
  <2>1. protocol = conv.by
    BY DEF SniffInv, PendInv, Recognised, Decided
  <2>2. conv.by \in Sniffer
    BY ContentAssumption DEF SniffInv, SniffTypeOK, Conversation
  <2>3. via = Dispatch(inbound, Told)
    BY <2>1, <2>2 DEF ConnInv, Seen, Sniffer
  <2>4. inbound \in Node /\ Told \in Target
    BY ToldAssumption DEF ConnInv
  <2> QED
    BY <2>3, <2>4, InvNeverDirect DEF NeverDirect
<1> QED
  BY <1>1, ConnInvariance, PTL

(***************************************************************************)
(* What is proved of the rules and of one connection holds of both at      *)
(* once, in an instance with any routes and any conversation: the rules    *)
(* decide, and what they let out arrives as it was written.                *)
(***************************************************************************)
THEOREM ConnectionsAreServed ==
  DispatchingSpec => /\ [](TagsUnique /\ FirstRouteWins /\ NeverDirect)
                     /\ DecisionsStay
                     /\ [](InOrder /\ Recognised /\ InTime)
                     /\ ImplementsPipe
BY RoutingAlone, NoTagTwice, OwnRoutesDecide, NothingLeaks, DecisionsAreKept,
   SniffingAlone, NothingIsLost, ProtocolIsFound, SniffingIsBounded,
   SniffingIsInvisible, PTL

=============================================================================
