---------------------------- MODULE RoutingProofs -----------------------------
(***************************************************************************)
(* Proofs about Routing, for any nodes, targets, tags and outbounds and    *)
(* any list of routes.                                                     *)
(*                                                                         *)
(* The properties speak of the smallest index of a rule that fits and of   *)
(* an outbound chosen by its tag.  Inv says the same with witnesses: which *)
(* index is the first, and where the built-in outbounds are.               *)
(***************************************************************************)
EXTENDS Routing, TLAPS

\* The built-in outbounds stay in front; what follows comes from routes.
OutInv ==
  /\ Len(outs) >= 3
  /\ outs[1] = Outbound("Default", "freedom")
  /\ outs[2] = Outbound("block", "blackhole")
  /\ outs[3] = Outbound("dns_out", "dns")
  /\ \A i \in 4..Len(outs) : outs[i].def \in Def
  /\ TagsUnique

\* Of all rules only the first is for any node.
RuleInv ==
  /\ Len(rules) >= 1
  /\ rules[1] = Rule(All, {Dns}, "dns_out")
  /\ \A i \in 2..Len(rules) : rules[i].node \in Node

IsFirst(i, n, t) == i \in Hits(n, t) /\ \A j \in Hits(n, t) : i <= j

HitInv ==
  \A n \in Node, t \in Target \ {Dns} :
    \/ named[n][t] = Nobody /\ Hits(n, t) = {}
    \/ /\ named[n][t] # Nobody
       /\ \E i \in Hits(n, t) :
            IsFirst(i, n, t) /\ rules[i].out = named[n][t]

Inv == TypeOK /\ OutInv /\ RuleInv /\ HitInv

-----------------------------------------------------------------------------
(* Facts about the operators *)

LEMMA FirstIsMin ==
  ASSUME NEW n, NEW t, NEW i, rules \in Seq(RuleSet), IsFirst(i, n, t)
  PROVE  Min(Hits(n, t)) = i
<1>1. Hits(n, t) \subseteq Int
  BY DEF Hits
<1> QED
  BY <1>1 DEF IsFirst, Min

LEMMA FitsType ==
  ASSUME NEW m \in Match
  PROVE  Fits(m) \in SUBSET Target
BY TargetAssumption DEF Fits

-----------------------------------------------------------------------------
(* Adding a rule *)

\* A new rule comes last and is hit only by what it fits.
LEMMA NewHits ==
  ASSUME rules \in Seq(RuleSet), node \in Node,
         NEW F \in SUBSET Target, NEW out \in Tag, AddRule(F, out),
         NEW n \in Node, NEW t \in Target
  PROVE  Hits(n, t)' = IF n = node /\ t \in F
                       THEN Hits(n, t) \cup {Len(rules) + 1}
                       ELSE Hits(n, t)
<1>1. /\ rules' = Append(rules, Rule(node, F, out))
      /\ Len(rules') = Len(rules) + 1
      /\ DOMAIN rules = 1..Len(rules)
      /\ DOMAIN rules' = 1..(Len(rules) + 1)
      /\ Len(rules) \in Nat
  BY DEF AddRule, Rule
<1>2. \A i \in 1..Len(rules) : rules'[i] = rules[i]
  BY <1>1
<1>3. rules'[Len(rules) + 1] = Rule(node, F, out)
  BY <1>1
<1>4. \A i : i \in DOMAIN rules' <=> i \in DOMAIN rules \/ i = Len(rules) + 1
  BY <1>1
<1>5. Rule(node, F, out).node = node /\ Rule(node, F, out).fits = F
  BY DEF Rule
<1>6. node \in {n, All} <=> n = node
  BY NodeAssumption
<1>7. \A i \in DOMAIN rules :
        i \in Hits(n, t)' <=> i \in Hits(n, t)
  BY <1>1, <1>2, <1>4 DEF Hits
<1>8. Len(rules) + 1 \in Hits(n, t)' <=> n = node /\ t \in F
  BY <1>3, <1>4, <1>5, <1>6 DEF Hits
<1>9. Len(rules) + 1 \notin DOMAIN rules
  BY <1>1
<1>10. Hits(n, t) \subseteq DOMAIN rules /\ Hits(n, t)' \subseteq DOMAIN rules'
  BY DEF Hits
<1> QED
  BY <1>4, <1>7, <1>8, <1>9, <1>10

LEMMA RuleStep ==
  ASSUME Inv, node' = node,
         NEW F \in SUBSET Target, NEW out \in Tag,
         AddRule(F, out), Name(F, out)
  PROVE  /\ rules' \in Seq(RuleSet)
         /\ named' \in [Node -> [Target -> Tag \cup {Nobody}]]
         /\ RuleInv'
         /\ HitInv'
<1> DEFINE r == Rule(node, F, out)
<1>1. /\ rules \in Seq(RuleSet)
      /\ node \in Node
      /\ named \in [Node -> [Target -> Tag \cup {Nobody}]]
      /\ RuleInv
      /\ HitInv
  BY DEF Inv, TypeOK
<1>2. r \in RuleSet /\ r.node = node /\ r.out = out
  BY <1>1 DEF Rule, RuleSet
<1>3. rules' = Append(rules, r)
  BY DEF AddRule
<1>4. rules' \in Seq(RuleSet) /\ Len(rules') = Len(rules) + 1 /\ Len(rules) \in Nat
  BY <1>1, <1>2, <1>3
<1>5. \A i \in 1..Len(rules) : rules'[i] = rules[i]
  BY <1>1, <1>2, <1>3
<1>6. rules'[Len(rules) + 1] = r
  BY <1>1, <1>2, <1>3
<1>7. RuleInv'
  <2>1. Len(rules') >= 1 /\ rules'[1] = Rule(All, {Dns}, "dns_out")
    BY <1>1, <1>4, <1>5 DEF RuleInv
  <2>2. ASSUME NEW i \in 2..Len(rules')
        PROVE  rules'[i].node \in Node
    BY <1>1, <1>2, <1>4, <1>5, <1>6 DEF RuleInv
  <2> QED
    BY <2>1, <2>2 DEF RuleInv, Rule
<1>8. \A n \in Node, t \in Target :
        named'[n][t] = IF n = node /\ t \in F /\ named[n][t] = Nobody
                       THEN out ELSE named[n][t]
  BY <1>1 DEF Name
<1>9. named' \in [Node -> [Target -> Tag \cup {Nobody}]]
  BY <1>1 DEF Name
<1>10. HitInv'
  <2> SUFFICES ASSUME NEW n \in Node, NEW t \in Target \ {Dns}
               PROVE  \/ named'[n][t] = Nobody /\ Hits(n, t)' = {}
                      \/ /\ named'[n][t] # Nobody
                         /\ \E i \in Hits(n, t)' :
                              IsFirst(i, n, t)' /\ rules'[i].out = named'[n][t]
    BY DEF HitInv
  <2>0. Hits(n, t)' = IF n = node /\ t \in F
                      THEN Hits(n, t) \cup {Len(rules) + 1}
                      ELSE Hits(n, t)
    BY <1>1, NewHits
  <2>1. Hits(n, t) \subseteq 1..Len(rules)
    BY <1>1 DEF Hits
  <2>2. CASE named[n][t] = Nobody /\ ~(n = node /\ t \in F)
    BY <1>1, <1>8, <2>0, <2>2 DEF HitInv
  <2>3. CASE named[n][t] = Nobody /\ n = node /\ t \in F
    <3>0. PICK k \in Nat : k = Len(rules) + 1
      BY <1>4
    <3>1. Hits(n, t)' = {k}
      BY <1>1, <2>0, <2>3, <3>0 DEF HitInv
    <3>2. named'[n][t] = out /\ out # Nobody
      BY <1>8, <2>3, TagAssumption DEF Tag
    <3>3. IsFirst(k, n, t)'
      BY <3>1 DEF IsFirst
    <3> QED
      BY <1>2, <1>6, <3>0, <3>1, <3>2, <3>3
  <2>4. CASE named[n][t] # Nobody
    <3>1. PICK i \in Hits(n, t) : IsFirst(i, n, t) /\ rules[i].out = named[n][t]
      BY <1>1, <2>4 DEF HitInv
    <3>2. named'[n][t] = named[n][t]
      BY <1>8, <2>4
    <3>3. i \in 1..Len(rules) /\ i <= Len(rules) + 1
      BY <1>4, <2>1
    <3>4. i \in Hits(n, t)' /\ \A j \in Hits(n, t)' : i <= j
      BY <2>0, <3>1, <3>3 DEF IsFirst
    <3> QED
      BY <1>5, <2>4, <3>1, <3>2, <3>3, <3>4 DEF IsFirst
  <2> QED
    BY <2>2, <2>3, <2>4
<1> QED
  BY <1>4, <1>7, <1>9, <1>10

-----------------------------------------------------------------------------
(* Adding an outbound *)

LEMMA OutStep ==
  ASSUME outs \in Seq(OutSet), OutInv,
         NEW tag \in Tag, NEW def \in Def \cup {Broken}, AddOutbound(tag, def)
  PROVE  /\ outs' \in Seq(OutSet)
         /\ OutInv'
         /\ Len(outs') >= Len(outs)
         /\ \A i \in DOMAIN outs : i \in DOMAIN outs' /\ outs'[i] = outs[i]
<1>1. CASE outs' = outs
  BY <1>1 DEF OutInv, TagsUnique
<1>2. CASE outs' # outs
  <2> DEFINE o == Outbound(tag, def)
  <2>1. ~hasOutboundWithTag(tag) /\ def \in Def /\ outs' = Append(outs, o)
    BY <1>2 DEF AddOutbound
  <2>2. o \in OutSet /\ o.tag = tag /\ o.def = def
    BY <2>1 DEF Outbound, OutSet
  <2>3. /\ outs' \in Seq(OutSet)
        /\ Len(outs') = Len(outs) + 1
        /\ Len(outs) \in Nat
        /\ DOMAIN outs = 1..Len(outs)
        /\ DOMAIN outs' = 1..(Len(outs) + 1)
    BY <2>1, <2>2
  <2>4. \A i \in 1..Len(outs) : outs'[i] = outs[i]
    BY <2>1, <2>2
  <2>5. outs'[Len(outs) + 1] = o
    BY <2>1, <2>2
  <2>6. TagsUnique'
    <3> SUFFICES ASSUME NEW i \in DOMAIN outs', NEW j \in DOMAIN outs',
                        outs'[i].tag = outs'[j].tag
                 PROVE  i = j
      BY DEF TagsUnique
    <3>1. \A k \in 1..Len(outs) : outs[k].tag # tag
      BY <2>1, <2>3 DEF hasOutboundWithTag
    <3>2. CASE i \in 1..Len(outs) /\ j \in 1..Len(outs)
      BY <2>3, <2>4, <3>2 DEF OutInv, TagsUnique
    <3>3. CASE i = Len(outs) + 1 /\ j = Len(outs) + 1
      BY <3>3
    <3>4. CASE i \in 1..Len(outs) /\ j = Len(outs) + 1
      BY <2>2, <2>4, <2>5, <3>1, <3>4
    <3>5. CASE i = Len(outs) + 1 /\ j \in 1..Len(outs)
      BY <2>2, <2>4, <2>5, <3>1, <3>5
    <3> QED
      BY <2>3, <3>2, <3>3, <3>4, <3>5
  <2>7. \A i \in 4..Len(outs') : outs'[i].def \in Def
    BY <2>1, <2>2, <2>3, <2>4, <2>5 DEF OutInv
  <2>8. /\ Len(outs') >= 3
        /\ outs'[1] = Outbound("Default", "freedom")
        /\ outs'[2] = Outbound("block", "blackhole")
        /\ outs'[3] = Outbound("dns_out", "dns")
    BY <2>3, <2>4 DEF OutInv
  <2>9. OutInv'
    BY <2>6, <2>7, <2>8 DEF OutInv, Outbound
  <2> QED
    BY <2>3, <2>4, <2>9
<1> QED
  BY <1>1, <1>2

-----------------------------------------------------------------------------
(* The invariant *)

LEMMA InitInv == Init => Inv
<1> SUFFICES ASSUME Init
             PROVE  Inv
  OBVIOUS
<1>1. rules = <<Rule(All, {Dns}, "dns_out")>> /\ Len(rules) = 1
      /\ rules[1] = Rule(All, {Dns}, "dns_out")
  BY DEF Init
<1>2. /\ Len(outs) = 3
      /\ outs[1] = Outbound("Default", "freedom")
      /\ outs[2] = Outbound("block", "blackhole")
      /\ outs[3] = Outbound("dns_out", "dns")
  BY DEF Init
<1>3. \A n \in Node, t \in Target : named[n][t] = Nobody
  BY DEF Init
<1>4. rules \in Seq(RuleSet)
  <2>1. Rule(All, {Dns}, "dns_out") \in RuleSet
    BY TargetAssumption DEF Rule, RuleSet, Tag, Builtin
  <2> QED
    BY <1>1, <2>1
<1>5. outs \in Seq(OutSet)
  <2>1. /\ Outbound("Default", "freedom") \in OutSet
        /\ Outbound("block", "blackhole") \in OutSet
        /\ Outbound("dns_out", "dns") \in OutSet
    BY DEF Outbound, OutSet, Tag, Builtin, Native
  <2> QED
    BY <2>1 DEF Init
<1>6. TypeOK
  BY <1>4, <1>5 DEF Init, TypeOK
<1>7. OutInv
  <2>1. DOMAIN outs = 1..3
    BY <1>2, <1>5
  <2>2. outs[1].tag = "Default" /\ outs[2].tag = "block" /\ outs[3].tag = "dns_out"
    BY <1>2 DEF Outbound
  <2>3. TagsUnique
    <3> SUFFICES ASSUME NEW i \in 1..3, NEW j \in 1..3, outs[i].tag = outs[j].tag
                 PROVE  i = j
      BY <2>1 DEF TagsUnique
    <3>1. (i = 1 \/ i = 2 \/ i = 3) /\ (j = 1 \/ j = 2 \/ j = 3)
      OBVIOUS
    <3> QED
      BY <2>2, <3>1
  <2> QED
    BY <1>2, <2>3 DEF OutInv
<1>8. RuleInv
  BY <1>1 DEF RuleInv
<1>9. HitInv
  <2> SUFFICES ASSUME NEW n \in Node, NEW t \in Target \ {Dns}
               PROVE  Hits(n, t) = {}
    BY <1>3 DEF HitInv
  <2>1. DOMAIN rules = {1} /\ rules[1].fits = {Dns}
    BY <1>1, <1>4 DEF Rule
  <2> QED
    BY <2>1 DEF Hits
<1> QED
  BY <1>6, <1>7, <1>8, <1>9 DEF Inv

LEMMA StepInv == Inv /\ [Next]_vars => Inv'
<1> SUFFICES ASSUME Inv, [Next]_vars
             PROVE  Inv'
  OBVIOUS
<1>0. TypeOK /\ OutInv /\ RuleInv /\ HitInv
  BY DEF Inv
<1>1. ASSUME NEW F \in SUBSET Target, Block(F)
      PROVE  Inv'
  <2>1. "block" \in Tag
    BY DEF Tag, Builtin
  <2>3. /\ AddRule(F, "block") /\ Name(F, "block")
        /\ node' = node /\ left' = left /\ outs' = outs /\ result' = result
    BY <1>1 DEF Block
  <2>4. /\ rules' \in Seq(RuleSet)
        /\ named' \in [Node -> [Target -> Tag \cup {Nobody}]]
        /\ RuleInv'
        /\ HitInv'
    BY <2>1, <2>3, RuleStep
  <2>5. TypeOK'
    BY <1>0, <2>3, <2>4 DEF TypeOK
  <2>6. OutInv'
    BY <1>0, <2>3 DEF OutInv, TagsUnique
  <2> QED
    BY <2>4, <2>5, <2>6 DEF Inv
<1>2. ASSUME NEW m \in Match, NEW tag \in Tag, NEW def \in Def \cup {Broken},
             Route(m, tag, def)
      PROVE  Inv'
  <2>1. Fits(m) \in SUBSET Target
    BY FitsType
  <2>2. /\ AddRule(Fits(m), tag) /\ Name(Fits(m), tag) /\ AddOutbound(tag, def)
        /\ node' = node /\ left' = left /\ result' = result
    BY <1>2 DEF Route
  <2>3. /\ rules' \in Seq(RuleSet)
        /\ named' \in [Node -> [Target -> Tag \cup {Nobody}]]
        /\ RuleInv'
        /\ HitInv'
    BY <2>1, <2>2, RuleStep
  <2>4. outs' \in Seq(OutSet) /\ OutInv'
    BY <1>0, <2>2, OutStep DEF TypeOK
  <2>5. TypeOK'
    BY <1>0, <2>2, <2>3, <2>4 DEF TypeOK
  <2> QED
    BY <2>3, <2>4, <2>5 DEF Inv
<1>3. CASE UNCHANGED <<rules, outs, named>> /\ TypeOK'
  <2>1. OutInv' /\ RuleInv'
    BY <1>0, <1>3 DEF OutInv, RuleInv, TagsUnique
  <2>2. HitInv'
    BY <1>0, <1>3 DEF HitInv, IsFirst, Hits
  <2> QED
    BY <1>3, <2>1, <2>2 DEF Inv
<1>4. NextNode => TypeOK'
  BY <1>0 DEF NextNode, TypeOK
<1>5. Build => TypeOK'
  BY <1>0 DEF Build, TypeOK
<1>6. UNCHANGED vars => TypeOK'
  BY <1>0 DEF vars, TypeOK
<1>7. \A m \in Match : Fits(m) \in SUBSET Target /\ m \in SUBSET Target
  BY FitsType, TargetAssumption
<1> QED
  BY <1>1, <1>2, <1>3, <1>4, <1>5, <1>6, <1>7
  DEF Next, BlockMatch, BlockPort, NextNode, Build, vars

LEMMA Invariance == Spec => []Inv
BY InitInv, StepInv, PTL DEF Spec

-----------------------------------------------------------------------------
(* What the invariant means for a connection *)

\* Resolution of names is caught by the very first rule.
LEMMA DnsFirst ==
  ASSUME Inv, NEW n \in Node
  PROVE  PickRoute(n, Dns) = "dns_out"
<1>1. /\ rules \in Seq(RuleSet) /\ Len(rules) >= 1
      /\ rules[1] = Rule(All, {Dns}, "dns_out")
  BY DEF Inv, TypeOK, RuleInv
<1>2. 1 \in Hits(n, Dns)
  BY <1>1 DEF Hits, Rule
<1>3. IsFirst(1, n, Dns)
  BY <1>1, <1>2 DEF IsFirst, Hits
<1>4. Min(Hits(n, Dns)) = 1
  BY <1>1, <1>3, FirstIsMin
<1> QED
  BY <1>1, <1>2, <1>4 DEF PickRoute, Rule

LEMMA InvFirst == Inv => FirstRouteWins
<1> SUFFICES ASSUME Inv, NEW n \in Node, NEW t \in Target
             PROVE  PickRoute(n, t) = IF t = Dns THEN "dns_out"
                               ELSE IF named[n][t] = Nobody THEN "Default"
                               ELSE named[n][t]
  BY DEF FirstRouteWins
<1>1. CASE t = Dns
  BY <1>1, DnsFirst
<1>2. CASE t # Dns /\ named[n][t] = Nobody
  <2>1. Hits(n, t) = {}
    BY <1>2 DEF Inv, HitInv
  <2> QED
    BY <1>2, <2>1 DEF PickRoute
<1>3. CASE t # Dns /\ named[n][t] # Nobody
  <2>1. PICK i \in Hits(n, t) : IsFirst(i, n, t) /\ rules[i].out = named[n][t]
    BY <1>3 DEF Inv, HitInv
  <2>2. Min(Hits(n, t)) = i
    BY <2>1, FirstIsMin DEF Inv, TypeOK
  <2> QED
    BY <1>3, <2>1, <2>2 DEF PickRoute
<1> QED
  BY <1>1, <1>2, <1>3

\* The outbound of a tag is the only one that has it.
LEMMA TheOutbound ==
  ASSUME TagsUnique, NEW n, NEW t,
         NEW i \in DOMAIN outs, outs[i].tag = PickRoute(n, t)
  PROVE  Dispatch(n, t) = outs[i].def
<1>1. hasOutboundWithTag(PickRoute(n, t))
  BY DEF hasOutboundWithTag
<1>2. (CHOOSE j \in DOMAIN outs : outs[j].tag = PickRoute(n, t)) = i
  BY DEF TagsUnique
<1> QED
  BY <1>1, <1>2 DEF Dispatch

\* Only the tag "Default" leads to the direct exit.
LEMMA DirectIsDefault ==
  ASSUME Inv, NEW n \in Node, NEW t \in Target
  PROVE  Dispatch(n, t) = "freedom" <=> PickRoute(n, t) = "Default"
<1>1. /\ TagsUnique /\ Len(outs) >= 3
      /\ outs[1] = Outbound("Default", "freedom")
      /\ outs[2] = Outbound("block", "blackhole")
      /\ outs[3] = Outbound("dns_out", "dns")
      /\ \A i \in 4..Len(outs) : outs[i].def \in Def
      /\ outs \in Seq(OutSet)
  BY DEF Inv, OutInv, TypeOK
<1>2. DOMAIN outs = 1..Len(outs) /\ 1 \in DOMAIN outs
  BY <1>1
<1>3. ASSUME PickRoute(n, t) = "Default"
      PROVE  Dispatch(n, t) = "freedom"
  <2>1. outs[1].tag = PickRoute(n, t) /\ outs[1].def = "freedom"
    BY <1>1, <1>3 DEF Outbound
  <2> QED
    BY <1>1, <1>2, <2>1, TheOutbound
<1>4. ASSUME Dispatch(n, t) = "freedom"
      PROVE  PickRoute(n, t) = "Default"
  <2>1. hasOutboundWithTag(PickRoute(n, t))
    BY <1>4 DEF Dispatch, Closed
  <2>2. PICK i \in DOMAIN outs : outs[i].tag = PickRoute(n, t)
    BY <2>1 DEF hasOutboundWithTag
  <2>3. outs[i].def = "freedom"
    BY <1>1, <1>4, <2>2, TheOutbound
  <2>4. i \notin 4..Len(outs)
    BY <1>1, <2>3, DefAssumption DEF Native
  <2>5. i = 1 \/ i = 2 \/ i = 3
    BY <1>1, <1>2, <2>4
  <2>6. i = 1
    BY <1>1, <2>3, <2>5 DEF Outbound
  <2> QED
    BY <1>1, <2>2, <2>6 DEF Outbound
<1> QED
  BY <1>3, <1>4

LEMMA InvNeverDirect == Inv => NeverDirect
<1> SUFFICES ASSUME Inv, NEW n \in Node, NEW t \in Target,
                    named[n][t] \notin {Nobody, "Default"}
             PROVE  Dispatch(n, t) # "freedom"
  BY DEF NeverDirect
<1>1. PickRoute(n, t) # "Default"
  BY InvFirst DEF FirstRouteWins
<1> QED
  BY <1>1, DirectIsDefault

-----------------------------------------------------------------------------
(* Theorems *)

(***************************************************************************)
(* Rules, outbounds and the history of names keep their types.             *)
(***************************************************************************)
THEOREM TypeCorrect == Spec => []TypeOK
BY Invariance, PTL DEF Inv

(***************************************************************************)
(* hasOutboundWithTag keeps the tags of coreOutboundConfig apart, so xray  *)
(* never refuses to start over a repeated tag.                             *)
(***************************************************************************)
THEOREM NoTagTwice == Spec => []TagsUnique
<1>1. Inv => TagsUnique
  BY DEF Inv, OutInv
<1> QED
  BY <1>1, Invariance, PTL

(***************************************************************************)
(* One flat list of rules for all nodes gives every node the verdicts of   *)
(* its own routes, in their order.                                         *)
(***************************************************************************)
THEOREM OwnRoutesDecide == Spec => []FirstRouteWins
BY InvFirst, Invariance, PTL

(***************************************************************************)
(* A connection that a route sends elsewhere never leaves directly.        *)
(***************************************************************************)
THEOREM NothingLeaks == Spec => []NeverDirect
BY InvNeverDirect, Invariance, PTL

(***************************************************************************)
(* Another route takes no decision back, of its own node or of another.    *)
(***************************************************************************)
THEOREM DecisionsAreKept == Spec => DecisionsStay
<1>1. Inv /\ Inv' /\ [Next]_vars => [DecisionStays]_vars
  <2> SUFFICES ASSUME Inv, Inv', [Next]_vars,
                      NEW n \in Node, NEW t \in Target,
                      Dispatch(n, t)' # Dispatch(n, t)
               PROVE  \/ Dispatch(n, t) = Closed
                      \/ n = node /\ Dispatch(n, t) = "freedom"
    BY DEF DecisionStays
  <2>0. FirstRouteWins /\ FirstRouteWins'
    BY InvFirst, PTL
  <2>1. /\ PickRoute(n, t) = IF t = Dns THEN "dns_out"
                             ELSE IF named[n][t] = Nobody THEN "Default"
                             ELSE named[n][t]
        /\ PickRoute(n, t)' = IF t = Dns THEN "dns_out"
                              ELSE IF named'[n][t] = Nobody THEN "Default"
                              ELSE named'[n][t]
    BY <2>0 DEF FirstRouteWins
  <2>2. CASE PickRoute(n, t)' # PickRoute(n, t)
    <3>1. t # Dns /\ named'[n][t] # named[n][t]
      BY <2>1, <2>2
    <3>2. named[n][t] = Nobody /\ n = node
      BY <3>1 DEF Inv, TypeOK, Next, BlockMatch, BlockPort, Block, Route, Name, NextNode, Build, vars
    <3> QED
      BY <2>1, <3>1, <3>2, DirectIsDefault
  <2>3. CASE PickRoute(n, t)' = PickRoute(n, t)
    <3>1. \A i \in DOMAIN outs : i \in DOMAIN outs' /\ outs'[i] = outs[i]
      <4>1. CASE outs' = outs
        BY <4>1
      <4>2. ASSUME NEW m \in Match, NEW tag \in Tag,
                   NEW def \in Def \cup {Broken}, Route(m, tag, def)
            PROVE  \A i \in DOMAIN outs : i \in DOMAIN outs' /\ outs'[i] = outs[i]
        BY <4>2, OutStep DEF Route, Inv, TypeOK
      <4> QED
        BY <4>1, <4>2 DEF Next, BlockMatch, BlockPort, Block, NextNode, Build, vars
    <3>2. CASE ~hasOutboundWithTag(PickRoute(n, t))
      BY <3>2 DEF Dispatch
    <3>3. CASE hasOutboundWithTag(PickRoute(n, t))
      <4>1. PICK i \in DOMAIN outs : outs[i].tag = PickRoute(n, t)
        BY <3>3 DEF hasOutboundWithTag
      <4>2. Dispatch(n, t) = outs[i].def
        BY <4>1, TheOutbound DEF Inv, OutInv
      <4>3. /\ hasOutboundWithTag(PickRoute(n, t))'
            /\ i \in DOMAIN outs' /\ outs'[i] = outs[i]
        BY <2>3, <3>1, <4>1 DEF hasOutboundWithTag
      <4>4. (CHOOSE j \in DOMAIN outs' : outs'[j].tag = PickRoute(n, t)') = i
        BY <2>3, <4>1, <4>3 DEF Inv, OutInv, TagsUnique
      <4>5. Dispatch(n, t)' = outs'[i].def
        BY <4>3, <4>4 DEF Dispatch
      <4> QED
        BY <4>2, <4>3, <4>5
    <3> QED
      BY <3>2, <3>3
  <2> QED
    BY <2>2, <2>3
<1> QED
  BY <1>1, Invariance, PTL DEF Spec, DecisionsStay

=============================================================================
