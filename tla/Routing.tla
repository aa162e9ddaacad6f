------------------------------- MODULE Routing --------------------------------
(***************************************************************************)
(* Where a connection goes: GetCustomConfig turns the routes that the      *)
(* panel gives each node into one list of xray rules and one list of       *)
(* outbounds for all nodes; routedDispatch asks xray's router for the      *)
(* first rule that fits and its outbound manager for the tag in that rule. *)
(*                                                                         *)
(* The translation takes one route a step, so what holds in every state    *)
(* holds for every list of routes.  A match is the set of targets it fits; *)
(* domains, addresses, ports and protocols are not told apart.  A route    *)
(* that only adds a DNS server adds neither rule nor outbound.             *)
(***************************************************************************)
EXTENDS Naturals, Sequences, FiniteSetsExt

CONSTANTS
  Node,       \* nodes, by inbound tag
  Target,     \* what a connection asks for
  Dns,        \* the target "port 53 over UDP"
  Custom,     \* tags of outbounds that occur in routes
  NoTag,      \* an outbound that gives no tag
  Def,        \* outbound configurations that occur in routes
  Broken,     \* one that decodes but cannot be built
  Match,      \* the matches that occur in routes
  MaxRoutes   \* bound on the routes of all nodes

Builtin == {"Default", "block", "dns_out"}
Native  == {"freedom", "blackhole", "dns"}
Tag     == Builtin \cup Custom \cup {NoTag}

All    == "all"     \* the rule's inboundTag: any
Nobody == "nobody"  \* no route names the target
Closed == "closed"  \* the connection is closed instead of sent out

ASSUME NodeAssumption   == All \notin Node
ASSUME TargetAssumption == Dns \in Target /\ Match \subseteq SUBSET Target
ASSUME TagAssumption    == {NoTag, Nobody} \cap (Builtin \cup Custom) = {}
                           /\ NoTag # Nobody
ASSUME DefAssumption    == Def \cap (Native \cup {Broken, Closed}) = {}
ASSUME BoundAssumption  == MaxRoutes \in Nat

VARIABLES
  node,       \* the node whose routes are being translated
  left,       \* the nodes after it
  rules,      \* coreRouterConfig.RuleList
  outs,       \* coreOutboundConfig
  result,     \* what getCore makes of them
  named       \* history: the tag under which a node's routes first name a target

vars == <<node, left, rules, outs, result, named>>

RuleSet == [node : Node \cup {All}, fits : SUBSET Target, out : Tag]
OutSet  == [tag : Tag, def : Def \cup Native]

TypeOK ==
  /\ node \in Node
  /\ left \subseteq Node
  /\ rules \in Seq(RuleSet)
  /\ outs \in Seq(OutSet)
  /\ result \in {"none", "instance", "panic"}
  /\ named \in [Node -> [Target -> Tag \cup {Nobody}]]

Rule(n, fits, out)  == [node |-> n, fits |-> fits, out |-> out]
Outbound(tag, def) == [tag |-> tag, def |-> def]

Init ==
  /\ node \in Node
  /\ left = Node \ {node}
  /\ rules = <<Rule(All, {Dns}, "dns_out")>>
  /\ outs = <<Outbound("Default", "freedom"), Outbound("block", "blackhole"),
              Outbound("dns_out", "dns")>>
  /\ result = "none"
  /\ named = [n \in Node |-> [t \in Target |-> Nobody]]

-----------------------------------------------------------------------------
(* Routing a connection *)

\* xray's router takes the first rule whose conditions all hold.
Hits(n, t) ==
  {i \in DOMAIN rules : rules[i].node \in {n, All} /\ t \in rules[i].fits}

PickRoute(n, t) ==
  IF Hits(n, t) = {} THEN "Default" ELSE rules[Min(Hits(n, t))].out

hasOutboundWithTag(tag) == \E i \in DOMAIN outs : outs[i].tag = tag

\* routedDispatch: a tag without an outbound closes the connection.
Dispatch(n, t) ==
  LET tag == PickRoute(n, t)
  IN IF hasOutboundWithTag(tag)
     THEN outs[CHOOSE i \in DOMAIN outs : outs[i].tag = tag].def
     ELSE Closed

-----------------------------------------------------------------------------
(* Translating the routes *)

\* A condition whose list is empty is no condition.
Fits(m) == IF m = {} THEN Target ELSE m

\* Mutation of AddRule: later rules come before earlier ones.
AddRuleFirst(fits, out) == rules' = <<Rule(node, fits, out)>> \o rules

\* Mutation of AddRule: the rule is not bound to the node's inbound.
AddRuleForAll(fits, out) == rules' = Append(rules, Rule(All, fits, out))

AddRule(fits, out) == rules' = Append(rules, Rule(node, fits, out))

\* An outbound is appended unless one has its tag already or it does not build.
AddOutbound(tag, def) ==
  outs' = IF hasOutboundWithTag(tag) \/ def = Broken
          THEN outs
          ELSE Append(outs, Outbound(tag, def))

Name(fits, tag) ==
  named' = [named EXCEPT ![node] =
              [t \in Target |->
                 IF t \in fits /\ @[t] = Nobody THEN tag ELSE @[t]]]

More == result = "none" /\ Len(rules) <= MaxRoutes

Block(fits) ==
  /\ More
  /\ AddRule(fits, "block")
  /\ Name(fits, "block")
  /\ UNCHANGED <<node, left, outs, result>>

\* "block", "block_ip", "protocol".
BlockMatch(m) == Block(Fits(m))

\* "block_port" joins its list to a string of ports: an empty one has none.
BlockPort(m) == Block(m)

\* Mutation of Route: no rule unless its outbound could be built.
RouteIfBuilt(m, tag, def) ==
  /\ More
  /\ IF def = Broken /\ ~hasOutboundWithTag(tag)
     THEN UNCHANGED rules
     ELSE AddRule(Fits(m), tag)
  /\ AddOutbound(tag, def)
  /\ Name(Fits(m), tag)
  /\ UNCHANGED <<node, left, result>>

\* "route", "route_ip" and, for every target, "default_out".  The rule stays
\* even if its outbound is not added.
Route(m, tag, def) ==
  /\ More
  /\ AddRule(Fits(m), tag)
  /\ AddOutbound(tag, def)
  /\ Name(Fits(m), tag)
  /\ UNCHANGED <<node, left, result>>

NextNode ==
  /\ result = "none"
  /\ \E n \in left : node' = n /\ left' = left \ {n}
  /\ UNCHANGED <<rules, outs, result, named>>

\* The configuration is built: xray refuses a rule without an outbound tag, or
\* one whose match it cannot parse, and getCore panics.
Build ==
  /\ result = "none"
  /\ left = {}
  /\ result' \in IF \E i \in DOMAIN rules : rules[i].out = NoTag
                THEN {"panic"} ELSE {"panic", "instance"}
  /\ UNCHANGED <<node, left, rules, outs, named>>

Next ==
  \/ \E m \in Match : BlockMatch(m)
  \/ \E m \in Match : BlockPort(m)
  \/ \E m \in Match, tag \in Tag, def \in Def \cup {Broken} : Route(m, tag, def)
  \/ NextNode
  \/ Build

Spec == Init /\ [][Next]_vars

-----------------------------------------------------------------------------
(* Properties *)

(***************************************************************************)
(* No two outbounds have the same tag, built-in ones included: xray would  *)
(* refuse to start all nodes over one of them.                             *)
(***************************************************************************)
TagsUnique ==
  \A i, j \in DOMAIN outs : outs[i].tag = outs[j].tag => i = j

(***************************************************************************)
(* The first route of a node that names a target decides where the node's  *)
(* connections to it go, whatever routes of other nodes come before and    *)
(* after; name resolution over UDP is the only exception.                  *)
(***************************************************************************)
FirstRouteWins ==
  \A n \in Node, t \in Target :
    PickRoute(n, t) = IF t = Dns THEN "dns_out"
                      ELSE IF named[n][t] = Nobody THEN "Default"
                      ELSE named[n][t]

(***************************************************************************)
(* "the traffic shouldn't be processed by default outbound if the          *)
(* specified outbound tag doesn't exist" (default.go:543): a connection    *)
(* that a route sends elsewhere never leaves directly, even if the         *)
(* outbound of that route could not be built or its tag was taken.         *)
(***************************************************************************)
NeverDirect ==
  \A n \in Node, t \in Target :
    named[n][t] \notin {Nobody, "Default"} => Dispatch(n, t) # "freedom"

(***************************************************************************)
(* What has been decided for a node stays: another route changes only      *)
(* where a connection of its own node goes that would have left directly,  *)
(* or one that would have been closed for want of an outbound.             *)
(***************************************************************************)
DecisionStays ==
  \A n \in Node, t \in Target :
    Dispatch(n, t)' # Dispatch(n, t) =>
      Dispatch(n, t) = Closed \/ (n = node /\ Dispatch(n, t) = "freedom")

DecisionsStay == [][DecisionStays]_vars

=============================================================================
