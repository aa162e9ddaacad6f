----------------------------- MODULE Dispatching ------------------------------
(***************************************************************************)
(* A connection between the panel's routes and what it carries: Routing    *)
(* builds the rules and the outbounds of an instance, Sniffing follows one *)
(* connection to it, and routedDispatch sends the connection where the     *)
(* rules send what sniffing has made of it.                                *)
(***************************************************************************)
EXTENDS Routing, Sniffing

CONSTANTS
  Address,    \* the target by the address the client asks for
  Told,       \* the target once the protocol, and maybe a domain, is known
  MaxFollowed \* bound on the routes of an instance whose connections are followed

ASSUME ToldAssumption   == {Address, Told} \subseteq Target \ {Dns}
ASSUME ViaAssumption    == "none" \notin Def
ASSUME FollowAssumption == MaxFollowed \in Nat

VARIABLES
  inbound,    \* the node of the connection
  via         \* the outbound it was given, by its configuration

connVars == <<sniffVars, inbound, via>>
allVars  == <<vars, connVars>>

ConnTypeOK ==
  /\ TypeOK
  /\ SniffTypeOK
  /\ inbound \in Node
  /\ via \in Def \cup Native \cup {Closed, "none"}
  /\ pc # "none" => result = "instance"
  /\ pc \in {"forward", "closed"} <=> via # "none"

DispatchingInit ==
  /\ Init
  /\ SniffInit
  /\ inbound \in Node
  /\ via = "none"

Connect ==
  /\ result = "instance"
  /\ Len(rules) <= 1 + MaxFollowed
  /\ Begin
  /\ inbound' \in Node
  /\ UNCHANGED <<vars, via>>

\* Mutation of Seen: only a domain counts, the protocol does not.
SeenDomain == IF target = "domain" THEN Told ELSE Address

\* The router sees content.Protocol and the target of the session.
Seen == IF protocol # "none" THEN Told ELSE Address

routedDispatch ==
  /\ via' = Dispatch(inbound, Seen)
  /\ RoutedDispatch(via' = Closed)
  /\ UNCHANGED <<vars, inbound>>

DispatchingNext ==
  \/ Next /\ UNCHANGED connVars
  \/ Connect
  \/ SniffSteps /\ UNCHANGED <<vars, inbound, via>>
  \/ routedDispatch

DispatchingSpec == DispatchingInit /\ [][DispatchingNext]_allVars

-----------------------------------------------------------------------------
(* Properties *)

(***************************************************************************)
(* A route to block or redirect something holds for it by whatever address *)
(* it comes: once enough has been read to recognise it, a connection that  *)
(* the node's routes send elsewhere does not leave directly.               *)
(***************************************************************************)
RoutedByContent ==
  pc = "forward" /\ Shown /\ conv.until # "needMoreData"
  /\ named[inbound][Told] \notin {Nobody, "Default"} => via # "freedom"

=============================================================================
