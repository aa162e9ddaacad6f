------------------------------ MODULE NodeSetup -------------------------------
(***************************************************************************)
(* Setting up one node: Controller.Start asks for a certificate, builds    *)
(* the inbound from the files and starts the renewal task; the renewal     *)
(* executions replace the files while the node runs.                       *)
(*                                                                         *)
(* The certificate is written first; the two files belong together when    *)
(* they come from the same order.  A file is truncated and then filled, or *)
(* overwritten if it is there and the certificate is self-signed.  An      *)
(* execution of the renewal task does not look at its context: after its   *)
(* deadline or a reload it goes on, next to those of the new generation.   *)
(* The process may die between any two steps and is started again.         *)
(***************************************************************************)
EXTENDS Inbound, Naturals

CONSTANTS
  Configs,    \* the node's configuration, one of these
  Renewal,    \* executions of renewCertTask that may overlap
  Main,       \* the goroutine of Controller.Start
  Pair,       \* certificates with their keys
  Old,        \* the one that may be there from before
  Missing,    \* a file that does not exist
  Torn,       \* a truncated or half-written file
  None,
  MaxFault    \* bound on crashes, failed calls and reloads

Actor   == Renewal \cup {Main}
Content == Pair \cup {Missing, Torn}

ASSUME ConfigAssumption == Configs \subseteq Config
ASSUME ActorAssumption  == Main \notin Renewal /\ None \notin Actor
ASSUME PairAssumption   == Old \in Pair /\ {Missing, Torn, None} \cap Pair = {}
ASSUME FileAssumption   == Missing # Torn
ASSUME FaultAssumption  == MaxFault \in Nat

VARIABLES
  info,       \* what the panel has for the node
  node,       \* where Controller.Start is
  own,        \* the execution slot of this generation's renewal task
  act,        \* where each actor is in NewLego, RenewCert and writeCert
  pair,       \* what each actor has got from its order
  account,    \* user-<email>.json
  cert, key,  \* CertFile and KeyFile
  due,        \* the certificate in CertFile has 30 days or less to go
  stream,     \* the stream settings of the inbound
  sole,       \* history: who has been writing the pair alone from the start
  spoilt,     \* history: a write of the pair was cut short or overlapped
  faults

vars == <<info, node, own, act, pair, account, cert, key, due, stream, sole,
          spoilt, faults>>
files == <<account, cert, key, due>>

TypeOK ==
  /\ info \in Config
  /\ node \in {"down", "cert", "read", "readKey", "users", "up"}
  /\ own \in Renewal \cup {None}
  /\ act \in [Actor -> {"idle", "lego", "save", "check", "order", "cert0",
                        "cert1", "key0", "key1"}]
  /\ pair \in [Actor -> Pair \cup {None}]
  /\ account \in {"none", "torn", "ok"}
  /\ cert \in Content
  /\ key \in Content
  /\ due \in BOOLEAN
  /\ stream \in Stream
  /\ sole \in Actor \cup {None}
  /\ spoilt \in BOOLEAN
  /\ faults \in 0..MaxFault

Init ==
  /\ info \in {NodeInfo(c) : c \in Configs}
  /\ node = "down"
  /\ own = None
  /\ act = [a \in Actor |-> "idle"]
  /\ pair = [a \in Actor |-> None]
  /\ account = "none"
  /\ cert \in {Missing, Old}
  /\ key \in {Missing, Old}
  /\ due = FALSE
  /\ stream = Unset
  /\ sole = None
  /\ spoilt = (cert # key)
  /\ faults = 0

-----------------------------------------------------------------------------

Fault   == faults < MaxFault /\ faults' = faults + 1
Writing == {a \in Actor : act[a] \in {"cert1", "key0", "key1"}}

\* The process ends, in the middle of whatever is under way.
Die ==
  /\ node' = "down"
  /\ own' = None
  /\ act' = [a \in Actor |-> "idle"]
  /\ pair' = [a \in Actor |-> None]
  /\ stream' = Unset
  /\ sole' = None
  /\ spoilt' = (spoilt \/ Writing # {})
  /\ UNCHANGED <<info, files>>

\* Mutation of Abort: an execution that has not renewed anything ends its task.
AbortEndsTask(a) ==
  \/ a = Main /\ Die
  \/ /\ a # Main
     /\ act' = [act EXCEPT ![a] = "idle"]
     /\ pair' = [pair EXCEPT ![a] = None]
     /\ sole' = IF sole = a THEN None ELSE sole
     /\ spoilt' = (spoilt \/ a \in Writing)
     /\ own' = IF own = a THEN None ELSE own
     /\ UNCHANGED <<info, node, files, stream>>

\* An error ends the process if Start returns it, and is logged by the task.
Abort(a) ==
  \/ a = Main /\ Die
  \/ /\ a # Main
     /\ act' = [act EXCEPT ![a] = "idle"]
     /\ pair' = [pair EXCEPT ![a] = None]
     /\ sole' = IF sole = a THEN None ELSE sole
     /\ spoilt' = (spoilt \/ a \in Writing)
     /\ UNCHANGED <<info, node, own, files, stream>>

\* The actor goes on with NewLego, RenewCert or writeCert.
Goto(a, s) ==
  /\ act' = [act EXCEPT ![a] = s]
  /\ UNCHANGED <<info, node, own, stream, faults>>

\* requestCert returns to Start; an execution of the task is over.
Return(a) ==
  /\ act' = [act EXCEPT ![a] = "idle"]
  /\ node' = IF a = Main THEN "read" ELSE node
  /\ UNCHANGED <<info, own, stream, faults>>

-----------------------------------------------------------------------------
(* Controller.Start *)

GetNodeInfo ==
  /\ node = "down"
  /\ Decodes(info)
  /\ node' = "cert"
  /\ UNCHANGED <<info, own, act, pair, files, stream, sole, spoilt, faults>>

Ordered == info.certMode \in {"acme", "self"}
Present == cert # Missing /\ key # Missing

\* Mutation of Absent: one of the files is enough.
BothAbsent == cert = Missing /\ key = Missing

Absent == ~Present

\* A file is there when it exists; what is in it is not looked at.
requestCert ==
  /\ node = "cert"
  /\ act[Main] = "idle"
  /\ \/ /\ ~WantsTls(info) \/ info.certMode = "file" \/ (Ordered /\ ~Absent)
        /\ node' = "read"
        /\ UNCHANGED <<info, own, act, pair, files, stream, sole, spoilt, faults>>
     \/ /\ WantsTls(info) /\ Ordered /\ Absent
        /\ Goto(Main, IF info.certMode = "acme" THEN "lego" ELSE "order")
        /\ UNCHANGED <<pair, files, sole, spoilt>>
     \/ /\ WantsTls(info) /\ info.certMode = "other"
        /\ Die
        /\ UNCHANGED faults

\* buildInbound and the certificate read by InboundDetourConfig.Build.
AddNode ==
  /\ node = "read"
  /\ LET s == buildInbound(info)
     IN IF XrayBuilds(info, s) /\ (s.security = "tls" => cert # Missing)
        THEN /\ stream' = s
             /\ node' = IF s.security = "tls" THEN "readKey" ELSE "users"
             /\ UNCHANGED <<info, own, act, pair, files, sole, spoilt, faults>>
        ELSE Die /\ UNCHANGED faults

ReadKey ==
  /\ node = "readKey"
  /\ IF key # Missing
     THEN /\ node' = "users"
          /\ UNCHANGED <<info, own, act, pair, files, stream, sole, spoilt, faults>>
     ELSE Die /\ UNCHANGED faults

\* The renewal task is for certificates that were ordered from the CA.  Its
\* first execution starts at once, and no Close comes in between.
startTasks ==
  /\ node = "users"
  /\ IF info.tls = "tls" /\ info.certMode = "acme"
     THEN \E r \in Renewal :
            /\ act[r] = "idle"
            /\ own' = r
            /\ act' = [act EXCEPT ![r] = "lego"]
     ELSE UNCHANGED <<own, act>>
  /\ node' = "up"
  /\ UNCHANGED <<info, pair, files, stream, sole, spoilt, faults>>

Boot == GetNodeInfo \/ requestCert \/ AddNode \/ ReadKey \/ startTasks

-----------------------------------------------------------------------------
(* NewLego, RenewCert and writeCert, for Start and for the task *)

\* Every day.
Tick ==
  /\ node = "up"
  /\ own # None
  /\ act[own] = "idle"
  /\ Goto(own, "lego")
  /\ UNCHANGED <<pair, files, sole, spoilt>>

Known(a) == IF a = Main THEN "order" ELSE "check"

\* NewLegoUser loads the account, or registers one and opens the file for it.
NewLegoUser(a) ==
  /\ act[a] = "lego"
  /\ \/ /\ account = "ok"
        /\ Goto(a, Known(a))
        /\ UNCHANGED <<pair, files, sole, spoilt>>
     \/ /\ account = "torn"
        /\ Abort(a)
        /\ UNCHANGED faults
     \/ /\ account = "none"
        /\ account' = "torn"
        /\ Goto(a, "save")
        /\ UNCHANGED <<pair, cert, key, due, sole, spoilt>>

Save(a) ==
  /\ act[a] = "save"
  /\ account' = "ok"
  /\ Goto(a, Known(a))
  /\ UNCHANGED <<pair, cert, key, due, sole, spoilt>>

Due == cert \in Pair /\ due

\* A certificate that does not parse counts as one that is not due: RenewCert
\* looks at CheckCert's answer before its error.
CheckCert(a) ==
  /\ act[a] = "check"
  /\ IF Due
     THEN Goto(a, "order") /\ UNCHANGED <<pair, files, sole, spoilt>>
     ELSE Abort(a) /\ UNCHANGED faults

InUse == {cert, key} \cup {pair[a] : a \in Actor}

\* Obtain, Renew or a self-signed certificate: a new key every time.
Order(a) ==
  /\ act[a] = "order"
  /\ Pair \ InUse # {}
  /\ pair' = [pair EXCEPT ![a] = CHOOSE p \in Pair : p \notin InUse]
  /\ Goto(a, "cert0")
  /\ UNCHANGED <<files, sole, spoilt>>

\* parseParams is only applied here: with a template another file is written.
Elsewhere == info.template /\ info.certMode = "acme"

WriteElsewhere(a) ==
  /\ act[a] = "cert0"
  /\ Elsewhere
  /\ pair' = [pair EXCEPT ![a] = None]
  /\ Return(a)
  /\ UNCHANGED <<files, sole, spoilt>>

Opened(f) == IF info.certMode = "self" /\ f # Missing THEN f ELSE Torn

TruncateCert(a) ==
  /\ act[a] = "cert0"
  /\ ~Elsewhere
  /\ cert' = Opened(cert)
  /\ due' = (due /\ cert' # Torn)
  /\ Goto(a, "cert1")
  /\ sole' = IF Writing = {} THEN a ELSE None
  /\ spoilt' = (spoilt \/ Writing # {})
  /\ UNCHANGED <<pair, account, key>>

\* Mutation of WriteCert: the key is released with the certificate.
WriteCertOnly(a) ==
  /\ act[a] = "cert1"
  /\ cert' = pair[a]
  /\ due' = FALSE
  /\ pair' = [pair EXCEPT ![a] = None]
  /\ Goto(a, "key0")
  /\ UNCHANGED <<account, key, sole, spoilt>>

WriteCert(a) ==
  /\ act[a] = "cert1"
  /\ cert' = pair[a]
  /\ due' = FALSE
  /\ Goto(a, "key0")
  /\ UNCHANGED <<pair, account, key, sole, spoilt>>

TruncateKey(a) ==
  /\ act[a] = "key0"
  /\ key' = Opened(key)
  /\ Goto(a, "key1")
  /\ UNCHANGED <<pair, account, cert, due, sole, spoilt>>

\* Mutation of WriteKey: the resource of Renew has no key of its own.
KeepKey(a) ==
  /\ act[a] = "key1"
  /\ key' = CHOOSE p \in Pair : p # pair[a]
  /\ pair' = [pair EXCEPT ![a] = None]
  /\ sole' = IF sole = a THEN None ELSE sole
  /\ spoilt' = (spoilt /\ sole # a)
  /\ Return(a)
  /\ UNCHANGED <<account, cert, due>>

WriteKey(a) ==
  /\ act[a] = "key1"
  /\ key' = pair[a]
  /\ pair' = [pair EXCEPT ![a] = None]
  /\ sole' = IF sole = a THEN None ELSE sole
  /\ spoilt' = (spoilt /\ sole # a)
  /\ Return(a)
  /\ UNCHANGED <<account, cert, due>>

\* The CA, the network or the disk fails the actor.
Fails(a) ==
  /\ act[a] # "idle"
  /\ Fault
  /\ Abort(a)

Acts(a) ==
  \/ NewLegoUser(a) \/ Save(a) \/ CheckCert(a) \/ Order(a)
  \/ WriteElsewhere(a)
  \/ TruncateCert(a) \/ WriteCert(a) \/ TruncateKey(a) \/ WriteKey(a)

-----------------------------------------------------------------------------

Crash ==
  /\ node # "down"
  /\ Fault
  /\ Die

\* The node is closed and started again.  With an interval of zero the deadline
\* of the node's tasks, a multiple of it, has passed when they start.
Reload ==
  /\ node = "up"
  /\ Fault \/ (info.interval = "zero" /\ UNCHANGED faults)
  /\ node' = "cert"
  /\ own' = None
  /\ stream' = Unset
  /\ UNCHANGED <<info, act, pair, files, sole, spoilt>>

\* Time passes.
Expire ==
  /\ cert \in Pair
  /\ ~due
  /\ due' = TRUE
  /\ UNCHANGED <<info, node, own, act, pair, account, cert, key, stream, sole,
                 spoilt, faults>>

Next ==
  \/ Boot \/ Tick \/ Crash \/ Reload \/ Expire
  \/ \E a \in Actor : Acts(a) \/ Fails(a)

Spec == Init /\ [][Next]_vars

\* The service is restarted whenever it ends, the task's timer fires and every
\* goroutine runs; calls of the CA return, with or without a certificate.
FairSpec ==
  /\ Spec
  /\ WF_vars(Boot)
  /\ WF_vars(Tick)
  /\ \A a \in Actor : WF_vars(Acts(a))

-----------------------------------------------------------------------------
(* Properties *)

(***************************************************************************)
(* Outside of a write the certificate and the key belong together, unless  *)
(* the last write was cut short by a crash or an error, or overlapped with *)
(* another: requestCert and one renewal at a time never mix two orders.    *)
(***************************************************************************)
FilesMatch == Writing = {} /\ ~spoilt => cert = key

(***************************************************************************)
(* The inbound that comes up is the one configured on the panel, whatever  *)
(* builder made its stream settings and whatever they were merged with:    *)
(* with TLS or REALITY exactly if asked for and with a certificate mode,   *)
(* with the PROXY protocol exactly if asked for, over the network it names *)
(* where it has settings, and without UDP under an HTTP header.            *)
(***************************************************************************)
InboundAsConfigured ==
  node \in {"users", "up"} =>
    /\ stream.security =
         IF info.tls = "tls" /\ info.certMode = "none" THEN "none" ELSE info.tls
    /\ stream.proxy = Proxied(info)
    /\ info.protocol = "shadowsocks" => stream.udp = ~Headed(info)
    /\ info.protocol \in {"vless", "vmess", "anytls"} /\ info.settings # "absent"
         => stream.network = info.network

(***************************************************************************)
(* The accounts of AddUsers are of the kind that the proxy behind the      *)
(* inbound understands: buildSSUser decides by the server key, xray by the *)
(* cipher, and AddNode does not succeed where they differ.                 *)
(***************************************************************************)
AccountsFit == node \in {"users", "up"} => Account(info) = Proxy(info)

(***************************************************************************)
(* AddNode finds the files that Start has ordered: whichever of the two is *)
(* missing, whatever crash or error has left them so, requestCert orders   *)
(* both, and no renewal takes one away that is there.  (Not with a name    *)
(* template, under which the files ordered are others.)                    *)
(***************************************************************************)
FilesPresent ==
  node \in {"read", "readKey", "users", "up"} /\ WantsTls(info) /\ Ordered
    /\ ~Elsewhere => Present

(***************************************************************************)
(* A node with a configuration that can be set up comes up again after     *)
(* every crash, failed order and reload, also when it was cut short while  *)
(* writing the files, unless the file of the CA's account was left torn:   *)
(* NewLegoUser neither repairs nor replaces it.                            *)
(***************************************************************************)
Sound ==
  /\ Decodes(info)
  /\ XrayBuilds(info, buildInbound(info))
  /\ WantsTls(info) => info.certMode # "other" /\ ~Elsewhere
  /\ info.certMode = "file" => Present

NodeComesUp ==
  Sound => []<>(node = "up" \/ (account = "torn" /\ ~Present))

(***************************************************************************)
(* A certificate that becomes due is replaced, whatever fails on the way   *)
(* and however often the node is reloaded, unless a write of it has left a *)
(* torn file or the account is lost.                                       *)
(***************************************************************************)
DueIsRenewed ==
  Sound /\ WantsTls(info) /\ info.certMode = "acme" =>
    (Due ~> (~Due \/ account = "torn"))

=============================================================================
