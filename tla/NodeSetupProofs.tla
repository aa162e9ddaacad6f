--------------------------- MODULE NodeSetupProofs ----------------------------
(***************************************************************************)
(* Proofs about NodeSetup and Inbound, for any configurations of the node, *)
(* any number of overlapping renewals and any number of faults.            *)
(*                                                                         *)
(* Of the files the argument only follows a writer that has been alone     *)
(* since it truncated the certificate; for the inbound it follows the      *)
(* stream settings through Transport, Socket and Secure.                   *)
(***************************************************************************)
EXTENDS NodeSetup, TLAPS

Steps == {"idle", "lego", "save", "check", "order", "cert0", "cert1", "key0",
          "key1"}

\* An actor that writes has something to write.
PairInv ==
  \A a \in Actor : act[a] \in {"cert0", "cert1", "key0", "key1"} => pair[a] \in Pair

\* A writer is alone, with its own certificate in the file, or spoilt is set.
SoleInv ==
  /\ sole # None => /\ sole \in Writing
                    /\ \A a \in Writing : a = sole
                    /\ act[sole] \in {"key0", "key1"} => cert = pair[sole]
  /\ sole = None /\ Writing # {} => spoilt

\* Start orders certificates between GetNodeInfo and AddNode; from AddNode on
\* the inbound is the one built, and xray has accepted it.
BuiltInv ==
  /\ act[Main] # "idle" => node = "cert"
  /\ node # "down" => info.protocol \in Protocol
  /\ node \in {"readKey", "users", "up"} =>
       /\ stream = buildInbound(info)
       /\ XrayBuilds(info, stream)

Core == TypeOK /\ PairInv /\ BuiltInv
Tidy == SoleInv /\ FilesMatch

-----------------------------------------------------------------------------
(* The inbound *)

LEMMA NodeInfoType == \A c \in Configs : NodeInfo(c) \in Config
<1> SUFFICES ASSUME NEW c \in Configs PROVE NodeInfo(c) \in Config
  OBVIOUS
<1>1. c \in Config
  BY ConfigAssumption
<1> QED
  BY <1>1 DEF NodeInfo, Config

LEMMA ConfigFields ==
  ASSUME NEW i \in Config
  PROVE  /\ i.protocol \in Protocol \cup {"other"} /\ i.network \in Network
         /\ i.tls \in {"none", "tls", "reality"} /\ i.settings \in Settings
BY DEF Config

LEMMA OverIs ==
  \A n \in Network \cup {"unset", "error", "hysteria", "tuic"} :
    /\ Over(n) \in Stream
    /\ Over(n).network = n
    /\ Over(n).security = "none"
    /\ Over(n).udp = TRUE
BY DEF Over, Stream

LEMMA StreamChanges ==
  ASSUME NEW s \in Stream
  PROVE  /\ \A b \in BOOLEAN :
              /\ [s EXCEPT !.udp = b] \in Stream
              /\ [s EXCEPT !.udp = b].udp = b
              /\ [s EXCEPT !.udp = b].network = s.network
              /\ [s EXCEPT !.udp = b].security = s.security
         /\ \A b \in BOOLEAN :
              /\ [s EXCEPT !.proxy = b] \in Stream
              /\ [s EXCEPT !.proxy = b].proxy = b
              /\ [s EXCEPT !.proxy = b].udp = s.udp
              /\ [s EXCEPT !.proxy = b].network = s.network
              /\ [s EXCEPT !.proxy = b].security = s.security
         /\ \A t \in {"none", "tls", "reality"} :
              /\ [s EXCEPT !.security = t] \in Stream
              /\ [s EXCEPT !.security = t].security = t
              /\ [s EXCEPT !.security = t].udp = s.udp
              /\ [s EXCEPT !.security = t].network = s.network
              /\ [s EXCEPT !.security = t].proxy = s.proxy
BY DEF Stream

LEMMA StreamFields ==
  ASSUME NEW s \in Stream
  PROVE  s.proxy \in BOOLEAN /\ s.udp \in BOOLEAN
BY DEF Stream

\* What the builders leave: no security yet, and no PROXY protocol.
TransportIs(i, s) ==
  /\ s \in Stream
  /\ s.security = "none"
  /\ i.protocol = "shadowsocks" /\ i.settings # "bad" => s.udp = ~Headed(i)
  /\ i.protocol = "shadowsocks" /\ s.network = "unset" => ~Proxied(i)
  /\ i.protocol \in {"vless", "vmess", "anytls"} /\ i.settings # "absent" =>
       s.network \in {"error", i.network}

LEMMA TransportType ==
  ASSUME NEW i \in Config, i.protocol \in Protocol
  PROVE  TransportIs(i, Transport(i))
<1>1. /\ i.settings \in Settings /\ i.network \in Network
  BY ConfigFields
<1>2. AnyNetwork \subseteq Network /\ "tcp" \in Network
  BY DEF AnyNetwork, Network
<1>3. \A n \in Network, N \in SUBSET Network :
        /\ Decoded(i, n, N) \in Stream
        /\ Decoded(i, n, N).security = "none"
        /\ Decoded(i, n, N).network \in {"error", n}
  BY OverIs DEF Decoded, Error
<1>4. \A n \in Network \cup {"unset", "error", "hysteria", "tuic"} :
        Over(n) \in Stream /\ Over(n).security = "none" /\ Over(n).network = n
  BY OverIs
<1>5. CASE i.protocol = "vless"
  <2>1. Transport(i) = VLess(i)
    BY <1>5 DEF Transport
  <2> QED
    BY <1>1, <1>2, <1>3, <1>4, <1>5, <2>1 DEF VLess, TransportIs, Error, Unset
<1>6. CASE i.protocol = "vmess"
  <2>1. Transport(i) = VMess(i)
    BY <1>6 DEF Transport
  <2> QED
    BY <1>1, <1>2, <1>3, <1>4, <1>6, <2>1 DEF VMess, TransportIs, Unset
<1>7. CASE i.protocol = "trojan"
  <2>1. Transport(i) = Trojan(i)
    BY <1>7 DEF Transport
  <2>2. {"tcp", "ws", "grpc"} \subseteq Network
    BY DEF Network
  <2> QED
    <3> DEFINE n == IF i.network = "" THEN "tcp" ELSE i.network
    <3>1. n \in Network
      BY <1>1, <1>2
    <3>2. Transport(i) \in {Over(n), Decoded(i, n, {"tcp", "ws", "grpc"})}
      BY <2>1 DEF Trojan
    <3> HIDE DEF n
    <3>3. Transport(i) \in Stream /\ Transport(i).security = "none"
      BY <1>3, <1>4, <2>2, <3>1, <3>2
    <3> QED
      BY <1>7, <3>3 DEF TransportIs
<1>8. CASE i.protocol = "shadowsocks"
  <2>1. Transport(i) = Shadowsocks(i)
    BY <1>8 DEF Transport
  <2>2. CASE i.settings = "bad"
    <3>1. Transport(i) = Over("error")
      <4>1. Shadowsocks(i) = Error
        <5>1. ~(Proxied(i) \/ Headed(i))
          BY <2>2 DEF Proxied, Headed
        <5> QED
          BY <2>2, <5>1, Zenon DEF Shadowsocks
      <4> QED
        BY <2>1, <4>1 DEF Error
    <3>2. Transport(i) \in Stream /\ Transport(i).security = "none"
      BY <1>4, <3>1
    <3>3. Transport(i).network = "error"
      BY <1>4, <3>1
    <3> QED
      BY <1>8, <2>2, <3>2, <3>3 DEF TransportIs
  <2>3. CASE i.settings # "bad" /\ (Proxied(i) \/ Headed(i))
    <3> DEFINE s == Over("tcp")
    <3>1. Transport(i) = [s EXCEPT !.udp = ~Headed(i)]
      BY <2>1, <2>3 DEF Shadowsocks
    <3>2. s \in Stream /\ s.security = "none" /\ s.network = "tcp"
      BY <1>2, <1>4
    <3> HIDE DEF s
    <3>3. PICK b \in BOOLEAN : b = ~Headed(i)
      <4>1. CASE Headed(i)
        <5>1. FALSE = ~Headed(i)
          BY <4>1
        <5> QED
          BY <5>1
      <4>2. CASE ~Headed(i)
        <5>1. TRUE = ~Headed(i)
          BY <4>2
        <5> QED
          BY <5>1
      <4> QED
        BY <4>1, <4>2
    <3>4. Transport(i) = [s EXCEPT !.udp = b]
      BY <3>1, <3>3, Zenon
    <3>5. /\ Transport(i) \in Stream
          /\ Transport(i).udp = b
          /\ Transport(i).network = "tcp"
          /\ Transport(i).security = "none"
      <4> DEFINE r == [s EXCEPT !.udp = b]
      <4>1. /\ r \in Stream
            /\ r.udp = b
            /\ r.network = s.network
            /\ r.security = s.security
        BY <3>2, StreamChanges
      <4>2. Transport(i) = r
        BY <3>4
      <4> HIDE DEF r
      <4> QED
        BY <3>2, <4>1, <4>2
    <3>6. Transport(i).udp = ~Headed(i)
      BY <3>3, <3>5, Zenon
    <3> QED
      BY <1>8, <3>5, <3>6 DEF TransportIs
  <2>4. CASE i.settings # "bad" /\ ~(Proxied(i) \/ Headed(i))
    <3>1. Transport(i) = Over("unset")
      BY <2>1, <2>4 DEF Shadowsocks, Unset
    <3> QED
      BY <1>8, <2>4, <3>1, OverIs DEF TransportIs
  <2> QED
    BY <2>2, <2>3, <2>4
<1>9. CASE i.protocol \in {"hysteria2", "tuic"}
  <2>1. Transport(i) \in {Over("hysteria"), Over("tuic")}
    BY <1>9 DEF Transport, Hysteria2, Tuic
  <2> QED
    BY <1>4, <1>9, <2>1 DEF TransportIs
<1>10. CASE i.protocol = "anytls"
  <2>1. Transport(i) = AnyTLS(i)
    BY <1>10 DEF Transport
  <2> QED
    BY <1>1, <1>2, <1>3, <1>4, <1>10, <2>1 DEF AnyTLS, TransportIs
<1> QED
  BY <1>5, <1>6, <1>7, <1>8, <1>9, <1>10 DEF Protocol

LEMMA ProxiedIs == \A i : Proxied(i) \in BOOLEAN
<1> SUFFICES ASSUME NEW i PROVE Proxied(i) \in BOOLEAN
  OBVIOUS
<1>1. CASE Proxied(i)
  <2>1. TRUE = Proxied(i)
    BY <1>1
  <2> QED
    BY <2>1
<1>2. CASE ~Proxied(i)
  <2>1. FALSE = Proxied(i)
    BY <1>2
  <2> QED
    BY <2>1
<1> QED
  BY <1>1, <1>2

\* What buildInbound's second look at the settings adds, where they decode.
SocketIs(i, s) ==
  /\ s \in Stream
  /\ s.security = "none"
  /\ s.proxy = Proxied(i)
  /\ i.protocol = "shadowsocks" => s.udp = ~Headed(i)
  /\ i.protocol \in {"vless", "vmess", "anytls"} /\ i.settings # "absent" =>
       s.network \in {"error", i.network}

LEMMA SocketType ==
  ASSUME NEW i \in Config, NEW t, TransportIs(i, t), i.settings # "bad"
  PROVE  SocketIs(i, Socket(i, t))
<1>1. /\ t \in Stream /\ t.security = "none"
      /\ i.protocol = "shadowsocks" => t.udp = ~Headed(i)
      /\ i.protocol = "shadowsocks" /\ t.network = "unset" => ~Proxied(i)
      /\ i.protocol \in {"vless", "vmess", "anytls"} /\ i.settings # "absent" =>
           t.network \in {"error", i.network}
  BY Zenon DEF TransportIs
<1>2. i.network \in Network
  BY ConfigFields
<1>3. CASE t.network = "unset" /\ Proxied(i)
  <2> DEFINE o == Over(i.network)
             s == [o EXCEPT !.proxy = TRUE]
  <2>1. Socket(i, t) = s
    BY <1>3 DEF Socket
  <2>2. o \in Stream /\ o.network = i.network /\ o.security = "none"
    BY <1>2, OverIs
  <2> HIDE DEF o
  <2>3. s \in Stream /\ s.proxy = TRUE /\ s.network = i.network /\ s.security = "none"
    BY <2>2, StreamChanges
  <2> HIDE DEF s
  <2>4. s.proxy = Proxied(i)
    BY <1>3, <2>3, Zenon
  <2> QED
    BY <1>1, <1>3, <2>1, <2>3, <2>4 DEF SocketIs
<1>4. CASE ~(t.network = "unset" /\ Proxied(i))
  <2>1. PICK b \in BOOLEAN : b = Proxied(i)
    BY ProxiedIs, Zenon
  <2> DEFINE s == [t EXCEPT !.proxy = b]
  <2>2. Socket(i, t) = s
    <3>1. Socket(i, t) = [t EXCEPT !.proxy = Proxied(i)]
      BY <1>4, Zenon DEF Socket
    <3> QED
      BY <2>1, <3>1, Zenon
  <2>3. /\ s \in Stream /\ s.proxy = b /\ s.network = t.network
        /\ s.security = "none" /\ s.udp = t.udp
    BY <1>1, StreamChanges
  <2> HIDE DEF s
  <2>4. s.proxy = Proxied(i)
    BY <2>1, <2>3, Zenon
  <2>5. i.protocol = "shadowsocks" => s.udp = ~Headed(i)
    BY <1>1, <2>3, Zenon
  <2>6. i.protocol \in {"vless", "vmess", "anytls"} /\ i.settings # "absent" =>
          s.network \in {"error", i.network}
    BY <1>1, <2>3, Zenon
  <2> QED
    BY <2>2, <2>3, <2>4, <2>5, <2>6, Zenon DEF SocketIs
<1> QED
  BY <1>3, <1>4

\* With Secure the stream settings are what InboundAsConfigured asks for.
Configured(i, s) ==
  /\ s.security = IF i.tls = "tls" /\ i.certMode = "none" THEN "none" ELSE i.tls
  /\ s.proxy = Proxied(i)
  /\ i.protocol = "shadowsocks" => s.udp = ~Headed(i)
  /\ i.protocol \in {"vless", "vmess", "anytls"} /\ i.settings # "absent" =>
       s.network \in {"error", i.network}

LEMMA SecureType ==
  ASSUME NEW i \in Config, NEW s, SocketIs(i, s)
  PROVE  Secure(i, s) \in Stream /\ Configured(i, Secure(i, s))
<1>1. /\ s \in Stream /\ s.security = "none"
      /\ s.proxy = Proxied(i)
      /\ i.protocol = "shadowsocks" => s.udp = ~Headed(i)
      /\ i.protocol \in {"vless", "vmess", "anytls"} /\ i.settings # "absent" =>
           s.network \in {"error", i.network}
  BY Zenon DEF SocketIs
<1> DEFINE k == IF i.tls = "tls" /\ i.certMode = "none" THEN "none" ELSE i.tls
<1>2. k \in {"none", "tls", "reality"}
  BY ConfigFields
<1>3. Secure(i, s) \in {s, [s EXCEPT !.security = k]} /\ Secure(i, s).security = k
  <2>1. CASE WantsTls(i)
    <3>1. k = "tls" /\ i.tls # "reality"
      BY <2>1 DEF WantsTls
    <3>2. Secure(i, s) = [s EXCEPT !.security = "tls"]
      BY <2>1, <3>1 DEF Secure
    <3> QED
      BY <1>1, <3>1, <3>2, StreamChanges
  <2>2. CASE ~WantsTls(i) /\ i.tls = "reality"
    <3>1. Secure(i, s) = [s EXCEPT !.security = "reality"]
      BY <2>2 DEF Secure
    <3> QED
      BY <1>1, <2>2, <3>1, StreamChanges
  <2>3. CASE ~WantsTls(i) /\ i.tls # "reality"
    <3>1. k = "none"
      BY <2>3, ConfigFields DEF WantsTls
    <3>2. Secure(i, s) = s
      BY <2>3 DEF Secure
    <3> QED
      BY <1>1, <3>1, <3>2
  <2> QED
    BY <2>1, <2>2, <2>3
<1> DEFINE r == Secure(i, s)
<1>4. r \in Stream /\ r.proxy = s.proxy /\ r.udp = s.udp /\ r.network = s.network
  <2> DEFINE q == [s EXCEPT !.security = k]
  <2> HIDE DEF k
  <2>1. q \in Stream /\ q.proxy = s.proxy /\ q.udp = s.udp /\ q.network = s.network
    BY <1>1, <1>2, StreamChanges
  <2>2. r \in {s, q}
    BY <1>3
  <2> HIDE DEF q, r
  <2>3. CASE r = s
    BY <1>1, <2>3
  <2>4. CASE r = q
    BY <2>1, <2>4, Zenon
  <2> QED
    BY <2>2, <2>3, <2>4
<1>5. r.security = k
  BY <1>3
<1> HIDE DEF r
<1>6. Configured(i, r)
  <2>1. r.proxy = Proxied(i)
    BY <1>1, <1>4, Zenon
  <2>2. i.protocol = "shadowsocks" => r.udp = ~Headed(i)
    BY <1>1, <1>4, Zenon
  <2>3. i.protocol \in {"vless", "vmess", "anytls"} /\ i.settings # "absent" =>
          r.network \in {"error", i.network}
    BY <1>1, <1>4, Zenon
  <2> QED
    BY <1>5, <2>1, <2>2, <2>3, Zenon DEF Configured
<1> QED
  BY <1>4, <1>6 DEF r

\* The inbound of a configuration, if there is no error, is the one configured.
LEMMA InboundIs ==
  ASSUME NEW i \in Config, i.protocol \in Protocol
  PROVE  /\ buildInbound(i) \in Stream
         /\ buildInbound(i) # Error => Configured(i, buildInbound(i))
<1> DEFINE t == Transport(i)
           s == IF t = Error THEN Error ELSE Socket(i, t)
<1>1. TransportIs(i, t)
  BY TransportType
<1>2. Error \in Stream
  BY OverIs DEF Error
<1>3. buildInbound(i) = IF s = Error THEN Error ELSE Secure(i, s)
  BY Zenon DEF buildInbound
<1>4. CASE s = Error
  BY <1>2, <1>3, <1>4, Zenon
<1>5. CASE s # Error
  <2>1. s = Socket(i, t)
    BY <1>5
  <2>2. i.settings # "bad"
    <3>1. i.settings = "bad" => Socket(i, t) = Error
      <4>1. i.settings = "bad" => ~Proxied(i)
        BY DEF Proxied
      <4> QED
        BY <4>1, Zenon DEF Socket
    <3> QED
      BY <1>5, <2>1, <3>1
  <2> HIDE DEF t
  <2>3. SocketIs(i, s)
    BY <1>1, <2>1, <2>2, SocketType
  <2> HIDE DEF s
  <2>4. Secure(i, s) \in Stream /\ Configured(i, Secure(i, s))
    BY <2>3, SecureType
  <2> QED
    BY <1>3, <1>5, <2>4
<1> QED
  BY <1>4, <1>5

-----------------------------------------------------------------------------
(* Types, the actors' certificates and the inbound *)

LEMMA InitCore == Init => Core
<1> SUFFICES ASSUME Init PROVE Core
  OBVIOUS
<1> USE DEF Init
<1>1. PICK c \in Configs : info = NodeInfo(c)
  OBVIOUS
<1>2. info \in Config
  BY <1>1, NodeInfoType
<1>3. stream \in Stream
  BY OverIs DEF Unset
<1>4. cert \in Content /\ key \in Content
  BY PairAssumption DEF Content
<1>5. faults \in 0..MaxFault /\ spoilt \in BOOLEAN
  BY FaultAssumption
<1>6. TypeOK
  BY <1>2, <1>3, <1>4, <1>5 DEF TypeOK
<1>7. PairInv /\ BuiltInv
  BY DEF PairInv, BuiltInv, Actor
<1> QED
  BY <1>6, <1>7 DEF Core

LEMMA FaultType ==
  ASSUME TypeOK, Fault \/ UNCHANGED faults
  PROVE  faults' \in 0..MaxFault
BY FaultAssumption DEF TypeOK, Fault

LEMMA DieCore ==
  ASSUME Core, Die, Fault \/ UNCHANGED faults
  PROVE  Core'
<1> USE DEF Core, Die, files
<1>1. faults' \in 0..MaxFault
  BY FaultType
<1>2. stream' \in Stream
  BY OverIs DEF Unset
<1>3. spoilt' \in BOOLEAN
  OBVIOUS
<1>4. TypeOK'
  BY <1>1, <1>2, <1>3 DEF TypeOK
<1>5. PairInv' /\ BuiltInv'
  BY DEF PairInv, BuiltInv, TypeOK, Actor
<1> QED
  BY <1>4, <1>5

LEMMA AbortCore ==
  ASSUME Core, NEW a \in Actor, Abort(a), Fault \/ UNCHANGED faults
  PROVE  Core'
<1>1. CASE a = Main /\ Die
  BY <1>1, DieCore
<1>2. CASE a # Main /\ Abort(a)
  <2> USE DEF Core, files
  <2>0. /\ act' = [act EXCEPT ![a] = "idle"]
        /\ pair' = [pair EXCEPT ![a] = None]
        /\ sole' = IF sole = a THEN None ELSE sole
        /\ spoilt' = (spoilt \/ a \in Writing)
        /\ UNCHANGED <<info, node, own, account, cert, key, due, stream>>
    BY <1>2 DEF Abort
  <2>1. faults' \in 0..MaxFault
    BY FaultType
  <2>2. spoilt' \in BOOLEAN
    BY <2>0
  <2>3. TypeOK'
    BY <2>0, <2>1, <2>2 DEF TypeOK
  <2>4. PairInv'
    BY <2>0 DEF PairInv, TypeOK
  <2>5. BuiltInv'
    BY <1>2, <2>0 DEF BuiltInv, TypeOK, Actor
  <2> QED
    BY <2>3, <2>4, <2>5
<1> QED
  BY <1>1, <1>2 DEF Abort

\* Steps of an actor within NewLego, RenewCert and writeCert.
LEMMA MoveCore ==
  ASSUME Core, NEW a \in Actor, NEW s \in Steps, NEW q \in Pair \cup {None},
         act' = [act EXCEPT ![a] = s], pair' = [pair EXCEPT ![a] = q],
         s \in {"cert0", "cert1", "key0", "key1"} => q \in Pair,
         a = Main => node = "cert",
         node' = IF a = Main /\ s = "idle" THEN "read" ELSE node,
         UNCHANGED <<info, own, stream, faults>>,
         account' \in {"none", "torn", "ok"},
         cert' \in Content, key' \in Content,
         due' \in BOOLEAN, sole' \in Actor \cup {None}, spoilt' \in BOOLEAN
  PROVE  Core'
<1>1. TypeOK'
  BY DEF Core, TypeOK, Steps
<1>2. PairInv'
  BY DEF Core, TypeOK, PairInv
<1>3. BuiltInv'
  BY DEF Core, BuiltInv, TypeOK, Steps, Actor
<1> QED
  BY <1>1, <1>2, <1>3 DEF Core

LEMMA BootCore ==
  ASSUME Core, Boot
  PROVE  Core'
<1>1. CASE GetNodeInfo
  <2> USE DEF Core, GetNodeInfo, files
  <2>1. TypeOK'
    BY <1>1 DEF TypeOK
  <2>2. PairInv' /\ BuiltInv'
    BY <1>1 DEF PairInv, BuiltInv, Decodes
  <2> QED
    BY <2>1, <2>2
<1>2. CASE requestCert
  <2>1. CASE /\ node' = "read"
             /\ UNCHANGED <<info, own, act, pair, files, stream, sole, spoilt, faults>>
    <3> USE DEF Core, files
    <3>1. TypeOK'
      BY <2>1 DEF TypeOK
    <3>2. PairInv' /\ BuiltInv'
      BY <1>2, <2>1 DEF PairInv, BuiltInv, requestCert
    <3> QED
      BY <3>1, <3>2
  <2>2. CASE /\ Goto(Main, IF info.certMode = "acme" THEN "lego" ELSE "order")
             /\ UNCHANGED <<pair, files, sole, spoilt>>
    <3> DEFINE s == IF info.certMode = "acme" THEN "lego" ELSE "order"
    <3>1. Main \in Actor /\ s \in Steps /\ s \notin {"idle", "cert0", "cert1", "key0", "key1"}
      BY DEF Actor, Steps
    <3>2. pair[Main] \in Pair \cup {None} /\ pair' = [pair EXCEPT ![Main] = pair[Main]]
      BY <2>2, <3>1 DEF Core, TypeOK
    <3>3. node = "cert" /\ node' = node
      BY <1>2, <2>2 DEF requestCert, Goto
    <3>4. act' = [act EXCEPT ![Main] = s] /\ UNCHANGED <<info, own, stream, faults>>
      BY <2>2 DEF Goto
    <3>5. UNCHANGED <<account, cert, key, due, sole, spoilt>>
      BY <2>2 DEF files
    <3> HIDE DEF s
    <3> QED
      BY <3>1, <3>2, <3>3, <3>4, <3>5, MoveCore DEF Core, TypeOK
  <2>3. CASE Die /\ UNCHANGED faults
    BY <2>3, DieCore
  <2> QED
    BY <1>2, <2>1, <2>2, <2>3 DEF requestCert
<1>3. CASE AddNode
  <2> DEFINE s == buildInbound(info)
  <2>1. CASE /\ XrayBuilds(info, s)
             /\ stream' = s
             /\ node' = IF s.security = "tls" THEN "readKey" ELSE "users"
             /\ UNCHANGED <<info, own, act, pair, files, sole, spoilt, faults>>
    <3>1. info \in Config /\ info.protocol \in Protocol
      BY <1>3 DEF AddNode, Core, TypeOK, BuiltInv
    <3>2. s \in Stream
      BY <3>1, InboundIs
    <3> HIDE DEF s
    <3> USE DEF Core, files
    <3>3. TypeOK'
      BY <2>1, <3>2 DEF TypeOK
    <3>4. PairInv'
      BY <2>1 DEF PairInv
    <3>5. BuiltInv'
      <4>1. act[Main] = "idle"
        BY <1>3 DEF AddNode, BuiltInv
      <4>2. act'[Main] = "idle" /\ info' = info /\ stream' = s
        BY <2>1, <4>1
      <4>3. XrayBuilds(info', stream')
        BY <2>1, <4>2
      <4> QED
        BY <3>1, <4>2, <4>3 DEF BuiltInv, s
    <3> QED
      BY <3>3, <3>4, <3>5
  <2>2. CASE Die /\ UNCHANGED faults
    BY <2>2, DieCore
  <2> QED
    BY <1>3, <2>1, <2>2 DEF AddNode
<1>4. CASE ReadKey
  <2>1. CASE /\ node' = "users"
             /\ UNCHANGED <<info, own, act, pair, files, stream, sole, spoilt, faults>>
    <3> USE DEF Core, files
    <3>1. TypeOK'
      BY <2>1 DEF TypeOK
    <3>2. PairInv' /\ BuiltInv'
      BY <1>4, <2>1 DEF PairInv, BuiltInv, ReadKey
    <3> QED
      BY <3>1, <3>2
  <2>2. CASE Die /\ UNCHANGED faults
    BY <2>2, DieCore
  <2> QED
    BY <1>4, <2>1, <2>2 DEF ReadKey
<1>5. CASE startTasks
  <2> USE DEF Core, startTasks, files
  <2>1. CASE info.tls = "tls" /\ info.certMode = "acme"
    <3>1. PICK r \in Renewal : /\ act[r] = "idle"
                               /\ own' = r
                               /\ act' = [act EXCEPT ![r] = "lego"]
      BY <1>5, <2>1
    <3>2. r \in Actor /\ r # Main
      BY ActorAssumption DEF Actor
    <3>3. TypeOK'
      BY <1>5, <3>1, <3>2 DEF TypeOK
    <3>4. PairInv' /\ BuiltInv'
      BY <1>5, <3>1, <3>2 DEF PairInv, BuiltInv, TypeOK, Actor
    <3> QED
      BY <3>3, <3>4
  <2>2. CASE ~(info.tls = "tls" /\ info.certMode = "acme")
    <3>1. TypeOK'
      BY <1>5, <2>2 DEF TypeOK
    <3>2. PairInv' /\ BuiltInv'
      BY <1>5, <2>2 DEF PairInv, BuiltInv
    <3> QED
      BY <3>1, <3>2
  <2> QED
    BY <2>1, <2>2
<1> QED
  BY <1>1, <1>2, <1>3, <1>4, <1>5 DEF Boot

\* The actor is where the action needs it, and Start is at requestCert if it
\* is Main.
LEMMA ActorAt ==
  ASSUME Core, NEW a \in Actor, act[a] # "idle"
  PROVE  /\ a = Main => node = "cert"
         /\ pair[a] \in Pair \cup {None} /\ pair = [pair EXCEPT ![a] = pair[a]]
BY DEF Core, TypeOK, BuiltInv

LEMMA StepTypes ==
  ASSUME Core
  PROVE  /\ account \in {"none", "torn", "ok"} /\ cert \in Content /\ key \in Content
         /\ due \in BOOLEAN /\ sole \in Actor \cup {None} /\ spoilt \in BOOLEAN
BY DEF Core, TypeOK

LEMMA ActsCore ==
  ASSUME Core, NEW a \in Actor, Acts(a)
  PROVE  Core'
<1>1. Torn \in Content /\ Pair \subseteq Content
  BY DEF Content
<1>2. CASE NewLegoUser(a)
  <2>1. CASE Abort(a) /\ UNCHANGED faults
    BY <2>1, AbortCore
  <2>2. CASE ~(Abort(a) /\ UNCHANGED faults)
    <3>1. PICK s \in {Known(a), "save"} :
            /\ act[a] = "lego" /\ Goto(a, s)
            /\ account' \in {account, "torn"}
            /\ UNCHANGED <<pair, cert, key, due, sole, spoilt>>
      BY <1>2, <2>2 DEF NewLegoUser, files
    <3>2. s \in Steps /\ s \notin {"idle", "cert0", "cert1", "key0", "key1"}
      BY DEF Known, Steps
    <3> QED
      BY <3>1, <3>2, ActorAt, StepTypes, MoveCore DEF Goto
  <2> QED
    BY <2>1, <2>2
<1>3. CASE Save(a)
  <2>1. Known(a) \in Steps /\ Known(a) \notin {"idle", "cert0", "cert1", "key0", "key1"}
    BY DEF Known, Steps
  <2>2. /\ act[a] = "save" /\ account' = "ok" /\ Goto(a, Known(a))
        /\ UNCHANGED <<pair, cert, key, due, sole, spoilt>>
    BY <1>3 DEF Save
  <2> QED
    BY <2>1, <2>2, ActorAt, StepTypes, MoveCore DEF Goto
<1>4. CASE CheckCert(a)
  <2>1. CASE Abort(a) /\ UNCHANGED faults
    BY <2>1, AbortCore
  <2>2. CASE Goto(a, "order") /\ UNCHANGED <<pair, files, sole, spoilt>>
    <3>1. act[a] = "check" /\ "order" \in Steps
      BY <1>4 DEF CheckCert, Steps
    <3> QED
      BY <2>2, <3>1, ActorAt, StepTypes, MoveCore DEF Goto, files
  <2> QED
    BY <1>4, <2>1, <2>2 DEF CheckCert
<1>5. CASE Order(a)
  <2>1. PICK q \in Pair : pair' = [pair EXCEPT ![a] = q]
    BY <1>5 DEF Order
  <2>2. act[a] = "order" /\ Goto(a, "cert0") /\ UNCHANGED <<files, sole, spoilt>>
    BY <1>5 DEF Order
  <2>3. "cert0" \in Steps
    BY DEF Steps
  <2> QED
    BY <2>1, <2>2, <2>3, ActorAt, StepTypes, MoveCore DEF Goto, files
<1>6. CASE WriteElsewhere(a)
  <2>1. /\ act[a] = "cert0" /\ pair' = [pair EXCEPT ![a] = None] /\ Return(a)
        /\ UNCHANGED <<files, sole, spoilt>>
    BY <1>6 DEF WriteElsewhere
  <2>2. "idle" \in Steps
    BY DEF Steps
  <2> QED
    BY <2>1, <2>2, ActorAt, StepTypes, MoveCore DEF Return, files
<1>7. CASE TruncateCert(a)
  <2>1. /\ act[a] = "cert0" /\ Goto(a, "cert1") /\ cert' \in {cert, Torn}
        /\ due' \in BOOLEAN /\ sole' \in {a, None} /\ spoilt' \in BOOLEAN
        /\ UNCHANGED <<pair, account, key>>
    BY <1>7 DEF TruncateCert, Opened
  <2>2. "cert1" \in Steps /\ pair[a] \in Pair
    BY <2>1 DEF Core, PairInv, Steps
  <2> QED
    BY <1>1, <2>1, <2>2, ActorAt, StepTypes, MoveCore DEF Goto
<1>8. CASE WriteCert(a)
  <2>1. /\ act[a] = "cert1" /\ Goto(a, "key0") /\ cert' = pair[a] /\ due' = FALSE
        /\ UNCHANGED <<pair, account, key, sole, spoilt>>
    BY <1>8 DEF WriteCert
  <2>2. "key0" \in Steps /\ pair[a] \in Pair
    BY <2>1 DEF Core, PairInv, Steps
  <2> QED
    BY <1>1, <2>1, <2>2, ActorAt, StepTypes, MoveCore DEF Goto
<1>9. CASE TruncateKey(a)
  <2>1. /\ act[a] = "key0" /\ Goto(a, "key1") /\ key' \in {key, Torn}
        /\ UNCHANGED <<pair, account, cert, due, sole, spoilt>>
    BY <1>9 DEF TruncateKey, Opened
  <2>2. "key1" \in Steps /\ pair[a] \in Pair
    BY <2>1 DEF Core, PairInv, Steps
  <2> QED
    BY <1>1, <2>1, <2>2, ActorAt, StepTypes, MoveCore DEF Goto
<1>10. CASE WriteKey(a)
  <2>1. /\ act[a] = "key1" /\ Return(a) /\ key' = pair[a]
        /\ pair' = [pair EXCEPT ![a] = None]
        /\ sole' \in {sole, None} /\ spoilt' \in BOOLEAN
        /\ UNCHANGED <<account, cert, due>>
    BY <1>10 DEF WriteKey
  <2>2. "idle" \in Steps /\ pair[a] \in Pair
    BY <2>1 DEF Core, PairInv, Steps
  <2> QED
    BY <1>1, <2>1, <2>2, ActorAt, StepTypes, MoveCore DEF Return
<1> QED
  BY <1>2, <1>3, <1>4, <1>5, <1>6, <1>7, <1>8, <1>9, <1>10 DEF Acts

LEMMA NextCore ==
  ASSUME Core, [Next]_vars
  PROVE  Core'
<1>1. CASE Boot
  BY <1>1, BootCore
<1>2. CASE Tick
  <2>1. own \in Actor /\ own # Main
    BY <1>2, ActorAssumption DEF Tick, Core, TypeOK, Actor
  <2>2. /\ node = "up" /\ Goto(own, "lego")
        /\ UNCHANGED <<pair, files, sole, spoilt>>
    BY <1>2 DEF Tick
  <2>3. "lego" \in Steps
    BY DEF Steps
  <2>4. pair[own] \in Pair \cup {None} /\ pair = [pair EXCEPT ![own] = pair[own]]
    BY <2>1 DEF Core, TypeOK
  <2> QED
    BY <2>1, <2>2, <2>3, <2>4, StepTypes, MoveCore DEF Goto, files
<1>3. CASE Crash
  BY <1>3, DieCore DEF Crash
<1>4. CASE Reload
  <2> USE DEF Core, Reload, files
  <2>1. faults' \in 0..MaxFault
    BY <1>4, FaultType
  <2>2. stream' \in Stream
    BY <1>4, OverIs DEF Unset
  <2>3. TypeOK'
    BY <1>4, <2>1, <2>2 DEF TypeOK
  <2>4. PairInv' /\ BuiltInv'
    BY <1>4 DEF PairInv, BuiltInv
  <2> QED
    BY <2>3, <2>4
<1>5. CASE Expire
  <2> USE DEF Core, Expire
  <2>1. TypeOK'
    BY <1>5 DEF TypeOK
  <2>2. PairInv' /\ BuiltInv'
    BY <1>5 DEF PairInv, BuiltInv
  <2> QED
    BY <2>1, <2>2
<1>6. ASSUME NEW a \in Actor, Acts(a)
      PROVE  Core'
  BY <1>6, ActsCore
<1>7. ASSUME NEW a \in Actor, Fails(a)
      PROVE  Core'
  BY <1>7, AbortCore DEF Fails
<1>8. CASE UNCHANGED vars
  BY <1>8 DEF vars, files, Core, TypeOK, PairInv, BuiltInv
<1> QED
  BY <1>1, <1>2, <1>3, <1>4, <1>5, <1>6, <1>7, <1>8 DEF Next

THEOREM CoreInvariant == Spec => []Core
<1>1. Init => Core
  BY InitCore
<1>2. Core /\ [Next]_vars => Core'
  BY NextCore
<1> QED
  BY <1>1, <1>2, PTL DEF Spec

(***************************************************************************)
(* The types of the node's setup hold in every reachable state.            *)
(***************************************************************************)
THEOREM TypeCorrect == Spec => []TypeOK
<1>1. Core => TypeOK
  BY DEF Core
<1> QED
  BY <1>1, CoreInvariant, PTL

(***************************************************************************)
(* Whatever the configuration, the inbound that comes up has the security, *)
(* the PROXY protocol and the network that the panel asks for.             *)
(***************************************************************************)
THEOREM InboundIsConfigured == Spec => []InboundAsConfigured
<1>1. ASSUME Core PROVE InboundAsConfigured
  <2> SUFFICES ASSUME node \in {"users", "up"}
               PROVE  InboundAsConfigured!2
    BY Zenon DEF InboundAsConfigured
  <2>1. /\ info \in Config /\ info.protocol \in Protocol
        /\ stream = buildInbound(info) /\ XrayBuilds(info, stream)
    BY <1>1 DEF Core, TypeOK, BuiltInv
  <2>2. stream.network # "error"
    BY <2>1 DEF XrayBuilds
  <2>3. stream # Error
    BY <2>2, OverIs DEF Error
  <2>4. Configured(info, stream)
    BY <2>1, <2>3, InboundIs
  <2> QED
    BY <2>2, <2>4 DEF Configured
<1> QED
  BY <1>1, CoreInvariant, PTL

(***************************************************************************)
(* Whatever the cipher and the server key, a node that is up gets accounts *)
(* of the kind its proxy understands.                                      *)
(***************************************************************************)
THEOREM AccountsUnderstood == Spec => []AccountsFit
<1>1. ASSUME Core PROVE AccountsFit
  <2>1. node \in {"users", "up"} => XrayBuilds(info, stream) /\ info \in Config
    BY <1>1 DEF Core, TypeOK, BuiltInv
  <2>2. info \in Config => info.cipher \in {"aead", "2022", "other"}
    BY DEF Config
  <2> QED
    BY <2>1, <2>2 DEF AccountsFit, Account, Proxy, XrayBuilds, DefaultCipher
<1> QED
  BY <1>1, CoreInvariant, PTL

-----------------------------------------------------------------------------
(* The files *)

LEMMA QuietTidy ==
  ASSUME Tidy, UNCHANGED <<cert, key, sole, spoilt>>,
         \A b \in Actor : act'[b] \in {"cert1", "key0", "key1"} \/ b \in Writing =>
                          act'[b] = act[b] /\ pair'[b] = pair[b]
  PROVE  Tidy'
<1>1. Writing' = Writing
  BY DEF Writing
<1>2. SoleInv'
  <2>1. ASSUME sole # None
        PROVE  /\ sole \in Writing
               /\ act'[sole] \in {"key0", "key1"} => cert = pair'[sole]
    BY <2>1 DEF Tidy, SoleInv, Writing
  <2> QED
    BY <1>1, <2>1, Zenon DEF Tidy, SoleInv
<1>3. FilesMatch'
  BY <1>1, Zenon DEF Tidy, FilesMatch
<1> QED
  BY <1>2, <1>3, Zenon DEF Tidy

LEMMA DieTidy ==
  ASSUME Tidy, Die
  PROVE  Tidy'
<1>1. Writing' = {}
  BY DEF Die, Writing
<1>2. sole' = None /\ cert' = cert /\ key' = key
  BY DEF Die, files
<1>3. spoilt' = (spoilt \/ Writing # {})
  BY DEF Die
<1>4. SoleInv'
  BY <1>1, <1>2, Zenon DEF SoleInv
<1>5. FilesMatch'
  BY <1>2, <1>3, Zenon DEF Tidy, FilesMatch
<1> QED
  BY <1>4, <1>5, Zenon DEF Tidy

LEMMA AbortTidy ==
  ASSUME Core, Tidy, NEW a \in Actor, Abort(a)
  PROVE  Tidy'
<1>1. CASE a = Main /\ Die
  BY <1>1, DieTidy
<1>2. CASE ~(a = Main /\ Die)
  <2>1. /\ act' = [act EXCEPT ![a] = "idle"] /\ pair' = [pair EXCEPT ![a] = None]
        /\ sole' = IF sole = a THEN None ELSE sole
        /\ UNCHANGED <<cert, key>>
    BY <1>2 DEF Abort, files
  <2>2. spoilt' = (spoilt \/ a \in Writing)
    BY <1>2, Zenon DEF Abort
  <2>3. Writing' = Writing \ {a}
    BY <2>1 DEF Writing, Core, TypeOK
  <2>4. SoleInv'
    <3>1. ASSUME sole' # None
          PROVE  /\ sole' = sole /\ sole \in Writing /\ sole # a
                 /\ \A b \in Writing : b = sole
                 /\ act[sole] \in {"key0", "key1"} => cert = pair[sole]
      BY <2>1, <3>1 DEF Tidy, SoleInv
    <3>2. ASSUME sole' # None
          PROVE  act'[sole] = act[sole] /\ pair'[sole] = pair[sole]
      BY <2>1, <3>1, <3>2 DEF Core, TypeOK, Writing
    <3>3. ASSUME sole' = None, Writing' # {}
          PROVE  spoilt'
      <4>1. CASE a \in Writing
        BY <2>2, <4>1, Zenon
      <4>2. CASE a \notin Writing
        <5>1. sole # a
          BY <4>2, ActorAssumption DEF Tidy, SoleInv
        <5>2. sole = None /\ Writing # {}
          BY <2>1, <2>3, <3>3, <5>1
        <5> QED
          BY <2>2, <5>2, Zenon DEF Tidy, SoleInv
      <4> QED
        BY <4>1, <4>2
    <3>4. sole' # None => /\ sole' \in Writing'
                          /\ \A b \in Writing' : b = sole'
                          /\ act'[sole'] \in {"key0", "key1"} => cert' = pair'[sole']
      BY <2>1, <2>3, <3>1, <3>2
    <3>5. sole' = None /\ Writing' # {} => spoilt'
      BY <3>3
    <3> QED
      BY <3>4, <3>5 DEF SoleInv
  <2>5. FilesMatch'
    <3>1. ASSUME Writing' = {}, ~spoilt'
          PROVE  Writing = {} /\ ~spoilt
      BY <2>2, <2>3, <3>1, Zenon
    <3> QED
      BY <2>1, <3>1, Zenon DEF Tidy, FilesMatch
  <2> QED
    BY <2>4, <2>5, Zenon DEF Tidy
<1> QED
  BY <1>1, <1>2

\* A writer is the only one, or the pair is spoilt.
LEMMA WriterAlone ==
  ASSUME Core, Tidy, NEW a \in Actor, act[a] \in {"cert1", "key0", "key1"}
  PROVE  /\ a \in Writing
         /\ a = sole \/ (sole = None /\ spoilt)
<1>1. a \in Writing
  BY DEF Writing
<1> QED
  BY <1>1, Zenon DEF Tidy, SoleInv

\* A writer moves on with the same order: the certificate is not touched
\* again once it is written.
LEMMA WriterTidy ==
  ASSUME Core, Tidy, NEW a \in Actor, NEW s \in {"key0", "key1"},
         act[a] \in {"cert1", "key0"}, act' = [act EXCEPT ![a] = s],
         cert' = pair[a] \/ (act[a] = "key0" /\ cert' = cert),
         UNCHANGED <<pair, sole, spoilt>>
  PROVE  Tidy'
<1>1. a \in Writing /\ (a = sole \/ (sole = None /\ spoilt))
  BY WriterAlone
<1>2. Writing' = Writing
  BY DEF Writing, Core, TypeOK
<1>3. FilesMatch'
  BY <1>1, <1>2, Zenon DEF FilesMatch
<1>4. CASE a = sole
  <2>1. act'[a] = s
    BY DEF Core, TypeOK
  <2>2. cert' = pair[a]
    BY <1>4, ActorAssumption DEF Tidy, SoleInv
  <2>3. SoleInv'
    BY <1>1, <1>2, <1>4, <2>2, ActorAssumption, Zenon DEF Tidy, SoleInv
  <2> QED
    BY <1>3, <2>3, Zenon DEF Tidy
<1>5. CASE a # sole
  BY <1>1, <1>2, <1>3, <1>5, Zenon DEF Tidy, SoleInv
<1> QED
  BY <1>4, <1>5

LEMMA ActsTidy ==
  ASSUME Core, Tidy, NEW a \in Actor, Acts(a)
  PROVE  Tidy'
<1>1. CASE Abort(a)
  BY <1>1, AbortTidy
<1>2. ASSUME NEW s \in Steps \ {"cert1", "key0", "key1"}, NEW q \in Pair \cup {None},
             act[a] \notin {"cert1", "key0", "key1"}, act' = [act EXCEPT ![a] = s],
             pair' = [pair EXCEPT ![a] = q], UNCHANGED <<cert, key, sole, spoilt>>
      PROVE  Tidy'
  <2>1. \A b \in Actor : act'[b] \in {"cert1", "key0", "key1"} \/ b \in Writing =>
                          act'[b] = act[b] /\ pair'[b] = pair[b]
    BY <1>2 DEF Core, TypeOK, Writing
  <2> QED
    BY <1>2, <2>1, QuietTidy
<1>3. CASE NewLegoUser(a) /\ ~Abort(a)
  <2>1. PICK s \in {Known(a), "save"} :
          /\ act[a] = "lego" /\ Goto(a, s)
          /\ UNCHANGED <<pair, cert, key, sole, spoilt>>
    BY <1>3 DEF NewLegoUser, files
  <2>2. s \in Steps \ {"cert1", "key0", "key1"}
    BY DEF Known, Steps
  <2> QED
    BY <1>2, <2>1, <2>2, ActorAt DEF Goto
<1>4. CASE Save(a)
  <2>1. Known(a) \in Steps \ {"cert1", "key0", "key1"}
    BY DEF Known, Steps
  <2> QED
    BY <1>2, <1>4, <2>1, ActorAt DEF Goto, Save
<1>5. CASE CheckCert(a) /\ ~Abort(a)
  <2>1. "order" \in Steps \ {"cert1", "key0", "key1"}
    BY DEF Steps
  <2>2. act[a] = "check" /\ Goto(a, "order") /\ UNCHANGED <<pair, cert, key, sole, spoilt>>
    BY <1>5 DEF CheckCert, files
  <2> QED
    BY <1>2, <2>1, <2>2, ActorAt DEF Goto
<1>6. CASE Order(a)
  <2>1. PICK q \in Pair : pair' = [pair EXCEPT ![a] = q]
    BY <1>6 DEF Order
  <2>2. "cert0" \in Steps \ {"cert1", "key0", "key1"}
    BY DEF Steps
  <2>3. act[a] = "order" /\ Goto(a, "cert0") /\ UNCHANGED <<cert, key, sole, spoilt>>
    BY <1>6 DEF Order, files
  <2> QED
    BY <1>2, <2>1, <2>2, <2>3 DEF Goto
<1>7. CASE WriteElsewhere(a)
  <2>1. "idle" \in Steps \ {"cert1", "key0", "key1"}
    BY DEF Steps
  <2>2. /\ act[a] = "cert0" /\ pair' = [pair EXCEPT ![a] = None] /\ Return(a)
        /\ UNCHANGED <<cert, key, sole, spoilt>>
    BY <1>7 DEF WriteElsewhere, files
  <2> QED
    BY <1>2, <2>1, <2>2 DEF Return
<1>8. CASE TruncateCert(a)
  <2>1. /\ act[a] = "cert0" /\ act' = [act EXCEPT ![a] = "cert1"]
        /\ sole' = IF Writing = {} THEN a ELSE None
        /\ pair' = pair
    BY <1>8 DEF TruncateCert, Goto
  <2>2. spoilt' = (spoilt \/ Writing # {})
    BY <1>8, Zenon DEF TruncateCert
  <2>3. Writing' = Writing \cup {a}
    BY <2>1 DEF Writing, Core, TypeOK
  <2>4. a # None /\ act'[a] = "cert1"
    BY <2>1, ActorAssumption DEF Core, TypeOK
  <2>5. CASE Writing = {}
    <3>1. sole' = a /\ Writing' = {a}
      BY <2>1, <2>3, <2>5
    <3>2. SoleInv'
      BY <2>4, <3>1 DEF SoleInv
    <3>3. FilesMatch'
      BY <3>1 DEF FilesMatch
    <3> QED
      BY <3>2, <3>3, Zenon DEF Tidy
  <2>6. CASE Writing # {}
    <3>1. sole' = None /\ spoilt'
      BY <2>1, <2>2, <2>6, Zenon
    <3> QED
      BY <3>1, Zenon DEF Tidy, SoleInv, FilesMatch
  <2> QED
    BY <2>5, <2>6
<1>9. CASE WriteCert(a)
  BY <1>9, WriterTidy DEF WriteCert, Goto
<1>10. CASE TruncateKey(a)
  BY <1>10, WriterTidy DEF TruncateKey, Goto
<1>11. CASE WriteKey(a)
  <2>1. /\ act[a] = "key1" /\ act' = [act EXCEPT ![a] = "idle"]
        /\ key' = pair[a] /\ cert' = cert
        /\ pair' = [pair EXCEPT ![a] = None]
        /\ sole' = IF sole = a THEN None ELSE sole
    BY <1>11 DEF WriteKey, Return
  <2>2. spoilt' = (spoilt /\ sole # a)
    BY <1>11, Zenon DEF WriteKey
  <2>3. a \in Writing /\ (a = sole \/ (sole = None /\ spoilt))
    BY <2>1, WriterAlone
  <2>4. Writing' = Writing \ {a}
    BY <2>1 DEF Writing, Core, TypeOK
  <2>5. CASE a = sole
    <3>1. Writing' = {} /\ cert = pair[a]
      BY <2>1, <2>4, <2>5, ActorAssumption DEF Tidy, SoleInv
    <3>2. sole' = None /\ cert' = key'
      BY <2>1, <2>5, <3>1
    <3> QED
      BY <3>1, <3>2, Zenon DEF Tidy, SoleInv, FilesMatch
  <2>6. CASE a # sole
    <3>1. sole' = None /\ spoilt'
      BY <2>1, <2>2, <2>3, <2>6, Zenon
    <3> QED
      BY <3>1, Zenon DEF Tidy, SoleInv, FilesMatch
  <2> QED
    BY <2>5, <2>6
<1> QED
  BY <1>1, <1>3, <1>4, <1>5, <1>6, <1>7, <1>8, <1>9, <1>10, <1>11 DEF Acts

LEMMA NextTidy ==
  ASSUME Core, Tidy, [Next]_vars
  PROVE  Tidy'
<1>1. ASSUME UNCHANGED <<act, pair, cert, key, sole, spoilt>> PROVE Tidy'
  <2>1. \A b \in Actor : act'[b] = act[b] /\ pair'[b] = pair[b]
    BY <1>1
  <2> QED
    BY <1>1, <2>1, QuietTidy DEF Writing
<1>2. ASSUME NEW b \in Actor, NEW s \in {"lego", "order"},
             act[b] = "idle", act' = [act EXCEPT ![b] = s],
             UNCHANGED <<pair, cert, key, sole, spoilt>>
      PROVE  Tidy'
  <2>1. \A c \in Actor : act'[c] \in {"cert1", "key0", "key1"} \/ c \in Writing =>
                          act'[c] = act[c] /\ pair'[c] = pair[c]
    BY <1>2 DEF Core, TypeOK, Writing
  <2> QED
    BY <1>2, <2>1, QuietTidy
<1>3. CASE GetNodeInfo
  BY <1>1, <1>3 DEF GetNodeInfo, files
<1>4. CASE requestCert
  <2>1. CASE Die
    BY <2>1, DieTidy
  <2>2. CASE UNCHANGED <<act, pair, files, sole, spoilt>>
    BY <1>1, <2>2 DEF files
  <2>3. CASE /\ Goto(Main, IF info.certMode = "acme" THEN "lego" ELSE "order")
             /\ UNCHANGED <<pair, files, sole, spoilt>>
    BY <1>2, <1>4, <2>3 DEF Goto, requestCert, Actor, files
  <2> QED
    BY <1>4, <2>1, <2>2, <2>3 DEF requestCert
<1>5. CASE AddNode
  BY <1>1, <1>5, DieTidy DEF AddNode, files
<1>6. CASE ReadKey
  BY <1>1, <1>6, DieTidy DEF ReadKey, files
<1>7. CASE startTasks
  <2>1. CASE UNCHANGED act
    BY <1>1, <1>7, <2>1 DEF startTasks, files
  <2>2. CASE ~UNCHANGED act
    <3>1. PICK r \in Renewal : act[r] = "idle" /\ act' = [act EXCEPT ![r] = "lego"]
      BY <1>7, <2>2 DEF startTasks
    <3> QED
      BY <1>2, <1>7, <3>1 DEF startTasks, files, Actor
  <2> QED
    BY <2>1, <2>2
<1>8. CASE Tick
  <2>1. own \in Actor
    BY <1>8 DEF Tick, Core, TypeOK, Actor
  <2> QED
    BY <1>2, <1>8, <2>1 DEF Tick, Goto, files
<1>9. CASE Crash
  BY <1>9, DieTidy DEF Crash
<1>10. CASE Reload
  BY <1>1, <1>10 DEF Reload, files
<1>11. CASE Expire
  BY <1>1, <1>11 DEF Expire
<1>12. ASSUME NEW a \in Actor, Acts(a)
       PROVE  Tidy'
  BY <1>12, ActsTidy
<1>13. ASSUME NEW a \in Actor, Fails(a)
       PROVE  Tidy'
  BY <1>13, AbortTidy DEF Fails
<1>14. CASE UNCHANGED vars
  BY <1>1, <1>14 DEF vars, files
<1> QED
  BY <1>3, <1>4, <1>5, <1>6, <1>7, <1>8, <1>9, <1>10, <1>11, <1>12, <1>13, <1>14
     DEF Next, Boot

(***************************************************************************)
(* Whatever the number of renewals, crashes and failures and however they  *)
(* overlap, outside of a write the certificate and the key are of the same *)
(* order, unless the last write was cut short or overlapped.               *)
(***************************************************************************)
THEOREM FilesBelongTogether == Spec => []FilesMatch
<1>1. Init => Tidy
  <2> SUFFICES ASSUME Init PROVE Tidy
    OBVIOUS
  <2>1. Writing = {} /\ sole = None
    BY DEF Init, Writing
  <2>2. SoleInv
    BY <2>1, Zenon DEF SoleInv
  <2>3. FilesMatch
    BY Zenon DEF FilesMatch, Init
  <2> QED
    BY <2>2, <2>3, Zenon DEF Tidy
<1>2. Core /\ Tidy /\ [Next]_vars => Tidy'
  BY NextTidy
<1>3. Tidy => FilesMatch
  BY DEF Tidy
<1> QED
  BY <1>1, <1>2, <1>3, CoreInvariant, PTL DEF Spec

-----------------------------------------------------------------------------
(* The files that are there *)

\* A writer has opened the certificate.
PresentInv ==
  /\ Writing # {} => cert # Missing
  /\ FilesPresent

SetUp == {"read", "readKey", "users", "up"}

Kept(f) == f # Missing => f' # Missing

LEMMA OpenedIs == \A f : Opened(f) # Missing
BY FileAssumption DEF Opened

\* The steps of an actor: no file goes, and one that returns to Start has
\* written both.
LEMMA ActsKeep ==
  ASSUME Core, PresentInv, NEW a \in Actor, Acts(a)
  PROVE  /\ info' = info
         /\ Kept(cert) /\ Kept(key)
         /\ Writing' # {} => cert' # Missing
         /\ \/ node' = node \/ node' \notin SetUp
            \/ Elsewhere \/ (cert' # Missing /\ key' # Missing)
<1> USE DEF Kept
<1>0. ASSUME act[a] \in {"cert0", "cert1", "key0", "key1"}
      PROVE  pair[a] \in Pair /\ pair[a] # Missing
  BY <1>0, PairAssumption DEF Core, PairInv
<1>1. CASE Abort(a)
  <2>1. info' = info /\ UNCHANGED <<cert, key>> /\ (node' = node \/ node' \notin SetUp)
    BY <1>1 DEF Abort, Die, files, SetUp
  <2>2. Writing' \subseteq Writing
    BY <1>1 DEF Abort, Die, Writing, Core, TypeOK
  <2> QED
    BY <2>1, <2>2 DEF PresentInv
<1>2. CASE ~Abort(a) /\ (NewLegoUser(a) \/ Save(a) \/ CheckCert(a) \/ Order(a))
  <2>1. UNCHANGED <<info, node, cert, key>>
    BY <1>2 DEF NewLegoUser, Save, CheckCert, Order, Goto, files
  <2>2. PICK s \in {Known(a), "save", "order", "cert0"} : act' = [act EXCEPT ![a] = s]
    BY <1>2 DEF NewLegoUser, Save, CheckCert, Order, Goto
  <2>3. Writing' \subseteq Writing
    BY <2>2 DEF Known, Writing, Core, TypeOK
  <2> QED
    BY <2>1, <2>3 DEF PresentInv
<1>3. CASE WriteElsewhere(a)
  <2>1. Writing' \subseteq Writing
    BY <1>3 DEF WriteElsewhere, Return, Writing, Core, TypeOK
  <2> QED
    BY <1>3, <2>1 DEF WriteElsewhere, Return, files, PresentInv
<1>4. CASE TruncateCert(a)
  BY <1>4, OpenedIs DEF TruncateCert, Goto
<1>5. CASE WriteCert(a)
  <2>1. act[a] = "cert1" /\ cert' = pair[a] /\ UNCHANGED <<info, node, key>>
    BY <1>5 DEF WriteCert, Goto
  <2> QED
    BY <1>0, <2>1
<1>6. CASE TruncateKey(a)
  <2>1. act[a] = "key0" /\ UNCHANGED <<info, node, cert>> /\ key' = Opened(key)
    BY <1>6 DEF TruncateKey, Goto
  <2>2. a \in Writing
    BY <2>1 DEF Writing
  <2> QED
    BY <2>1, <2>2, OpenedIs DEF PresentInv
<1>7. CASE WriteKey(a)
  <2>1. act[a] = "key1" /\ UNCHANGED <<info, cert>> /\ key' = pair[a]
    BY <1>7 DEF WriteKey, Return
  <2>2. a \in Writing
    BY <2>1 DEF Writing
  <2> QED
    BY <1>0, <2>1, <2>2 DEF PresentInv
<1> QED
  BY <1>1, <1>2, <1>3, <1>4, <1>5, <1>6, <1>7 DEF Acts

LEMMA PresentStep ==
  ASSUME Core, PresentInv, [Next]_vars
  PROVE  PresentInv'
<1>1. ASSUME info' = info, Kept(cert), Kept(key),
             Writing' # {} => cert' # Missing,
             \/ node' = node \/ node' \notin SetUp
             \/ Elsewhere \/ (cert' # Missing /\ key' # Missing)
      PROVE  PresentInv'
  <2>1. ASSUME node' \in SetUp, WantsTls(info), Ordered, ~Elsewhere
        PROVE  cert' # Missing /\ key' # Missing
    BY <1>1, <2>1 DEF PresentInv, FilesPresent, Present, Kept, SetUp
  <2> QED
    BY <1>1, <2>1 DEF PresentInv, FilesPresent, Present, SetUp, Ordered, Elsewhere,
       WantsTls
<1>2. ASSUME UNCHANGED <<info, cert, key>>, Writing' \subseteq Writing,
             node' = node \/ node' \notin SetUp
      PROVE  PresentInv'
  BY <1>1, <1>2 DEF Kept, PresentInv
<1>3. CASE Die
  BY <1>2, <1>3 DEF Die, files, SetUp, Writing
<1>4. CASE Boot /\ ~Die
  <2>1. UNCHANGED <<info, cert, key>>
    BY <1>4 DEF Boot, GetNodeInfo, requestCert, AddNode, ReadKey, startTasks,
       Goto, files
  <2>2. Writing' \subseteq Writing
    <3>1. CASE requestCert \/ startTasks
      BY <1>4, <3>1 DEF requestCert, startTasks, Goto, Writing, Core, TypeOK, Actor
    <3>2. CASE GetNodeInfo \/ AddNode \/ ReadKey
      BY <1>4, <3>2 DEF GetNodeInfo, AddNode, ReadKey, Writing
    <3> QED
      BY <1>4, <3>1, <3>2 DEF Boot
  <2>3. ASSUME node' \in SetUp, node \notin SetUp,
               WantsTls(info), Ordered, ~Elsewhere
        PROVE  Present
    BY <1>4, <2>3 DEF Boot, GetNodeInfo, requestCert, AddNode, ReadKey,
       startTasks, Goto, SetUp, Ordered, Absent
  <2> QED
    BY <2>1, <2>2, <2>3 DEF PresentInv, FilesPresent, Present, SetUp, Ordered,
       Elsewhere, WantsTls
<1>5. CASE Tick
  <2>1. Writing' \subseteq Writing
    BY <1>5 DEF Tick, Goto, Writing, Core, TypeOK, Actor
  <2> QED
    BY <1>2, <1>5, <2>1 DEF Tick, Goto, files
<1>6. CASE Reload
  BY <1>2, <1>6 DEF Reload, files, SetUp, Writing
<1>7. CASE Expire
  BY <1>2, <1>7 DEF Expire, Writing
<1>8. ASSUME NEW a \in Actor, Acts(a)
      PROVE  PresentInv'
  BY <1>1, <1>8, ActsKeep
<1>9. ASSUME NEW a \in Actor, Fails(a), ~Die
      PROVE  PresentInv'
  <2>1. Abort(a)
    BY <1>9 DEF Fails
  <2>2. UNCHANGED <<info, node, cert, key>> /\ Writing' \subseteq Writing
    BY <1>9, <2>1 DEF Abort, files, Writing, Core, TypeOK
  <2> QED
    BY <1>2, <2>2
<1>10. CASE UNCHANGED vars
  BY <1>2, <1>10 DEF vars, files, Writing
<1> QED
  BY <1>3, <1>4, <1>5, <1>6, <1>7, <1>8, <1>9, <1>10 DEF Next, Crash

(***************************************************************************)
(* Whatever crashes, errors and overlapping renewals have done to the      *)
(* files, AddNode never fails for a file that Start was to order.          *)
(***************************************************************************)
THEOREM OrderedFilesArePresent == Spec => []FilesPresent
<1>1. Init => PresentInv
  BY DEF Init, Writing, PresentInv, FilesPresent
<1>2. Core /\ PresentInv /\ [Next]_vars => PresentInv'
  BY PresentStep
<1>3. PresentInv => FilesPresent
  BY DEF PresentInv
<1> QED
  BY <1>1, <1>2, <1>3, CoreInvariant, PTL DEF Spec

=============================================================================
