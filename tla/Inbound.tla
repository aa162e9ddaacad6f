------------------------------- MODULE Inbound --------------------------------
(***************************************************************************)
(* From the configuration of a node on the panel to the inbound and the    *)
(* accounts handed to xray: GetNodeInfo, buildInbound with one builder per *)
(* protocol, and the builders of accounts.  No state; NodeSetup uses these *)
(* operators when a controller starts.                                     *)
(*                                                                         *)
(* Of a configuration only what the builders branch on is kept: names of   *)
(* fields, "dns" and "http" are one certificate mode, a network's settings *)
(* are absent, undecodable, or decodable and asking for the PROXY protocol *)
(* or for an HTTP header (a path or a host).                               *)
(***************************************************************************)

Protocol == {"vless", "vmess", "trojan", "shadowsocks", "hysteria2", "tuic",
             "anytls"}
Network  == {"", "tcp", "ws", "grpc", "httpupgrade", "xhttp", "other"}
Settings == {"absent", "bad", "plain", "proxy", "http", "http+proxy"}

Config ==
  [protocol   : Protocol \cup {"other"},
   tls        : {"none", "tls", "reality"},
   certMode   : {"none", "file", "acme", "self", "other"},
   template   : BOOLEAN,   \* CertFile has a {domain} or an {email} in it
   network    : Network,
   settings   : Settings,
   encryption : {"none", "mlkem", "other"},
   cipher     : {"aead", "2022", "other"},
   serverKey  : BOOLEAN,
   interval   : {"positive", "zero", "absent"}]

-----------------------------------------------------------------------------
(* api/v2board: GetNodeInfo *)

\* A reply without intervals makes intervalToTime panic.
Decodes(c) == c.protocol \in Protocol /\ c.interval # "absent"

\* Shadowsocks has no TLS whatever the panel says.
NodeInfo(c) == IF c.protocol = "shadowsocks" THEN [c EXCEPT !.tls = "none"] ELSE c

-----------------------------------------------------------------------------
(* core: the stream settings left by each builder *)

Stream == [network : Network \cup {"unset", "error", "hysteria", "tuic"},
           security : {"none", "tls", "reality"}, proxy : BOOLEAN, udp : BOOLEAN]

Over(n) == [network |-> n, security |-> "none", proxy |-> FALSE, udp |-> TRUE]
Unset   == Over("unset")
Error   == Over("error")

Proxied(i) == i.settings \in {"proxy", "http+proxy"}
Headed(i)  == i.settings \in {"http", "http+proxy"}

\* The network's settings are unmarshalled into its own section.
Decoded(i, n, networks) ==
  IF n \in networks /\ i.settings # "bad" THEN Over(n) ELSE Error

AnyNetwork == {"tcp", "ws", "grpc", "httpupgrade", "xhttp"}

\* Without settings the network's name is not looked at.
VMess(i) ==
  IF i.settings = "absent" THEN Unset ELSE Decoded(i, i.network, AnyNetwork)

VLess(i) ==
  CASE i.encryption = "other" -> Error
    [] i.encryption # "other" /\ i.settings = "absent" -> Unset
    [] OTHER -> Decoded(i, i.network, AnyNetwork)

Trojan(i) ==
  LET n == IF i.network = "" THEN "tcp" ELSE i.network
  IN IF i.settings = "absent" THEN Over(n) ELSE Decoded(i, n, {"tcp", "ws", "grpc"})

AnyTLS(i) ==
  IF i.settings = "absent" THEN Over(i.network)
                           ELSE Decoded(i, i.network, AnyNetwork)

\* HTTP obfuscation is for TCP only.
Shadowsocks(i) ==
  CASE i.settings = "bad" -> Error
    [] Proxied(i) \/ Headed(i) -> [Over("tcp") EXCEPT !.udp = ~Headed(i)]
    [] OTHER -> Unset

Hysteria2(i) == Over("hysteria")
Tuic(i)      == Over("tuic")

Transport(i) ==
  CASE i.protocol = "vless"       -> VLess(i)
    [] i.protocol = "vmess"       -> VMess(i)
    [] i.protocol = "trojan"      -> Trojan(i)
    [] i.protocol = "shadowsocks" -> Shadowsocks(i)
    [] i.protocol = "hysteria2"   -> Hysteria2(i)
    [] i.protocol = "tuic"        -> Tuic(i)
    [] i.protocol = "anytls"      -> AnyTLS(i)

\* buildInbound decodes the settings once more, for every protocol.
Socket(i, s) ==
  CASE i.settings = "bad" -> Error
    [] s.network = "unset" /\ Proxied(i) -> [Over(i.network) EXCEPT !.proxy = TRUE]
    [] OTHER -> [s EXCEPT !.proxy = Proxied(i)]

\* TLS with certificate mode "none" is no TLS.
WantsTls(i) == i.tls = "tls" /\ i.certMode # "none"

\* Mutation of Secure: there must be stream settings to add it to.
SecureStream(i, s) ==
  CASE s.network = "unset" -> s
    [] s.network # "unset" /\ WantsTls(i) -> [s EXCEPT !.security = "tls"]
    [] s.network # "unset" /\ i.tls = "reality" -> [s EXCEPT !.security = "reality"]
    [] OTHER -> s

Secure(i, s) ==
  CASE WantsTls(i)       -> [s EXCEPT !.security = "tls"]
    [] i.tls = "reality" -> [s EXCEPT !.security = "reality"]
    [] OTHER             -> s

buildInbound(i) ==
  LET t == Transport(i)
      s == IF t = Error THEN Error ELSE Socket(i, t)
  IN IF s = Error THEN Error ELSE Secure(i, s)

-----------------------------------------------------------------------------
(* core: accounts *)

\* Mutation of DefaultCipher: the cipher is kept beside a server key.
KeptCipher(i) == i.cipher

\* The cipher of the inbound's own random user.
DefaultCipher(i) == IF i.serverKey THEN "empty" ELSE i.cipher

\* The accounts that AddUsers builds; a user of a protocol is named after it.
Account(i) ==
  IF i.protocol = "shadowsocks" /\ i.serverKey THEN "shadowsocks2022"
                                               ELSE i.protocol

\* The proxy that xray runs for the inbound, which decides what accounts it
\* understands.
Proxy(i) ==
  IF i.protocol = "shadowsocks" /\ i.cipher = "2022" THEN "shadowsocks2022"
                                                    ELSE i.protocol

\* InboundDetourConfig.Build, but for the certificate files: networks without
\* an implementation, REALITY over others than these, and users of shadowsocks
\* whose cipher is not one of theirs are refused.
XrayBuilds(i, s) ==
  /\ s.network \notin {"", "other", "error"}
  /\ s.security = "reality" => s.network \in {"unset", "tcp", "grpc", "xhttp"}
  /\ i.protocol = "shadowsocks" =>
       DefaultCipher(i) = IF i.cipher = "2022" THEN "empty" ELSE "aead"

=============================================================================
