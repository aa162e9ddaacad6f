----------------------------- MODULE MCNodeSetup ------------------------------
(* Instances of NodeSetup for TLC. *)
EXTENDS NodeSetup

\* A vless node that only its certificates tell from others.
Plain ==
  [protocol |-> "vless", tls |-> "tls", certMode |-> "acme", template |-> FALSE,
   network |-> "ws", settings |-> "plain", encryption |-> "none",
   cipher |-> "other", serverKey |-> FALSE, interval |-> "positive"]

\* Every way to get a certificate, with and without a template.
Certificates ==
  {[Plain EXCEPT !.certMode = m, !.template = t, !.interval = i] :
     m \in {"none", "file", "acme", "self", "other"}, t \in BOOLEAN,
     i \in {"positive", "zero", "absent"}}

\* Every protocol, network and kind of settings, and every kind of shadowsocks,
\* without and with a file certificate.
Shapes ==
  {[Plain EXCEPT !.protocol = p, !.network = n, !.settings = s, !.tls = t,
                 !.certMode = m] :
     p \in Protocol \cup {"other"}, n \in Network, s \in Settings,
     t \in {"none", "tls", "reality"}, m \in {"none", "file"}}

Ciphers ==
  {[Plain EXCEPT !.protocol = "shadowsocks", !.settings = s, !.cipher = c,
                 !.serverKey = k] :
     s \in Settings, c \in {"aead", "2022", "other"}, k \in BOOLEAN}

Encryptions ==
  {[Plain EXCEPT !.certMode = "none", !.encryption = e, !.settings = s] :
     e \in {"none", "mlkem", "other"}, s \in Settings}

AllConfigs == Certificates \cup Shapes \cup Ciphers \cup Encryptions

=============================================================================
