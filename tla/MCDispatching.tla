---------------------------- MODULE MCDispatching -----------------------------
(* Instances of Dispatching, and with it of Routing and Sniffing, for TLC. *)
EXTENDS Dispatching, TLC

CONSTANTS t1, t2

\* No condition, one target, both.
SomeMatch == {{}, {t1}, {t1, t2}}

Conv(net, by, at, until, others, domain) ==
  [net |-> net, by |-> by, at |-> at, until |-> until, others |-> others,
   domain |-> domain]

\* A TLS hello in two packets, an HTTP request in one, BitTorrent, which has no
\* domain, QUIC, whose first packet asks for another, and what nobody knows.
SomeContent ==
  {Conv("tcp", "tls", 2, "noClue", "noClue", TRUE),
   Conv("tcp", "http", 1, "noClue", "no", TRUE),
   Conv("udp", "utp", 1, "noClue", "noClue", FALSE),
   Conv("udp", "quic", 2, "needMoreData", "noClue", TRUE),
   Conv("tcp", "utp", 1, "noClue", "noClue", FALSE)}

\* Nodes and outbound configurations are interchangeable.
Symmetry == Permutations(Node) \cup Permutations(Def)

=============================================================================
