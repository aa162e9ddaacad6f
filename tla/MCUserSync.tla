------------------------------ MODULE MCUserSync ------------------------------
(* Instances of UserSync for TLC. *)
EXTENDS UserSync

\* Every list, where the refused users are not told apart by their limits: they
\* never get an account.
OneLimit == CHOOSE x \in Limit : TRUE
AnyList  == {l \in [User -> Limit \cup {None}] :
               \A u \in Refused : l[u] \in {None, OneLimit}}

\* Every list with somebody in it.
NonEmptyList == AnyList \ {[u \in User |-> None]}

=============================================================================
