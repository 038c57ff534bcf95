---------------------------- MODULE MCRegistration ----------------------------
(* Registration on small instances. *)
EXTENDS Registration, TLC

Symmetry ==
    Permutations(Users \ {Founder}) \cup Permutations(Invitations)
        \cup Permutations(Confirmations) \cup Permutations(Requests)

=============================================================================
