---------------------------- MODULE MCSecondFactor ----------------------------
(* Small instances of SecondFactor. *)
EXTENDS SecondFactor, TLC

RequestsAndCodes == Permutations(Requests) \cup Permutations(CodeNumbers)

=============================================================================
