---------------------------- MODULE MCCredentials ----------------------------
(* Small instances of Credentials. *)
EXTENDS Credentials, TLC

=============================================================================
