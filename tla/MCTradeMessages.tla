---------------------------- MODULE MCTradeMessages ----------------------------
(* TradeMessages on small instances. *)
EXTENDS TradeMessages, TLC

Ids == 1..2

Symmetry == Permutations(Requests) \cup Permutations(Users)

=============================================================================
