------------------------------- MODULE MCMasters -------------------------------
(* Masters on a small instance: an event, its category, goods, two stations. *)
EXTENDS Masters, TLC

Event == 1
Category == 2
TheGoods == 3

MCMasters == 1..5
MCGoods == {TheGoods}
MCStations == {4, 5}
MCParent == [m \in MCMasters |-> CASE m = Category -> Event [] m = TheGoods -> Category [] OTHER -> NoParent]
MCSeeded == MCMasters \ {TheGoods}

Symmetry == Permutations(Requests) \cup Permutations(Users) \cup Permutations(Names)

=============================================================================
