----------------------------- MODULE MCTradedItems -----------------------------
(* TradedItems and Matching on small instances. *)
EXTENDS Matching, TLC

Two == {1, 2}
Three == {1, 2, 3}

Form(receive, give) == [receive |-> receive, give |-> give]

\* One item on each side, even the same.
Singles == {Form({i}, {j}) : i, j \in Two}

\* The same of three items, and two against one.
Offers ==
    {Form({i}, {j}) : i, j \in Three}
        \cup {Form({1, 2}, {3}), Form({3}, {1, 2})}

Symmetry == Permutations(Requests) \cup Permutations(Users)

=============================================================================
