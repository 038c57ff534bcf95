--------------------------- MODULE MCTradeLifecycle ---------------------------
(* TradeLifecycle on small instances, beside its abstract specification. *)
EXTENDS TradeRefinement, TLC

Two == {1, 2}
Three == {1, 2, 3}

Symmetry == Permutations(Trades) \cup Permutations(Requests)
RequestSymmetry == Permutations(Requests)

\* Only the requests that lock users: nobody answers a proposal.
LockingNext ==
    \E r \in Requests :
        \/ \E u \in Users : BeginUser(r, u)
        \/ Continue(r)
        \/ Abort(r)

LockingSpec == Init /\ [][LockingNext]_vars /\ \A r \in Requests : SF_vars(Continue(r))

=============================================================================
