--------------------------- MODULE TradeRefinement ---------------------------
(***************************************************************************)
(* How TradeLifecycle implements TradeContract: what the rows say of the   *)
(* members, their consents and the deals.  Requests and locks have no      *)
(* counterpart, so every step before a commit is a stutter and a commit is *)
(* one whole operation of the contract.                                    *)
(***************************************************************************)
EXTENDS TradeLifecycle

\* What the contract calls a deal, told from the row of the trade.
DealOf(row) ==
    [from |-> row.proposer, to |-> row.receiver, stage |-> row.status,
     pressed |-> {u \in {row.proposer, row.receiver} : HasCompleted(row, u)}]

\* The stage of a trade nobody has proposed yet is the stage of no deal.
Unproposed == [stage |-> "unproposed"]

Deals == [t \in Trades |-> IF Exists(t) THEN DealOf(Row(t)) ELSE Unproposed]
Consenting == [u \in Users |-> ConsentValid(u)]

Contract == INSTANCE TradeContract WITH
    Deals <- Trades, NoDeal <- Unproposed,
    member <- alive, consenting <- Consenting, deal <- Deals, said <- messages

\* Concurrent requests, each of which looks first and writes later, have the
\* effect of operations done one at a time that look and write at once.
ImplementsContract == Contract!Spec

\* Which requests carry words is settled when they begin: a cancellation
\* always does, approving and withdrawing never do.
CarriesWordsAsItShould(r) ==
    /\ Serves(r, {"approve", "withdraw"}, {"consent", "write"}) => ~req[r].note
    /\ Serves(r, {"cancel"}, {"consent", "write"}) => req[r].note

NotesFit == \A r \in Requests : CarriesWordsAsItShould(r)

=============================================================================
