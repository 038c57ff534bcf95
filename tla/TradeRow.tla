------------------------------- MODULE TradeRow -------------------------------
(***************************************************************************)
(* One row of the table trades and the statements that move it.            *)
(*                                                                         *)
(* A row is a value.  Each conditional UPDATE of db/queries/trades.sql is  *)
(* an operator from the row it finds to the row it leaves: a row that does *)
(* not meet the WHERE clause is returned as it is, and the statement       *)
(* reports "no rows" exactly when the result is the row it was given.      *)
(* PostgreSQL re-evaluates the WHERE clause on the newest version after a  *)
(* lock wait, so a statement is one step on the current row.               *)
(*                                                                         *)
(* Times are kept as "set or NULL": no decision reads their value.         *)
(***************************************************************************)
EXTENDS FiniteSets

CONSTANT Users      \* the users' ids

InProgressStatuses == {"pending", "matched"}
EndedStatuses == {"withdrawn", "declined", "completed", "failed", "cancelled"}
Statuses == InProgressStatuses \cup EndedStatuses

TradeRows == [proposer: Users, receiver: Users, status: Statuses,
              proposerCompleted: BOOLEAN, receiverCompleted: BOOLEAN,
              matchedAt: BOOLEAN, endedAt: BOOLEAN]

-----------------------------------------------------------------------------
(* The model's questions about a row. *)

IsInProgress(t) == t.status \in InProgressStatuses

IsParticipant(t, u) == u \in {t.proposer, t.receiver}

PartnerOf(t, u) == IF t.proposer = u THEN t.receiver ELSE t.proposer

HasCompleted(t, u) ==
    IF t.proposer = u THEN t.proposerCompleted ELSE t.receiverCompleted

HasAnyCompleted(t) == t.proposerCompleted \/ t.receiverCompleted

\* Whose turn it is, as the trade page decides it from the loaded row.
IsAwaiting(t, u) ==
    CASE t.status = "pending" -> t.receiver = u
      [] t.status = "matched" /\ t.proposer = u ->
            ~t.proposerCompleted /\ t.receiverCompleted
      [] t.status = "matched" /\ t.proposer # u /\ t.receiver = u ->
            ~t.receiverCompleted /\ t.proposerCompleted
      [] OTHER -> FALSE

\* Wrong on purpose: the user's own press does not end the wait.
CountedAfterOwnPress(t, u) ==
    \/ t.receiver = u /\ t.status = "pending"
    \/ t.proposer = u /\ t.status = "matched" /\ t.receiverCompleted
    \/ t.receiver = u /\ t.status = "matched" /\ HasAnyCompleted(t)

\* The same question as the badge query counts it.
CountedAsAwaiting(t, u) ==
    \/ t.receiver = u /\ t.status = "pending"
    \/ /\ t.proposer = u /\ t.status = "matched"
       /\ ~t.proposerCompleted /\ t.receiverCompleted
    \/ /\ t.receiver = u /\ t.status = "matched"
       /\ ~t.receiverCompleted /\ t.proposerCompleted

(* Who may do what, whatever the stage: policy.TradePolicy. *)

CanView(t, u) == IsParticipant(t, u)
CanWithdraw(t, u) == t.proposer = u
CanReply(t, u) == t.receiver = u

-----------------------------------------------------------------------------
(* The statements.  The operators marked wrong on purpose are variants with
   a bug; they stand in for the right one when a property is tested. *)

CreateTrade(proposer, receiver) ==
    [proposer |-> proposer, receiver |-> receiver, status |-> "pending",
     proposerCompleted |-> FALSE, receiverCompleted |-> FALSE,
     matchedAt |-> FALSE, endedAt |-> FALSE]

WithdrawTrade(t, u) ==
    IF t.proposer = u /\ t.status = "pending"
    THEN [t EXCEPT !.status = "withdrawn", !.endedAt = TRUE]
    ELSE t

ApproveTrade(t, u) ==
    IF t.receiver = u /\ t.status = "pending"
    THEN [t EXCEPT !.status = "matched", !.matchedAt = TRUE]
    ELSE t

DeclineTrade(t, u) ==
    IF t.receiver = u /\ t.status = "pending"
    THEN [t EXCEPT !.status = "declined", !.endedAt = TRUE]
    ELSE t

\* Wrong on purpose: only the proposer's earlier press counts.
CompleteTradeOneSided(t, u) ==
    IF /\ t.status = "matched"
       /\ \/ t.proposer = u /\ ~t.proposerCompleted
          \/ t.receiver = u /\ ~t.receiverCompleted
    THEN [t EXCEPT !.proposerCompleted = @ \/ t.proposer = u,
                   !.receiverCompleted = @ \/ t.receiver = u,
                   !.status = IF t.proposerCompleted THEN "completed" ELSE @,
                   !.endedAt = @ \/ t.proposerCompleted]
    ELSE t

\* The right-hand sides of SET read the row before the update, so "either
\* is set" means that the partner pressed before u did.
CompleteTrade(t, u) ==
    IF /\ t.status = "matched"
       /\ \/ t.proposer = u /\ ~t.proposerCompleted
          \/ t.receiver = u /\ ~t.receiverCompleted
    THEN [t EXCEPT !.proposerCompleted = @ \/ t.proposer = u,
                   !.receiverCompleted = @ \/ t.receiver = u,
                   !.status = IF HasAnyCompleted(t) THEN "completed" ELSE @,
                   !.endedAt = @ \/ HasAnyCompleted(t)]
    ELSE t

FailTrade(t, u) ==
    IF IsParticipant(t, u) /\ t.status = "matched"
    THEN [t EXCEPT !.status = "failed", !.endedAt = TRUE]
    ELSE t

\* Wrong on purpose: a press that came in between is overlooked.
CancelTradeAfterPress(t, u) ==
    IF IsParticipant(t, u) /\ t.status = "matched"
    THEN [t EXCEPT !.status = "cancelled", !.endedAt = TRUE]
    ELSE t

CancelTrade(t, u) ==
    IF IsParticipant(t, u) /\ t.status = "matched" /\ ~HasAnyCompleted(t)
    THEN [t EXCEPT !.status = "cancelled", !.endedAt = TRUE]
    ELSE t

=============================================================================
