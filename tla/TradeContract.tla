----------------------------- MODULE TradeContract -----------------------------
(***************************************************************************)
(* What the trades promise, with every operation a single instant.         *)
(*                                                                         *)
(* There are no requests, locks or rows here: an operation looks at the    *)
(* members, their consents and the deal, and changes them, all at once.    *)
(* TradeLifecycle implements this although it looks first and changes      *)
(* later.                                                                  *)
(***************************************************************************)
EXTENDS Naturals

CONSTANTS Users, Deals, NoDeal

VARIABLES
    member,     \* who has an account
    consenting, \* who agrees to the handling of messages
    deal,       \* what has become of each deal
    said        \* how often each user has spoken in each deal

vars == <<member, consenting, deal, said>>

Open == {"pending", "matched"}

Init ==
    /\ member = [u \in Users |-> TRUE]
    /\ consenting \in [Users -> BOOLEAN]
    /\ deal = [d \in Deals |-> NoDeal]
    /\ said = [d \in Deals |-> [u \in Users |-> 0]]

Parties(d) == {deal[d].from, deal[d].to}
OpenDeal(d) == deal[d] # NoDeal /\ deal[d].stage \in Open
Busy(u) == \E d \in Deals : OpenDeal(d) /\ u \in Parties(d)

\* u may add words to what it does, if it agrees to their handling.
Speak(d, u) ==
    \/ said' = said
    \/ consenting[u] /\ said' = [said EXCEPT ![d][u] = @ + 1]

Say(d, u) ==
    /\ OpenDeal(d) /\ u \in Parties(d) /\ consenting[u]
    /\ said' = [said EXCEPT ![d][u] = @ + 1]
    /\ UNCHANGED <<member, consenting, deal>>

Propose(d, u, v) ==
    /\ deal[d] = NoDeal /\ u # v
    /\ member[u] /\ member[v] /\ consenting[u]
    /\ deal' = [deal EXCEPT ![d] = [from |-> u, to |-> v, stage |-> "pending", pressed |-> {}]]
    /\ Speak(d, u)
    /\ UNCHANGED <<member, consenting>>

MoveOn(d, next) ==
    /\ deal' = [deal EXCEPT ![d] = next]
    /\ UNCHANGED <<member, consenting>>

Stage(d, s) == deal[d] # NoDeal /\ deal[d].stage = s

Withdraw(d) ==
    /\ Stage(d, "pending")
    /\ MoveOn(d, [deal[d] EXCEPT !.stage = "withdrawn"])
    /\ said' = said

Decline(d) ==
    /\ Stage(d, "pending")
    /\ MoveOn(d, [deal[d] EXCEPT !.stage = "declined"])
    /\ Speak(d, deal[d].to)

Approve(d) ==
    /\ Stage(d, "pending") /\ consenting[deal[d].to]
    /\ MoveOn(d, [deal[d] EXCEPT !.stage = "matched"])
    /\ said' = said

\* Calling a match off needs a word, and is too late once someone pressed.
CallOff(d, u) ==
    /\ Stage(d, "matched") /\ u \in Parties(d) /\ deal[d].pressed = {}
    /\ consenting[u]
    /\ MoveOn(d, [deal[d] EXCEPT !.stage = "cancelled"])
    /\ said' = [said EXCEPT ![d][u] = @ + 1]

Fail(d, u) ==
    /\ Stage(d, "matched") /\ u \in Parties(d)
    /\ MoveOn(d, [deal[d] EXCEPT !.stage = "failed"])
    /\ Speak(d, u)

\* The second press is the end.
Press(d, u) ==
    /\ Stage(d, "matched") /\ u \in Parties(d) \ deal[d].pressed
    /\ MoveOn(d, [deal[d] EXCEPT !.pressed = @ \cup {u},
                                 !.stage = IF deal[d].pressed = {} THEN "matched" ELSE "completed"])
    /\ Speak(d, u)

Agree(u) ==
    /\ consenting' = [consenting EXCEPT ![u] = TRUE]
    /\ UNCHANGED <<member, deal, said>>

Revoke(u) ==
    /\ member[u] /\ ~Busy(u)
    /\ consenting' = [consenting EXCEPT ![u] = FALSE]
    /\ UNCHANGED <<member, deal, said>>

Leave(u) ==
    /\ ~Busy(u)
    /\ member' = [member EXCEPT ![u] = FALSE]
    /\ UNCHANGED <<consenting, deal, said>>

Next ==
    \/ \E u \in Users : Agree(u) \/ Revoke(u) \/ Leave(u)
    \/ \E d \in Deals : Withdraw(d) \/ Decline(d) \/ Approve(d)
    \/ \E d \in Deals, u \in Users :
          \/ Say(d, u)
          \/ CallOff(d, u)
          \/ Fail(d, u)
          \/ Press(d, u)
          \/ \E v \in Users : Propose(d, u, v)

Spec == Init /\ [][Next]_vars

=============================================================================
