------------------------------- MODULE Matching -------------------------------
(***************************************************************************)
(* What the pages of matches show of the lists: the candidates, which one  *)
(* statement finds, and what can be traded with each, which NewMatch works *)
(* out of the rows two other statements load for all candidates together.  *)
(* All of them answer to the same lists, in two languages.                 *)
(*                                                                         *)
(* That candidates also share a prefecture is left out: here all do.  The  *)
(* order of the page is left out too.                                      *)
(***************************************************************************)
EXTENDS TradedItems

ListedOf(u, kind) == {i \in ListedBy(u) : items[i].kind = kind}

\* Users whose listed rows of a kind meet the other kind in the list of u.
Meeting(u, kind, other) ==
    {v \in Users : \E i \in ListedOf(v, kind), j \in ListedOf(u, other) :
        items[i].goods = items[j].goods}

ListMatchCandidateUsers(u) ==
    {v \in Meeting(u, "give", "want") \cap Meeting(u, "want", "give") : v # u /\ alive[v]}

ListListedItemsMatchingUsers(us, counterparts) ==
    {i \in Items : Listed(i) /\ items[i].user \in us /\
        \E j \in Items :
            /\ Listed(j) /\ items[j].user \in counterparts
            /\ items[j].goods = items[i].goods /\ items[j].kind # items[i].kind}

\* The gives of the first user that the second wants, and how many of each.
Tradable(giver, wanter, loaded) ==
    {offer \in [item: loaded, quantity: 1..MaxQuantity] :
        LET row == items[offer.item]
        IN  /\ Listed(offer.item) /\ row.kind = "give" /\ row.user = giver
            /\ \E j \in loaded :
                  /\ Listed(j) /\ items[j].kind = "want" /\ items[j].user = wanter
                  /\ items[j].goods = row.goods
                  /\ offer.quantity = IF row.quantity < items[j].quantity
                                      THEN row.quantity ELSE items[j].quantity}

NewMatch(u, v, loaded) ==
    [receivable |-> Tradable(v, u, loaded), givable |-> Tradable(u, v, loaded)]

IsTradable(match) == match.receivable # {} /\ match.givable # {}

findMatches(u, partners) ==
    LET loaded == ListListedItemsMatchingUsers(partners, {u})
                    \cup ListListedItemsMatchingUsers({u}, partners)
    IN  [v \in partners |-> NewMatch(u, v, loaded)]

-----------------------------------------------------------------------------
\* Whoever is shown as a candidate has an account, has the viewer for a
\* candidate too, and can be sent a proposal of what the page offers: what the
\* statement finds and what NewMatch makes of the loaded rows agree, and
\* nothing that can be traded is lost by loading the matching rows only.
CandidatesCanTrade ==
    \A u \in Users :
        LET partners == ListMatchCandidateUsers(u)
            matches == findMatches(u, partners)
        IN  \A v \in partners :
                /\ alive[v] /\ (alive[u] => u \in ListMatchCandidateUsers(v))
                /\ IsTradable(matches[v])
                /\ matches[v] = NewMatch(u, v, Items)

=============================================================================
