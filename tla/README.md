# Cutre: a TLA+ verification of the trading core

Cutre is a web application (Go, PostgreSQL, under `src/go`) on which people
who collect goods find each other, propose to trade, write to each other until
they have met, and record how it ended. Every request is a goroutine of its own
with its own database connection. All lasting state is in PostgreSQL, read and
written at the isolation level READ COMMITTED; nothing the program decides by
is kept in memory between requests. What can go wrong is therefore what happens
*between* the statements of two requests, and what a user does with a page that
was read some time ago. That is what these modules are about.

## 1. Inventory

The layers call each other in one direction: handlers (`internal/handler`) read
the form and call one use case (`internal/usecase`); a use case calls policies,
validators and repositories; a repository runs the statements of `db/queries`.
A use case is the unit that reads, decides, opens a transaction and commits.
Background jobs (River) call use cases too.

| Component | State (tables) | Operations | What is hard | What makes it correct | Module |
|---|---|---|---|---|---|
| Trades | `trades`, `trade_events` | propose, approve, decline, withdraw, cancel, fail, "completed" by each user | all reads come before the transaction; two users act at once | one end per trade; both presses complete it; an ended trade rests; both users have accounts | `TradeRow`, `TradeLifecycle`, `TradeContract`, `TradeRefinement` |
| Consent to the handling of messages | `message_consents` | agree, withdraw | agreeing takes no lock; consent is read before the transaction that needs it | consent stands while a trade needs it; no words without consent | `TradeLifecycle` |
| Messages and read positions | `trade_messages`, `trade_message_reads` | send, take back, open the page, record what was shown | stamps are taken before the commit; two tabs; same instant | what was shown is read and stays read; what came later is unread | `TradeMessages` |
| Items of a list | `items`, `trade_items` | add, edit, remove; lowered by a completion; removed with the account | old screens, row locks in several orders, snapshot vs. newest version | stock above zero; no lost update; removed rows rest; one kind of deadlock only | `TradedItems` |
| Matching and lists to read | none | queries for candidates and what can be traded with them | the same rule in SQL, in Go and in the validation of a proposal | who is shown can trade | `Matching` (in part) |
| Withdrawal of an account | `users` and nearly every other table | delete the account | must exclude proposals, sign-ins, tokens, additions | nobody leaves in the middle of a trade; nothing usable is left | its part in each of `TradeLifecycle`, `TradedItems`, `Credentials`, `SecondFactor`, `Registration`, `Masters` |
| Passwords and their reset | `user_passwords`, `password_reset_tokens` | request, send, use | retried jobs, lock order against a deletion | a link works once, the stored one is in the mailbox | `Credentials` |
| Sign-in and sessions | `user_sessions` | sign in, continue, sign out | a session inserted after the password changed | no session outlives what ended "all sessions" | `Credentials`, `SecondFactor` (in part) |
| Second factor | `user_two_factor_auths`, `..._recovery_codes` | prepare, enable, use, disable, remove by the command line | one code used twice at once; two tabs that set it up | a code passes once; codes only while enabled | `SecondFactor` |
| Invitations | `invitations`, `invitation_redemptions` | show, renew, use, revoke, make by the command line | the count of uses against concurrent registrations | one link per inviter, a limit of uses for all links together | `Registration` |
| Registration | `email_confirmations`, `users` | request, confirm, create the account | retries, attempts counted at once | one account per confirmed address; limited wrong codes | `Registration` |
| Rate limits | `rate_limits` | count, decide, clean up | fixed windows, the clock read before the row is written, cleanup of a running one | at most the limit in a window | `RateLimit` |
| Masters: goods, events, categories, stations | same names | create, edit, archive, unarchive, delete | deleted or archived while being pointed to | no dangling choice, no hidden lost update | `Masters` |
| Places of a user | `user_stations` | replace the list | two replacements at once | the list of one of them | `Masters` |
| Background jobs | River's tables | mail, cleanup | run at least once | harmless when repeated | in `Credentials`, `Registration`, `RateLimit` (in part) |
| Server and daemon | none | start, stop, hand-over of the socket | — | — | not modelled |
| Web layer | none | routing, forms, pages | — | — | not modelled |

How they interact. All through rows: proposals, completions and deletions share
the rows of `users` (locked in the order of ids), `trades` (conditional `UPDATE`) and
`items` (locked in the order of ids). Messages and consents share the stage of the
trade through `INSERT ... SELECT ... FOR SHARE` and through the rule that nobody
withdraws consent during a trade. A deletion meets password changes at the rows of
the password and the token, renewals and registrations at the rows of the
inviter and the invitation. Additions of items and places meet the administration
at the rows of the masters, which they lock from the event down. Jobs meet requests
at the row of the user. `PROJECT.json` lists the files of each component, and under
`hazards` each place where an order of events nobody tests would bite, with the
property that watches it or the reason why none does.

## 2. Modules

### `TradeRow`: the row of a trade and its statements

A row is a record. Each conditional `UPDATE` of `db/queries/trades.sql` is an
operator from the row it finds to the row it leaves; a row that does not meet
the `WHERE` clause comes back unchanged, which the use cases report as a
conflict. The questions of `model.Trade` and `policy.TradePolicy` are operators
too. `CompleteTrade` keeps the detail that the right-hand sides of `SET` see the
row before the update.

### `TradeLifecycle`: requests on trades, consents and accounts

| Variable | Code |
|---|---|
| `alive` | `users.deleted_at IS NULL` |
| `consents` | rows of `message_consents` of a user, given or withdrawn |
| `trades`, `events`, `messages` | the tables; messages are counted per sender |
| `userLock` | who holds the row of `users` (`LockUserByID`, `FOR NO KEY UPDATE`) |
| `req` | where each request stands: what it has read, what it does next |

A use case is two to five actions, split where another connection can come in
between: `...Begin` is the read of the trade with all its early returns
(policy, stage), `CheckConsent` the read of the consent, `CreateTradeLockFirst`,
`CreateTradeLockSecond` and `LockOwnUser` the waits for users,
`CheckNoTradeInProgress` the check under the lock, `...Commit` the rest of the
transaction. A transaction whose first statement is the conditional update of the trade
is one action: it holds the row from then on and decides nothing afterwards, so
no other connection can tell its statements apart. `Abort` is every way not to
finish: a failed statement, a client that went away, the end of the process;
PostgreSQL rolls back. A refused form, a wrong password or a full rate limit
is an abort too, as it changes nothing. Times are kept as "set or NULL"; the
version of the consent's text is left out, there is one.

### `TradeContract`: what trades promise

The same operations, each in one instant: it looks and acts at once, on members,
consents and deals without rows, requests or locks.

### `TradeRefinement`: how the rows keep it

Maps the rows of `TradeLifecycle` to the contract: `DealOf` reads a deal off the row of
a trade, `Consenting` the standing consents off the rows of `message_consents`. That
every step of the detailed specification is a step or a stutter of the contract is
checked by TLC (`ImplementsContract`) and proved.

### `TradedItems`: the lists and what happens to them

`items` with `lock_version`, the trades reduced to open, completed and over, the
locks on users and on items, and requests: a screen that stays open with the
version it read, an addition whose user was read at its start, a proposal that
locks its items in the order of ids and validates them under the lock (its form may
name any ids: the rows are locked before owner and kind are looked at, also those of
a third user, whose row of `users` the proposal does not hold), a
completion whose statement takes a snapshot (which wishes are listed), locks the
rows in the order of ids and changes the newest versions, and a deletion that
locks the rows it found in any order. The insert of an item waits for a deletion
that is under way: `WithdrawUser` changes unique columns, so the foreign key's
lock has to wait; afterwards it finds the row that stays of the user. A
deletion's lock on its user and the look at its trades are one action here, as
proposals wait for that lock; `TradeLifecycle` has them apart.

### `TradeMessages`: stamps, ids, commits and reading

A clock; messages stamped with the beginning of their transaction, with ids
drawn when the row is inserted (uuidv7) and visible at the commit; the share
lock on the trade that a press has to wait for; pages that are read first and
recorded later, in any order; retraction. Two history variables: what each user
was shown by recorded pages, and what was there when the sending of a message
began. Of the trade only the two presses are kept, with or without a note.
Pages that are prefetched, or whose mark fails, are an `Abort`.

### `Matching`: who is shown, and what can be traded

Extends `TradedItems` with the queries of the page of matches: the statement that
finds candidates, the statement that loads the items of both sides, and the Go code
(`NewMatch`, `findMatches`) that works out what can be traded from what was loaded.
It has no state: `CandidatesCanTrade` is about every state of the lists. It is proved and not
run: that loading only the matching rows loses nothing can fail only with several goods, several
candidates and quantities above one, which no instance that can be explored has.

### `Credentials`: passwords, links, sessions, and the queue

| Variable | Code |
|---|---|
| `password`, `token`, `sessions` | the rows of a user; a password and a token are numbers in the order of making |
| `expired` | tokens whose `expires_at` has passed |
| `mailed` | what the mail server has taken |
| `jobs` | River's rows of the password job: state and attempts left |
| `userLock`, `passwordLock`, `tokenLock` | who holds which row |

The job has three steps, lock the user, replace the token and commit, send the mail,
and may fail at each (`JobFails`, an action of its own); it is then queued again until its attempts are used up. A change
of password takes token, password, sessions; a deletion takes user, password, sessions,
token. The two can hold what the other needs: `EndDeadlock` is PostgreSQL ending one of
them. `used` is a history variable.

### `SecondFactor`: one user's setting and recovery codes

A clock in steps of 30 seconds; the setting with its secret and the last step used;
recovery codes, stored and spent; the locks on both. Every use case is a read with its
early returns, then the conditional write, then, where there is one, the rest of the
transaction. `passed` and `recovered` count what let somebody in. A user more would
add nothing: no row of one user is read for another.

### `Registration`: invitations, confirmations, accounts

The rows of `users`, `invitations`, `invitation_redemptions` and
`email_confirmations`; the locks on users and invitations; and an insert that waits
for another transaction with the same unique address (`InsertWaitsFor`): another
registration, or a deletion, whose `WithdrawUser` changes that column. A registration
takes no lock on its inviter: what it inserts points to the invitation, which it holds, and to
its own new user. `Blockers` says for whom a request waits. Expiry of an invitation and of a
confirmation are steps of time; the daily job deletes expired confirmations.

### `Masters`: goods, events, categories, stations, places

The four kinds are one: a row with status, name and version, under a parent or none.
Screens carry the version they read; `WriteMaster` is the conditional statement of
each operation, and deleting asks that nothing points to the row or lies under it. Adding an item
locks event, category and goods in this order (`FOR NO KEY UPDATE`), a form of places the
stations in the order of ids after the row of the user.

### `RateLimit`: fixed windows

The clock, the rows (`counts`) and the attempts, each of which reads the clock,
then writes the row of the window it read, for its address and then for its
account. The clean-up reads the clock too and deletes by it. `KeyOf` turns an
address into its unit (a network, a spelling).

### Operators marked "wrong on purpose"

Next to some operators stands a variant with a bug of the kind that is easily
made there (a dropped lock, a dropped condition, the wrong row). Nothing uses
them; put in the place of the right one, each makes a named property fail, which
shows that the property looks at the code and not at the shape of the model.

## 3. What is checked

Every run explores its instance completely. Sizes are those that let each
hazard happen; adding one more of a kind adds no new kind of meeting, because
requests only meet through a row and all rows of a table are treated alike.

| Run | Instance | Shows |
|---|---|---|
| `trade_safety` | 2 users, 1 trade, 2 requests, 1 message each, notes | `TradersAreMembers`, `TradersConsent`, `PressesDecide`, `BadgeCountsTurns`, `EndedTradesRest`, `WordsNeedConsent`; and `ImplementsContract`: look-then-write requests implement operations that look and write at once |
| `trade_locking` | 2 users, 2 trades, 2 requests, only requests that lock users | `RequestsReturn`: nobody waits for ever |
| `items_safety` | 2 users, 3 items of one goods, quantity up to 2, 1 trade, 2 requests, screens up to version 0, forms of any of the ids, one a side or two against one | `ListedHaveStock`, `ScreensAreCurrent`, `OnePointOfEachGoods`, `ProposedItemsAreListed`, `RemovedItemsRest`, `CompletionTakesOnePoint` |
| `items_locking` | 3 users, 2 items, 2 trades, 2 requests, forms of any id on each side | `CirclesNeedForeignItems`: the only circle of waits is a deletion with a proposal of two others that names its user's items; `RequestsReturn` over the locks on items |
| `messages_safety` | 2 users, 2 messages, 2 instants, 2 requests | `SeenStaysRead`, `LaterMessagesAreUnread` |
| `messages_unseen` | 2 messages, 3 instants | a counterexample to `UnseenIsUnread`, see below |
| `credentials` | 1 user, 2 requests, 1 job of 3 attempts, 3 tokens and passwords, 1 session | `EachLinkChangesOnce`, `LinksReachTheMailbox`, `GoneUsersCannotSignIn`, `TheStoredLinkChanges`; `JobsEnd`: a job ends without having to fail, although it waits for rows, also for those of two requests that deadlock |
| `old_sessions` | 1 user, 2 requests, 2 passwords | a counterexample to `OldPasswordSessionsEnd` |
| `second_factor` | 2 requests, 2 secrets, 2 recovery codes each, 2 steps of time | `CodesOfTheSettingPassOnce` (also the code that takes the setting away), `RecoveryCodesPassOnce`, `CodesBelongToTheSetting`, `EnabledSecretsWereShown` |
| `registration` | 3 users of whom one is registered, 2 addresses, 2 invitations, 2 confirmations, 2 requests, limits of 1 | `LimitsHold`, `InvitersKeepOneLink`, `StandingInvitationsAdmit`, `ConfirmationsServeOnce`, `NoCircleOfWaits`; `TypeOK`, whose bound on `failed` is the limit of wrong codes |
| `masters` | an event, its category, goods, 2 stations, 2 users, 2 requests, one master that changes, screens while there are fewer than 3 changes | `ReferencesStand`, `ScreensAreCurrent`, `NewReferencesArePublished`, `NoCircleOfWaits` |
| `rate_limit` | 2 addresses of one network, 1 account, 3 windows of 2 ticks, 2 requests | `WindowsKeepTheLimit`, `RunningWindowsStay`, and `DecidedAttemptsAreCounted`: the account is counted although the address was refused, in rows that stay, and the later time is told |

Bounds and why they are enough. Two requests are two sides of a race; the
hazards are all between two actors, or between two actors and a job
(`credentials` has the job beside them). One trade suffices for what a
trade does to itself and two users; two trades are used where a lock or a
check over several trades matters. With the one-trade bound, a user who has
ended it cannot propose again, so interleavings of an old trade with a new one
are covered by the proofs (any number of trades) and by `trade_locking`.
`MaxMessages`, `MaxConsents`, `MaxVersion`, `MaxTime`, `MaxTokens`, `MaxPasswords`,
`MaxSecrets` and `MaxCount` only stop counters that no decision reads beyond "more" or
"later"; `MaxChanged`, `MaxChanges` and `Forms` (the ids that proposals carry) keep an instance small. Limits of one (uses of an
invitation, wrong codes, checks of an account in a window) put the boundary where two
requests meet it; the network's limit is two. Three items of one goods give two users the gives of a
trade and a wish, or what a user lists anew after a removal; two items and three users are the
least for a proposal of items of somebody else. In `masters` two users hold stations at once,
as each form of places holds the row of its own user first. The runs without a job or a rival
of the second kind are the smallest in which every action happens.

Deadlock checking is off where the service may rightly rest: a user may do nothing
more, everybody may have left, a bound may be reached. Circles of waiting requests are
looked for by `RequestsReturn` and `JobsEnd`, and by
`NoCircleOfWaits` and `CirclesNeedForeignItems`, which name for each request whom it waits for. With two requests a circle
is one of two; that longer ones cannot close either is proved (section 4).

`RateLimit` has one number the code does not name: `Patience`, the longest time a
statement takes after its attempt has read the clock. The limiter needs
`Window + Patience <= Retention` (`RowsOutliveAttempts`); the code keeps rows for 24
hours and has windows of at most an hour, so a statement may take hours.
The clocks of several processes are taken as one.

Symmetry is used only in runs without liveness, over sets whose members are
model values and are not ordered by the code (users are ordered where proposals
sort them, so there only requests are permuted).

### Fairness

`FairSpec` asks for strong fairness of the server's next step of every request
that has begun. A goroutine that is not waiting is scheduled; one that waits for
a row is in PostgreSQL's queue of that row and is served in turn, so a lock that
is free again and again is granted. In `Credentials` a job's work is strongly fair for the
same reason (River's worker runs a job that is queued, and its step may wait for rows), but a failure
is not: a job may fail and need not, so it has to get its rows. `EndDeadlock`, there and in `TradedItems`,
is weakly fair: PostgreSQL looks for deadlocks after a second of waiting. It ends only the circles
that `InDeadlock` names, so a circle of another kind would be found. Nothing is
assumed of users: they need not begin a request, send a screen, answer or press. In `items_locking` a screen is
not a request the server owes anything. `trade_locking` uses the same fairness under
a next-state relation restricted to the requests that lock users.

### Disagreements found

* `messages_unseen`. The read position is the last line of the page
  (`mark_trade_messages_read.go:27-28`: so that nothing that arrived before being
  shown is taken for read). A message whose transaction began earlier but
  committed after the page was read sorts before that line and counts as read. The
  window is as long as the sending waits, for instance for the row of the trade.
* `old_sessions`. A sign-in checks the password (`create_sign_in.go`) and makes its
  session later (`create_session.go:62`), after the second factor up to ten minutes later,
  and does not look at the password again. A change of password in between has ended
  "all" sessions, and `update_password.go:18` says that no session obtained with the
  old password remains.

Met while modelling, left as remarks. An item inserted while its
user leaves stays listed as a row (the theorem `CandidatesTrade` says that it is offered to
nobody); in the same way a session, a pending second factor, or a confirmation of
the address may remain of a user who leaves while its request is under way.
`delete_account.go:17` promises that rows with means of signing in or the address are deleted and nothing is
left that identifies the person; the rows that the use case finds are gone, those that are inserted behind it
are not, and `GoneUsersCannotSignIn` speaks of password and link only. A
proposal whose form names items of a third user locks them before it is refused, and may so
deadlock with the deletion of that user, which takes them in any order
(`delete_account.go:137`); PostgreSQL ends one of the two after a second. Events
of a trade are listed by the time their transaction began, so of two overlapping
presses the one that ended the trade may be listed first; a code of the authenticator
of an earlier setting is counted anew after the second factor is set up again.

## 4. What is proved

Eight modules of proofs are checked by TLAPS, each `<Module>Proofs` beside its
`<Module>`. They hold for every value of the constants: any number of users, rows,
requests and jobs, any limits and bounds. Their assumptions are the named `ASSUME`s of
the modules, which TLC evaluates in every run: bounds are numbers, "no row" and
"nobody" are values of their own, ids that the code sorts are numbers, parents of
masters come before children, rows of windows outlive attempts.

| Module | Theorems (the property each states) | What the inductive invariant adds |
|---|---|---|
| `TradeLifecycle` | `TradersStayMembers`, `TradersKeepConsent`, `PressesDecideTrades`, `TimesAgree`, `BadgesAgree`, `EndedTradesStayAsTheyAre`, `WordsAreConsentedTo`, `ContractIsImplemented` (`ImplementsContract`), `WaitsEnd` | see below |
| `TradedItems`, `Matching` | `ListsHoldStock` (`ListedHaveStock`), `ScreensStayCurrent`, `PointsAreOfDifferentGoods` (`OnePointOfEachGoods`), `WhatIsRemovedRests`, `ProposalsHoldListedItems`, `CompletionsTakeOnePoint`, `CandidatesTrade` (`CandidatesCanTrade`), `WaitsEnd` (`CirclesNeedForeignItems`) | a proposal holds what it has locked, and once checked all of it, listed gives of the right users; a completion's trade is open and held by it alone, its amounts are one or none and of rows it holds or has still to lock; a deletion holds what it found; no user lists the same goods twice as one kind |
| `TradeMessages` | `ShownMessagesStayRead` (`SeenStaysRead`), `LaterOnesAreUnread`, `MessagesStayInPlace` | what was there when a sending began is stamped no later and has a smaller id; pages and positions end at a message that was there |
| `Credentials` | `LinksChangeOnce`, `StoredLinksAreSent` (`LinksReachTheMailbox`), `GoneUsersStayOut`, `ChangesSpendTheStoredLink`, `WaitsEnd` | who holds which of the three rows at which step; a token that is stored is one user's and unused |
| `SecondFactor` | `CodesPassOnce`, `RecoveryPassesOnce`, `NoCodesAreLeftBehind`, `SecretsAreShownFirst`, `SettingsStay`, `WaitsEnd` | what a request knows of the row it read: its secret is not newer, and a code that passed is behind the last step |
| `Registration` | `InvitationsAreLimited` (`LimitsHold`), `OneLinkEach`, `OneAccountEach`, `OnlyStandingInvitationsAdmit`, `WaitsEnd` (`NoCircleOfWaits`), `TypesHold` | who registers holds an invitation that stands and has room; who renews or deletes holds a user who is there; spent confirmations stay gone |
| `Masters` | `ReferencesAlwaysStand`, `VersionsTellTheTruth` (`ScreensAreCurrent`), `OnlyPublishedRowsAreChosen`, `WaitsEnd` (`NoCircleOfWaits`) | a master is made by one request and was not there before; screens are not newer than their rows; what a request is about to change is there. That an addition's masters are published needs none of it: they are read again under their locks |
| `RateLimit` | `LimitsAreKept` (`WindowsKeepTheLimit`), `RefusalsHaveReasons`, `RunningWindowsKeepTheirCounts`, `AttemptsAreCounted` (`DecidedAttemptsAreCounted`) | a clock was read at most `Patience` ago; the row of a window that can still be written counts no less than what passed, and a row that an attempt counted in goes only when its window is closed |

Each also has `TypesHold`, so types are proved instead of being run. The arguments are
all built the same way: helpers that end or begin a request keep the invariant
(`RefusalsKeepInv`, `BeginningsKeepInv`), a lemma says which facts of *other* requests
a step can disturb (`UndisturbedStayInOrder` in `TradedItems`: rows a request does not hold may
change, but an item keeps its user and its kind), then one lemma per
action, and `InvHolds` puts them together. Action properties are
proved from the invariant and the same lemmas.

`TradeLifecycle` in more detail. The safety invariants are not inductive: a deletion at its commit step knows
nothing by itself about trades. `Inv` adds what is true of requests in flight:

* `NamesItsTrade`: a request about a trade is by one of its users (the policy was
  asked before, and users of a trade never change);
* `HoldsItsUsers`: a proposal past its locks holds both rows and both users are present;
* `HoldsItsUser`: a withdrawal or deletion past its check holds its user's row,
  and that user has no trade in progress. It stays true because a new trade of
  the user needs that lock;
* `ConsentStands`: whoever looked at the consent before the transaction still has
  it as long as the trade goes on, because nobody in a trade can withdraw.

The last two hold each other up: trades keep consents in place, consents and locks
keep trades well-formed.

In `TradedItems` the two that hold each other up are locks and lists: because a proposal
checks its items under their locks and a list holds the same goods once, a trade has one point of each
goods of a user (`OnePointOfEachGoods`), and because of that each amount of a completion is one
or none (`AmountsAreOnePoint`), although the statement computes it before it has locked a row.

### The refinement of the contract

`ContractIsImplemented` goes through the steps of `TradeLifecycle` one by one. Beginning a
request, waiting for a lock, looking at a consent, a refusal and an abort move no row:
they are stutters (`QuietStepsStutter`). Each conditional statement moves its row as the
contract's operation moves the deal, or leaves it (`StatementsMoveDeals`). What is left is that a
commit acts on what still holds: that the users of a proposal are members and
consent at the commit, though they were looked at before, and that the note of a press
is still consented to. That is the invariant `Inv` again, with one part more, `NotesFit`: a cancellation
always carries words, approving and withdrawing never do.

### Who waits for whom

`WaitsEnd` is proved for each component whose requests wait while they hold rows. `Blockers`
(or `Awaits`) names those whom a request may have to wait for, and no set of requests, of any size, is
such that each waits for one of the set, except those sets that the theorems of `TradedItems`, `Credentials` and `SecondFactor` name. This is a property of states, so no fairness is needed;
with the fairness of section 3 it is what makes waiting end. Needed in each case is a second invariant, `WaitInv`,
that goes from the rows to their holders (`Inv` goes from the requests to the rows they
hold): a row is held by nobody but a request that has taken it and has not finished.
Where the argument takes the highest of the rows held, it also says that these are finitely
many, although requests and rows need not be: each step locks one row or two. The arguments differ.

* `TradeLifecycle`: only a proposal waits while it holds a user, and it waits for the
  greater of two. The holder of the highest row that is held in a circle would wait for a higher one.
* `TradedItems`: proposals and completions take items by id, so the same argument holds for
  them; every circle therefore has a deletion in it (`CirclesHoldADeletion`). A deletion takes items in any
  order, holds its user and has seen that no trade of that user is open. So it waits neither for a
  proposal of or to that user nor for a completion, and a screen holds nothing while
  it waits. What is left are proposals of two others whose forms name items of that
  user (`DeletionsWaitForProposals`). Such circles do occur when two items are named;
  `WaitsEnd` says that every circle has the two in it, and `InDeadlock` is
  the condition under which PostgreSQL ends one.
* `Masters`: masters are taken from the event down and by id, and the row of the user comes
  before the stations.
* `Registration`: there is no order of rows. A deletion waits for an invitation, held by a
  registration, which waits for an address, which belongs to another user who is being
  deleted. That user registered after the registration began (it found the address
  free), hence after its inviter. `WaitInv` says that the users can be numbered accordingly,
  and of the deletions in a circle that of the youngest user would wait for a younger one.
* `Credentials`: circles do occur, as a deletion and a change of password take the rows of the password and
  the token in opposite orders. `WaitsEnd` says that every circle has these two in it, each
  holding what the other needs, which is `InDeadlock`, the condition under which PostgreSQL ends one.
* `SecondFactor`: circles occur only with a deletion of the account in them, which has
  its user and needs the setting and the codes, while the others have one of these and need the user for
  the row they insert.

What the statements of these theorems mean was looked at in small instances first: a
variant that locks users in the order in which the form names them, items as they come, or one of
the two users of a proposal only, closes a circle.

### `Matching`

`CandidatesTrade` needs no second invariant. The statement that loads items takes those of
goods that the other side wants or gives (`LoadedRowsSuffice`: nothing is left out
that a trade could be made of), a candidate has items both ways (`CandidatesAreMutual`), and a wish that
is met by a give of the candidate is found by the Go code (`WishesAreMet`).

### What only TLC checks

Liveness: `RequestsReturn` (twice) and `JobsEnd`, as fairness and `ENABLED` are out of
the prover's reach; their safety halves are the theorems `WaitsEnd`.

## 5. What is not modelled

* The web layer: HTML, routes, forms, translations, headers, flash messages. It keeps no
  state between requests. Most lines of the repository are here, many of them
  generated from templates, and the definitions of this project stand for a small
  share of all lines for that reason: they cover the statements of `db/queries`,
  the use cases that write, and the policies and models those ask.
* Statements that only read for a page (home, profile, history, proposals), except
  matches, the count of turns and unread messages. Order and paging of lists.
* Start and stop of the daemon, River's own tables: libraries and the operating system.
* Mail that changes no row (the code of a confirmation, the notice to a registered address).
* The sliding expiry of a session and its cookie: a session ends or does not.
* Values of passwords, codes, texts; the limiter in front of an operation (a refused
  request changes nothing, an `Abort`).
* Prefectures and stations in the search for candidates; the version of the consent's text.
* More than one database: no replica is read, and a lost connection is an `Abort`.

## 6. What could come next

1. The composition of `TradeLifecycle` and `TradedItems`: the deletion appears in both, each
   with the part of the state it knows. A refinement of `TradedItems`'s three states of a
   trade by the stages of `TradeRow` would join them.
2. One order of waits over all components: a deletion takes rows of each of them in one
   transaction, and `WaitsEnd` looks at one component at a time.
3. The order of a list of trades and of events, which is decided by stamps taken before
   the commit.
