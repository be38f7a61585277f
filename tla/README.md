# UniScoot backend: TLA+ models and proofs

This directory models the scooter-renting backend (`src/app`): a Go HTTP API
(fiber) and a worker over PostgreSQL, Redis, RabbitMQ, Stripe and SMTP. The
models are written from the code; the places they translate are listed, line by
line, under `map` in `PROJECT.json`.

## 1. The system

| component | state it keeps | operations | talks to |
|---|---|---|---|
| rentals service (`services/rentals`) | table `rentals` | Start, End, AdminCancel, reads | scooters (rows in the same transaction), price models, payments (preconditions, ChargeRental), broker |
| scooters service (`services/scooters`) | table `scooters` | Create, Update, Retire, List, Nearby, SetStatusTx | rentals, administrators |
| payments service (`services/payments`) | tables `payments`, `webhook_events`, column `users.stripe_customer_id`; customers, cards and intents at Stripe | EnsureCustomer, CreateSetupIntent, list/detach cards, ChargeRental, HandleWebhookEvent, ApproveOffline, HasUnpaidRentals | Stripe (calls and webhooks), rentals, users, broker |
| auth service (`services/auth`) | table `password_reset_tokens`, password hashes, Redis `jwt:revoked:*` | Register, Login, Logout, RequestPasswordReset, ConfirmPasswordReset | users, Redis, broker, the auth middleware |
| oauth, users (`services/oauth`, `services/users`) | table `users` | VerifyAndLogin, Update, Delete | Google, auth |
| broker client (`pkg/messaging`) | connection, publishing channel, declared exchanges, consumer list | connect, watchReconnect, PublishJSON, Consume, Close | RabbitMQ |
| notifications worker (`internal/notifications`) | none of its own | dispatch a message to an e-mail | broker client, SMTP |
| pricing, price models (`services/rentals/pricing.go`, `services/pricemodels`) | table `price_models` | CalculateCost, Create, Update, Delete | rentals |
| zones, maintenance | tables `zones`, `maintenance` | CRUD, lists by page, no-park check | rentals, scooters |
| HTTP layer (`server/*`) | none | parse, authenticate, call one service method, render | all services |

What makes it hard is the concurrency of HTTP requests over READ COMMITTED
transactions. A handler is a sequence of statements with calls to other
services, Stripe and the broker in between; any of them may fail, the client
may go away, the process may die; Stripe and RabbitMQ deliver at least once and
in no particular order. The hazards are listed at their lines under `hazards`
in `PROJECT.json`.

What makes each component correct:

- rentals: a rider and a scooter are in one ride at most; a ridden scooter is
  held and a held one is ridden; a ride is closed once, charged at most once
  and never reopened; requests return.
- payments: no money without a row; a row has one final verdict, the true one;
  the rider hears it once; no debt is missed; approvals are idempotent.
- accounts: a Google identity and an account stay paired; the cards set up for
  an account are the ones it sees.
- sessions: a spent reset token changes no password; a logged-out JWT stays out
  until it expires.
- broker and worker: consumers survive reconnects, close is final, a message is
  acknowledged only after it was handled.
- fares: a ride costs the fare of one tariff that was in force while it lasted,
  never more than its cap; a tariff leaves its bands only by force.
- fleet: no ride ends in a no-park zone; a client that walks through a list
  sees all of it; no scooter is in a zone that is gone.

## 2. The modules

| module | what it is |
|---|---|
| `Rentals` | Start, End, AdminCancel, statement by statement, and the administrators' edits of scooters |
| `RideMarket` | abstract: rides start and end in one step; a scooter is on offer or ridden |
| `RideLife` | abstract: a ride starts once, on terms that never change, ends once, and what its end recorded stays |
| `RideDebt` | abstract: the contract between rentals and payments about the debt of a ride |
| `Payments` | ChargeRental, Stripe, webhooks, offline approvals, HasUnpaidRentals |
| `Messaging` | the broker client: connections, reconnect loop, registrations, Close |
| `Notifications` | from a published event to an e-mail: exchanges, queue, channels, goroutines, acknowledgements |
| `MailContract` | abstract: an accepted event an e-mail can be made of is mailed at least once before it is settled |
| `Fares` | price models, their validation, and the cost of the rides that use them |
| `Fleet` | zones, scooters and maintenance logs; the no-park check of a ride's end; lists read page by page |
| `Accounts` | Register, login with Google, deletion; EnsureCustomer and the card endpoints |
| `Sessions` | password resets, JWTs, the blacklist and the auth middleware, over a discrete clock |
| `MC` + name | instance of the module for TLC (values, symmetry sets) |
| `RentalsProofs` | the invariants of `Rentals` with and without administrators' edits, bounded waits and absence of lock cycles, progress of the handlers, `Rentals` implements `RideMarket`, `RideLife` and `RideDebt` |
| `PaymentsProofs` | the invariant of `Payments`, all its safety properties, `Payments` implements `RideDebt` |
| `MessagingProofs` | the invariant of `Messaging` and its safety properties |
| `NotificationsProofs` | the invariant of `Notifications`, its safety properties, `Notifications` implements `MailContract` |
| `FaresProofs`, `FleetProofs`, `AccountsProofs`, `SessionsProofs` | the invariant of each module and its properties; in `FaresProofs` also the arithmetic of CalculateCost, and that `Fares` implements `RideLife` |

### Rentals

One action is one SQL statement or one commit. A request `req[q]` is a record
of its position `pc` and the local variables that outlive a statement (rider,
scooter, rental). A transaction's writes appear in `scooter` and `row` at its
commit action; until then its row locks are visible through `pc`:
`HoldsScooter`, `HoldsRental` and `WaitsFor` say which locks a position implies
and which statement waits for whom. The INSERT of a Start waits for an
uncommitted INSERT of the same rider or scooter and for an uncommitted End of a
conflicting ride, and fails on committed conflicts, as the partial unique
indexes do.

    Start        start_lock -> start_insert -> start_commit -> start_emit
    End          end_lock -> end_update -> end_scooter -> end_commit -> end_emit -> end_charge
    AdminCancel  cancel_update (its own commit) -> cancel_release -> cancel_commit

`BeginStart`, `BeginEnd` and `BeginCancel` are the reads before the first
locking statement, including the outstanding-balance check. `Abort` ends a
request anywhere (failed statement, cancelled context, crash) and
`DeadlockVictim` is PostgreSQL's deadlock detector. `AddScooter`,
`UpdateScooter` and `RetireScooter` are single statements that wait for the row
lock of the scooter. What a ride costs is abstract: `debt` is "none", "owed" or
"settled"; `EndCharge` stands for the whole of ChargeRental with any of its
outcomes, and `Settle` for a later webhook or offline approval. `RideDebt` says
exactly what these outcomes are, and both modules are shown to implement it.
`charges`, `events` and `orphaned` are history variables for the properties.

### Payments

A ride has at most one card row and one payment intent, since End calls
ChargeRental at most once (theorem `ChargedOnce`) with the rental id as Stripe's
idempotency key; so card row, intent and call are functions of the ride. Every
statement of the payment service commits on its own, so one action is one
statement or one Stripe call together with the events published right after it
(each may be lost). `newest` remembers which kind of row has the latest
`transaction_date`, which is all that HasUnpaidRentals looks at. Stripe is
environment: a call may fail before or after it took effect, an open intent
succeeds, fails or is cancelled later, or stays open for ever, a failed one may be
confirmed again or cancelled, and every such outcome causes a webhook that is
delivered until it is answered with 200, and possibly again. `StripeSettles`,
`Outcomes`, `Hooks` and `Intents` are therefore marked external. The handler looks
for a row only when the intent has succeeded or failed (`Handled`); an event about
a cancelled one is recorded, answered with 200 and ignored. What an administrator
approves is the price of the ride or less (`full`): the code asks for a positive
amount and compares it with nothing.

### Messaging

Two goroutines share the client: the loop (`watchReconnect`, and `NewClient`
before it) and the caller, which is the start-up and the stop of a process. A
section under `c.mu` or `consumersMu` is one action; between two sections the
broker may drop any connection and refuse any call. The position of the loop
follows the code:

    dial -> channel -> (first time) top, (later) exchanges -> snapshot
         -> consume <-> append -> top -> notify -> wait -> redial -> dial

`conn`, `pubChan`, `exchanges`, `consumers` and `closed` are the fields of
`Client`; `open` and `attached` are what the broker sees. In the api the caller
declares exchanges, in the worker it registers consumers; the module allows
both. `Reattach`/`ReplayAppend` and `Consume`/`ConsumeAppend` are the same
method called by the two goroutines, in two steps because the list is locked
only at its end. `NotifyClose` closes its receiver at once on a connection that
is closed already (library behaviour), which is why `Notify` may end the loop.
`registered`, `forgotten` and `disturbed` are history variables. `disturbed`
says that the broker has failed while the loop was not listening, or has failed
a registration of the replay; until then every registration is attached whenever the
loop is back at its select (`AttachedWhenSettled`), and comes back after a loss
(`Reattaches`); afterwards neither need hold (section 5).

### Notifications

An event is published (or lost on the way), put into the queue if a binding
matches its key, delivered to an open channel within its prefetch count, taken
by that channel's goroutine, dispatched to an e-mail, and acknowledged or
requeued. A lost connection closes all channels at once and the broker requeues
what they held, while the old goroutines go on with what they have: their
answers no longer count, their e-mails do. `addressed` are the events an e-mail can
be made of; all others (a body that is no envelope, no recipient, a type without a
template, a failed Render) are acknowledged without one by `Discard`. With the
envelopes the api writes and the templates that are compiled in, only the missing
recipient occurs. `Messaging` says when channels are
attached and lost; here both may happen at any time, so whatever is proved here
holds with every behaviour of the client. `EventuallyMailed` is stated for behaviours in which connections are kept and
workers live from some point on (`Steady`): that attached consumers come back
after a loss is what `Reattaches` of `Messaging` promises.

### Fares

Amounts are integers in ten-thousandths, the scale of `price_per_minute`; `Unit`
of them are a cent, the scale of every other column. An administrator's request
is one SQL statement, so `Create`, `Update` and `Delete` are one action each:
body (`CreateInput`, `RawBody` and `PatchFrom`, where a key may be absent, null
or no number), validation (`CreateAccepted`, `UpdateAccepted`) and columns,
which round to their scale and refuse what does not fit (`Stored`, `Patched`,
`Fits`). A ride is here what its price depends on. Start and End read a price
model in one statement (`StartReads`, `EndReads`) and write the ride in a later
one (`StartInserts`, `EndCloses`); anything may be edited in between. The
foreign key from rentals makes a racing DELETE wait, and refuses it afterwards
(`Referenced`), which is why a ride always finds its price model again.
`RidesPriced` compares `CalculateCost` with `IsFare`, a definition of a fare that
does not say how it is computed. `offered` (tariffs in force during a ride) and
`forced` (columns last written with `force`) are history variables.

### Fleet

The three tables are written by one statement per request. Bodies are read as
in `Fares`; the radius of a zone passes through an `int32` on its way to the
column (`ToColumns`), and the CHECK constraint refuses what came out negative.
Deleting a zone clears `zone_id` of its scooters (`Unzoned`). There are two kinds
of readers. `EndChecks` is the no-park check of a ride's end, which asks for
`ZonesAsked` zones and gets at most `MaxPageLimit` (the clamp of every list);
`EndCommits` or `EndFails` comes later, so that zones may change in between.
A walk is a client that reads a list page by page until the total is reached:
`ListCounts` and `ListReads` are the two statements of every repository's List.
The model takes `created_at` to be different for every row and rows to become
visible in that order; the status filter of the scooter list is left out, the
zone filter works the same way; the client advances by the limit it was given.
`unchecked`, `must`, `slipped` and `late` are history variables that say what a
reader could not have seen.

### Accounts

A login with Google is GetByOAuth, GetByEmail, and LinkOAuth or Create, each a
statement (`LookUpSubject`, `LookUpEmail`, `Link`, `Create`); the answer may be lost
after the write. The unique indexes and the `deleted` filter of the queries are
`ByOAuth`, `ByEmail` and `Insert`; `Lower` is the lower-casing of addresses. A
request about cards reads the account (`EnsureReads`), creates a customer if the
row had none (`CreateCustomer`), overwrites the column (`SetStripeCustomerID`) and
goes on with that customer. `owner`, `intents` and `attached` are what Stripe knows.
Two histories carry the excuses of the properties: `raced`, accounts that two
overlapping logins have both linked, and `doubled`, accounts that two overlapping
calls gave customers. google is the only provider and every account has the
role "user" (SetRole is called nowhere).

### Sessions

RequestPasswordReset is a read and two writes (`RequestReads`,
`InvalidateAllForUser`, `CreateToken`), ConfirmPasswordReset a read and two writes
(`ConfirmReads`, `ConfirmWrites`, `ConfirmMarks`); each may be the last step of its
request. A JWT is its user and its expiry; the middleware parses it, with
`Leeway`, and then asks Redis (`AuthParses`, `AuthChecks`); if Redis does not answer
the client is let in, as the code says it should. `Logout` parses once more and
writes a key that lives until the JWT's nominal expiry. Time passes between any
two steps (`Tick`). One clock is assumed for all processes, and that Redis keeps a
key until it expires. A password reset leaves JWTs alone (section 5). `spent`,
`crowded` and `out` are history variables.

### How the modules fit together


`Rentals` *uses* RideDebt (its `EndCommit`, `EndCharge`, `Settle` are Close,
Charge and Settle), `Payments` *provides* it (its whole protocol of rows,
replies, webhooks and approvals maps to the same three steps). Each is proved
to implement the contract, so each can be analysed without the other.

`RideLife` is what any reader of the table rentals may rely on. `Rentals`
implements it with rider and scooter as the terms and "free or priced" as the
bill, `Fares` with the price model and the start as the terms and the end and
the cost as the bill: the two models of one table make the same promise, each for
the columns it knows.

`Rentals` leaves open what a ride costs and whether the no-park check passes;
`Fares` and `Fleet` are about just that and keep of a ride only its start and its
end, cut at the same statements. `Notifications` takes from `Messaging` that
channels are attached and lost, at any time. `Accounts` and `Sessions` share the
table users but no column that both of them write; of the deletion of an account
each keeps what it reads.

## 3. The runs

| run | constants | states | shows |
|---|---|---|---|
| `rentals_admin` | 2 riders, 2 scooters, 2 rentals, 2 requests, administrators, faults | 2.2 M | exclusivity, single charge, truthful events, refinement of `RideLife` (closed stays closed) |
| `rentals_safety` | 2 riders, 2 scooters, 2 rentals, 3 requests, faults | 0.5 M | scooters held and explained, short waits and so no lock cycle, refinement of the market, debt contract |
| `rentals_live` | 1 rider, 1 scooter, 2 rentals, 2 requests, administrators, no faults | 195 k | every request returns |
| `payments` | 1 ride, 2 approvals, 2 keys, faults, fairness | 436 k | rows, verdicts, debts, contract, idempotent approvals, waiting rows are not forgotten, a decision to deliver reaches its row |
| `payments_webhook_reconciles` | 1 ride, no faults; violation | | a row stays pending after an acknowledged webhook |
| `messaging_client` | 1 exchange, 2 registrations, 4 connections, failures at any time, fairness | 26 k | registrations accounted for and attached, one connection, no working connection abandoned, panics only during Close, consumers re-attach, Close stops the loop |
| `messaging_loop_outlives` | violation | | the loop ends when a loss is not heard of |
| `notifications_worker` | 2 events, 2 types, 2 channels, prefetch 2, failures at any time, fairness | 19 k | no event lost or doubled, exactly one e-mail without faults, contract, accepted events are mailed |
| `fares_tariffs` | 2 price models, 1 ride, 3 ticks, 2 changes, amounts -1, 1, 5 | 147 k | a ride costs the fare of one tariff; bands left only by force; refinement of `RideLife` |
| `fleet_lists` | 2 zones, 2 scooters, 1 log, 1 ride, 3 writes, pages of one row | 1.2 M | walks see all; no-park zones are enforced |
| `accounts` | 2 accounts, 2 identities, 3 addresses (2 of them the same), 2 requests, 2 customers, 1 card | 5.9 M | identities and cards stay with their accounts |
| `sessions` | 1 account, 2 passwords, 1 JWT, 2 reset tokens, 2 requests, 4 ticks | 3.3 M | spent tokens rejected, one good token, logged-out JWTs stay out |

Two requests, riders, scooters and rentals are the smallest sizes at which all
pairs of handlers race over the same and over different rows; the invariants
speak of two rows or requests at most, and their proofs cover every size;
`rentals_safety` adds a third request to the two that race.
`RoomForRental` only bounds the number of rentals ever created. Two approvals
and two keys give a replayed, a racing and an unrelated approval; two rides
meet only in a key they share, and the proofs cover every number of them. An approval
is sent once and a ride ends once, so `Payments` ends when all have: its
configurations switch the deadlock check off. In `Rentals` it stays on.

Connection identities are used again once nothing refers to them, so
`Messaging` bounds how many are in use at once and not how often a connection is
lost; four suffice for the installed one, the one listened to, the one being
dialled and a spare. Two channels give a new goroutine beside a stale one and
a second consumer of the same queue; the two types are one the worker binds and
one it does not; e-mails are counted up to two. A process
that has been closed stops, and an event is published once, so the deadlock
check is off in both.

`Fares`: two changes are a tariff and an edit of it, which may come before the
ride, during it, or after its End has read the tariff (the theorem covers any
number of edits); a cent is two units and a minute two ticks, so that every case of rounding occurs; the columns are
narrow enough for a cost that does not fit. `Fleet`: with pages of one row a
second row already lies beyond the page; three writes are two rows and the
departure of one, at any statement of a reader; and a half range of 8 lets a
radius wrap. `Accounts`: two requests overlap in all ways their statements
allow; that more of them change nothing is proved. `Sessions`: two reset tokens
are the old and the new one, and four ticks outlast a JWT (2) with its leeway
(1). Clock, writes and tokens run out in `Fares`, `Fleet` and `Sessions`: their
deadlock check is off. In `Accounts` it is on.

Fairness. `Rentals`: a handler runs on until it returns, strongly fair because a
statement that waits for a row lock is queued and not passed over for ever;
the deadlock detector eventually acts. Nothing is assumed about riders or
administrators. `Payments`: a running call goes on, and a webhook that is delivered
again and again is eventually handled; nothing is assumed about Stripe's decisions
or the rider, who may leave an intent open.
`Messaging`: the goroutines run, and a broker that is dialled again and again
accepts a connection and a channel some time; nobody is made to close.
`Notifications`: registrations are made, and of several events none is passed
over for ever when deliveries, goroutines and the SMTP server get to it again
and again; the publisher owes nothing. The other four modules promise nothing
that must happen: their requests wait for nobody.

## 4. What is proved

All theorems hold for every number of riders, scooters, rentals, requests,
rides, approvals, keys, accounts and tokens, every tariff and every moment. The
assumptions are that null values are not elements of the sets they stand beside,
that switches are Boolean, and the ranges of the numeric constants (bands in
order, a page no larger than what End asks for, and so on); they are named in
the modules, and TLC evaluates them in the runs.

- `RentalsProofs`: `RideInv` is inductive whatever administrators do. The
  properties alone are not: `OneActiveRide` needs to know that an INSERT in
  progress conflicts with nothing (`InsertsOK`) and that two such INSERTs do not
  conflict with each other (`Exclusive`); `ChargedAtMostOnce` needs that a
  request past its commit is the only one for its rental and was not charged
  yet (`RequestsOK`); `RowsOK` keeps absent rows empty.
  `ClosedStaysClosed`, `KeepsContract` and `ImplementsRideLife` follow from
  `RideInv`.
  Without administrators' edits `MarketInv` is inductive relative to it: a
  scooter locked by a Start is still available, a pending release is unique and
  its scooter unridden. `WaitsAreShort` follows because a request that holds a
  scooter and waits for an index holds a scooter that is available, so that no
  End can be waiting for it; `NoLockCycle` and `SomeoneRuns` follow from
  `WaitsAreShort`. `ImplementsMarket` is proved step by step from the
  same invariant.
- `PaymentsProofs`: `PayInv` ties the position of a charge to the row, the
  intent and the intent's id (`CallsOK`), the newest row to the rows that exist
  (`NewestOK`), announced successes to the intent (`HooksOK`), and approvals to
  the rows they found or created (`RowsOK`, `ApprovalsOK`). Every safety
  property of the module and the refinement of `RideDebt` follow from it.
  `PendingIsExplained` needs in addition that a decided intent whose verdict the
  row does not have leaves a webhook to come or one acknowledged (`IntentsOK`).
- `MessagingProofs`: `MsgInv`. That one connection is open needs to know that
  the loop dials only when the installed one is dead (`DialsWhenDead`), and that
  needs what each position says about `watched`, `fresh` and `conn`
  (`Positions`), as does the account of registrations. That everything accepted is
  attached when the loop is back at its select adds which losses were noticed
  (`LossesNoticed`) and what the replay has done so far (`ReplayAttaches`).
- `NotificationsProofs`: `InOnePlace` is inductive; the contract adds what a
  verdict says about the e-mails (`VerdictsTrue`), and single e-mails add that
  an event that can still be sent has not been (`UnsentUnmailed`).
- `FaresProofs`: first the arithmetic, for every tariff and duration:
  `CalculateCost` computes a fare in the sense of `IsFare` (`CostIsFare`), is
  monotone in the duration (`CostMonotone`), stays below the cap (`CostCapped`,
  because the column keeps caps in whole cents), and inside the bands overflows
  no column before a number of minutes that the bands give (`InBandFits`). Then
  `IInv`: tariffs in the table, in calls and in `offered` are sound
  (`TariffsSound`), and an End under way holds a tariff offered to its ride
  (`CallsSound`), from which `RidesPriced` follows. `BandUnlessForced` is inductive
  by itself once a fee inside its band is known to round to one inside.
- `FleetProofs`: a checked ride knows every zone that forbids it, up to `unchecked`
  (`EndsSound`); what has matched all the time and has not been sent yet is at or
  behind the cursor (`WalkSound`), which is shown to survive every write, because
  a new row comes first and a row that leaves is either behind or noted in
  `slipped`. `ZonesResolve` is part of the invariant and a theorem of its own.
- `AccountsProofs`: `IdentityKept` needs that subjects are unique among live rows
  (`SubjectsUnique`), that a token went to the identity the row still has
  (`GrantsSound`), and that what was bound when a login began is still bound
  (`LoginsSound`); `CardsReachable` needs that a stored customer was created for
  its account (`CustomersSound`) and what each call knows (`CallsSound`).
- `SessionsProofs`: a spent token's row is used and no confirmation under way was
  late (`ResetsSound`); the key of a logged-out JWT lives as long as the JWT
  (`SessionsSound`). `OneGoodToken` rests on `FreshSound`: a request that inserts finds
  all tokens of an account that is not crowded used.

Each liveness property but `CloseStopsLoop` has a safety half that is proved. Of
`RequestsReturn`: a handler runs six statements at most, retries none, and nobody
else moves it (`HandlersAdvance`, whatever administrators and failures do), and
without administrators' edits some request is never blocked (`NeverStandsStill`);
what is left to fairness and to TLC is that a statement that can run is run. Of
`DecisionReachesRow`: a row that waits for its webhook keeps waiting until it has
its verdict or its intent is cancelled (`WaitsAreKept`). Of `Reattaches`: where the loop settles, everything is
attached (`SettledMeansAttached`). Of `EventuallyMailed`: an event stays in one place
until it is settled and is not settled unmailed (`OnePlace`, `KeepsItsContract`).

Some theorems say exactly when a promise with an excuse holds without one.
Without failures no scooter is lost to the market (`NothingIsLost`) and no End that
passed its checks is refused (`EndGoesThrough`); an End cannot fail on the column of
its cost if the tariff has a cap, or stays in the bands and the ride is not
absurdly long (`CostsFitColumn`); a row that is pending after its call has one of
four reasons (`PendingExplained`): the call was cut short, Stripe may still decide
or has a decision to deliver, a decision came before the row had the intent's id, or
the intent was cancelled. `EndsFit`, `PendingIsExplained`, `SomeoneRuns`,
`RequestsAdvance`, `RentedIsRidden`, `EndsGoThrough`, `NoLockCycle`, `ClosedStaysClosed`
and the types of all modules but `Rentals` are stated and proved and take no
place in a run; TLC finds no counterexample to them with the constants of the runs
(`RentedIsRidden` and `EndsGoThrough` with `Faults = FALSE`).

Only model-checked: the liveness properties `RequestsReturn`,
`DecisionReachesRow`, `Reattaches`, `CloseStopsLoop` and `EventuallyMailed`
(liveness and ENABLED are out of the prover's reach).
`ImplementsMarket`, `ActiveHoldsScooter`, `RentedIsExplained`, `WaitsAreShort`
(with `NoLockCycle` and `SomeoneRuns`), `RentedIsRidden` and `EndsGoThrough` hold,
and are checked and proved, for `AdminEdits = FALSE`: an administrator who sets a ridden scooter to 'available' breaks them at once, by design of that
operation.

## 5. Disagreements between comments and code

Two runs end in a violation, each of what a comment promises: the webhook that
"reconciles" a missed row, which needs no failure to be broken (the webhook comes
between Stripe's answer and AttachIntent), and the reconnect goroutine that ends when a
loss goes unheard. Other promises are checked and proved with an excuse, a history
variable or a condition that says where the code keeps less than the comment says;
`findings` in `PROJECT.json` quotes each of them:

- `orphaned`: a scooter whose AdminCancel failed between its two transactions;
- `forgotten`: a consumer whose re-registration failed during a replay;
- `unchecked`: a no-park zone hidden by a hundred newer zones;
- `raced`: an account that two overlapping first logins have linked;
- `crowded`: an account with overlapping requests for a password reset, each of
  which leaves its token good;
- the cancellation of an intent: its webhook is answered with 200 and ignored, so
  that a row that waited for it stays 'pending' (`PendingNotForgotten` and
  `PendingIsExplained` name it);
- `PartlyApproved`: a ride whose latest payment row is an offline approval of less
  than its price counts as paid. With this exception HasUnpaidRentals misses no debt
  (`NoDebtMissed`); the other direction does not hold, it may report a ride that is
  settled.

Two more comments describe what no code does: nothing reads `last_logout_at`, so a
password reset ends no session, and a webhook whose statements fail is answered
with 500 (which Stripe's redelivery, and `DecisionReachesRow`, rely on).

Three behaviours of the models are worth knowing though no run is spent on
them: a Start that read the balance before the rider's other ride ended opens a
ride on a debt; a Consume that opened its channel on the old connection appends
itself after the replay has copied the list, and is listed but attached to
nothing; a connection dialled while Close runs is installed after it and stays
open. `rental.started` has no binding, so such events go nowhere.

## 6. Not modelled

- HTTP rendering and the parsing of bodies no property depends on, generated code
  as far as it moves values between Go and SQL, the pool and the migrations
  runner, templates, wiring and configuration: no state of their own.
- The haversine formula: floating-point trigonometry. `Distance` stands for it.
- Reads that change nothing and that no later write uses: Nearby, the single
  reads, the lists of payments and webhook events.
- A channel that RabbitMQ closes while its connection stays open: watchReconnect
  listens to the connection alone, the goroutine of the consumer ends with its
  deliveries, and nothing attaches it again. `Messaging` and `Notifications` lose
  channels only with their connection, and `Reattaches` and `EventuallyMailed` say
  nothing about such a loss.
- What several offline approvals of one ride add up to: an approval covers the price
  or it does not.
- Data no property looks at: names, phone numbers, QR codes, batteries,
  descriptions, currencies, the wording of e-mails.
- The half coordinate an update of a scooter may send (latitude without
  longitude): positions of scooters decide nothing in the other parts.

A next step would be a module that composes `Messaging` and `Notifications` over
shared channels, so that the liveness of e-mails rests on the client's own
instead of on `Steady`.
