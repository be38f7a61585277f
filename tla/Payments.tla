------------------------------ MODULE Payments ------------------------------
(***************************************************************************)
(* How a finished ride is paid: payments.Service.ChargeRental, the Stripe  *)
(* payment intent it creates, Stripe's webhooks, the administrator's       *)
(* offline approvals, and the query HasUnpaidRentals that reads them all.  *)
(*                                                                         *)
(* rentals.Service.End calls ChargeRental at most once for a ride (theorem *)
(* ChargedOnce of RentalsProofs), and Stripe gets the rental id as its     *)
(* idempotency key: a ride has at most one card row and one intent, so     *)
(* both are indexed by the ride.  Every statement commits on its own, so   *)
(* one action is one statement or one call of Stripe, with the events      *)
(* published right after it.                                               *)
(***************************************************************************)
EXTENDS Naturals, FiniteSets

CONSTANTS Rides,      \* rentals
          Approvals,  \* offline-approval requests (bound: each sent once)
          Keys,       \* idempotency keys administrators send
          NoKey,      \* the empty key: no request names one
          None,       \* no ride, no approval
          Faults      \* may statements fail, processes die, replies be lost?

ASSUME NoKeyAssumption == NoKey \notin Keys
ASSUME NoneAssumption == None \notin Rides \cup Approvals
ASSUME FaultsAssumption == Faults \in BOOLEAN

VARIABLES cost,      \* "open" until the ride ends, then "free" or "due"
          pc,        \* position of the ride's ChargeRental call
          reply,     \* intent status in the reply that call got from Stripe
          card,      \* status of the ride's card row in table payments
          attached,  \* rides whose card row carries the intent's id
          newest,    \* which kind of row has the latest transaction_date
          intent,    \* status of the payment intent, at Stripe
          hooks,     \* webhook deliveries Stripe still has to make
          acked,     \* webhook deliveries Stripe got a 200 for
          received,  \* table webhook_events
          told,      \* payment.succeeded / payment.failed events published
          appr,      \* the offline-approval requests and their locals
          byHand,    \* offline rows of table payments
          toldByHand \* approvals whose payment.offline_approved was published

rideVars == <<cost, pc, reply, card, attached>>
stripeVars == <<intent, hooks, acked, received>>
handVars == <<appr, byHand, toldByHand>>
vars == <<rideVars, newest, stripeVars, told, handVars>>

-----------------------------------------------------------------------------
PCs      == {"riding", "insert", "resolve", "call", "attach", "fail", "done"}
Statuses == {"absent", "pending", "succeeded", "failed"}
Terminal == {"succeeded", "failed"}

\* Stripe's statuses, as far as mapIntentStatus tells them apart: "open" is
\* requires_action, requires_confirmation or processing, "failed" is
\* requires_payment_method, after which the rider may confirm again.
Intents  == {"none", "open", "succeeded", "failed", "canceled"}

\* The events payment_intent.succeeded, .payment_failed and .canceled.  Others
\* tell of no outcome; the handler ignores them like the last of these.
Outcomes == Terminal \cup {"canceled"}
Hooks    == Rides \X Outcomes

\* An approved amount is the price of the ride or more, or less than it (bound:
\* what several smaller amounts add up to is not followed).
OfflineRow == [key: Keys \cup {NoKey}, ride: Rides, by: Approvals,
               full: BOOLEAN]
Approval   == [pc: {"new", "lookup", "check", "insert", "done"},
               ride: Rides \cup {None}, key: Keys \cup {NoKey},
               full: BOOLEAN, got: Approvals \cup {None}]

\* Mutant: an open intent counts as paid.
Mapped_Optimistic(status) ==
  CASE status = "open"     -> "succeeded"
    [] status = "canceled" -> "failed"
    [] OTHER               -> status

\* mapIntentStatus
Mapped(status) ==
  CASE status = "open"     -> "pending"
    [] status = "canceled" -> "failed"
    [] OTHER               -> status

\* The event is published at best once; a failed publish is only logged.
Tell(r, verdict) == told' \in {told, [told EXCEPT ![r][verdict] = @ + 1]}

OfflineRows(r) == {row \in byHand : row.ride = r}

\* Mutant: the join drops rides without a payment row.
Unpaid_InnerJoin(r) == newest[r] = "card" /\ card[r] \in {"pending", "failed"}

\* HasUnpaidRentals for one ride: the latest payment row decides, a ride
\* without any is unpaid if it cost something.
Unpaid(r) ==
  CASE newest[r] = "none"    -> cost[r] = "due"
    [] newest[r] = "card"    -> card[r] \in {"pending", "failed"}
    [] newest[r] = "offline" -> FALSE

-----------------------------------------------------------------------------
(* The ride ends and ChargeRental runs. *)

\* End commits the cost and calls ChargeRental, unless the user row cannot be
\* loaded or the process dies first.
Close(r) ==
  /\ cost[r] = "open"
  /\ \E c \in {"free", "due"} : cost' = [cost EXCEPT ![r] = c]
  /\ \E p \in {"insert", "done"} : pc' = [pc EXCEPT ![r] = p]
  /\ UNCHANGED <<reply, card, attached, newest, stripeVars, told, handVars>>

\* A ride without cost gets a 'succeeded' row at once.
ChargeFree(r) ==
  /\ pc[r] = "insert"
  /\ cost[r] = "free"
  /\ card' = [card EXCEPT ![r] = "succeeded"]
  /\ newest' = [newest EXCEPT ![r] = "card"]
  /\ Tell(r, "succeeded")
  /\ pc' = [pc EXCEPT ![r] = "done"]
  /\ UNCHANGED <<cost, reply, attached, stripeVars, handVars>>

\* Mutant: the row is left to AttachIntent.
InsertPending_Skipped(r) ==
  /\ pc[r] = "insert"
  /\ cost[r] = "due"
  /\ pc' = [pc EXCEPT ![r] = "resolve"]
  /\ UNCHANGED <<cost, reply, card, attached, newest, stripeVars, told, handVars>>

\* The pending row comes first.
InsertPending(r) ==
  /\ pc[r] = "insert"
  /\ cost[r] = "due"
  /\ card' = [card EXCEPT ![r] = "pending"]
  /\ newest' = [newest EXCEPT ![r] = "card"]
  /\ pc' = [pc EXCEPT ![r] = "resolve"]
  /\ UNCHANGED <<cost, reply, attached, stripeVars, told, handVars>>

\* No customer, no card or a failed lookup of them fails the row.
ResolveCard(r) ==
  /\ pc[r] = "resolve"
  /\ \E p \in {"call", "fail"} : pc' = [pc EXCEPT ![r] = p]
  /\ UNCHANGED <<cost, reply, card, attached, newest, stripeVars, told, handVars>>

\* CreateAndConfirmPaymentIntent.  A decline comes back as a result with the
\* status of the intent; any other error, even one after Stripe has taken the
\* money, leaves the service without an intent id.
CallStripe(r) ==
  /\ pc[r] = "call"
  /\ \E status \in Intents :
       /\ intent' = [intent EXCEPT ![r] = status]
       /\ hooks' = hooks \cup ({<<r, status>>} \cap Hooks)
       /\ \/ /\ status # "none"
             /\ reply' = [reply EXCEPT ![r] = status]
             /\ pc' = [pc EXCEPT ![r] = "attach"]
          \/ /\ Faults
             /\ pc' = [pc EXCEPT ![r] = "fail"]
             /\ UNCHANGED reply
  /\ UNCHANGED <<cost, card, attached, newest, acked, received, told, handVars>>

\* AttachIntent by payment id, whatever the row's status; an event follows if
\* the intent was already resolved in the reply.
AttachIntent(r) ==
  /\ pc[r] = "attach"
  /\ card' = [card EXCEPT ![r] = Mapped(reply[r])]
  /\ attached' = attached \cup {r}
  /\ IF Mapped(reply[r]) \in Terminal
       THEN Tell(r, Mapped(reply[r]))
       ELSE UNCHANGED told
  /\ pc' = [pc EXCEPT ![r] = "done"]
  /\ UNCHANGED <<cost, reply, newest, stripeVars, handVars>>

\* failPaymentRow
FailRow(r) ==
  /\ pc[r] = "fail"
  /\ card' = [card EXCEPT ![r] = "failed"]
  /\ Tell(r, "failed")
  /\ pc' = [pc EXCEPT ![r] = "done"]
  /\ UNCHANGED <<cost, reply, attached, newest, stripeVars, handVars>>

\* A statement fails, the context is cancelled or the process dies: nothing
\* takes the call up again.
CrashCharge(r) ==
  /\ Faults
  /\ pc[r] \notin {"riding", "done"}
  /\ pc' = [pc EXCEPT ![r] = "done"]
  /\ UNCHANGED <<cost, reply, card, attached, newest, stripeVars, told, handVars>>

-----------------------------------------------------------------------------
(* Stripe and its webhooks. *)

\* An open intent is decided later, or never.  A failed one can be confirmed
\* again with the client secret that End returned, and then succeeds or fails
\* like the first time; Stripe or an administrator there may cancel either.
StripeSettles(r, outcome) ==
  /\ intent[r] \in {"open", "failed"}
  /\ intent' = [intent EXCEPT ![r] = outcome]
  /\ hooks' = hooks \cup {<<r, outcome>>}
  /\ UNCHANGED <<rideVars, newest, acked, received, told, handVars>>

\* Mutants: the status is not looked at; the row is found by the payment_id
\* in the intent's metadata.
Matches_AnyStatus(r) == r \in attached
Matches_ByMetadata(r) == card[r] = "pending"

\* MarkPaymentSucceeded / MarkPaymentFailed: only a pending row that carries
\* the intent's id is found.
Matches(r) == r \in attached /\ card[r] = "pending"

\* The default branch of HandleWebhookEvent ignores every other type of event.
Handled(outcome) == outcome \in Terminal

\* Mutant: an event that is in webhook_events already is not looked at again.
Webhook_SkipsDuplicates(r, outcome) ==
  /\ <<r, outcome>> \in hooks
  /\ received' = received \cup {<<r, outcome>>}
  /\ IF Handled(outcome) /\ Matches(r) /\ <<r, outcome>> \notin received
       THEN card' = [card EXCEPT ![r] = outcome] /\ Tell(r, outcome)
       ELSE UNCHANGED <<card, told>>
  /\ \/ /\ hooks' = hooks \ {<<r, outcome>>}
        /\ acked' = acked \cup {<<r, outcome>>}
     \/ Faults /\ UNCHANGED <<hooks, acked>>
  /\ UNCHANGED <<cost, pc, reply, attached, newest, intent, handVars>>

\* HandleWebhookEvent runs through and answers 200, whether or not the event is
\* one it handles and a row matched.  Stripe may miss the answer and deliver
\* again.
Webhook(r, outcome) ==
  /\ <<r, outcome>> \in hooks
  /\ received' = received \cup {<<r, outcome>>}
  /\ IF Handled(outcome) /\ Matches(r)
       THEN card' = [card EXCEPT ![r] = outcome] /\ Tell(r, outcome)
       ELSE UNCHANGED <<card, told>>
  /\ \/ /\ hooks' = hooks \ {<<r, outcome>>}
        /\ acked' = acked \cup {<<r, outcome>>}
     \/ Faults /\ UNCHANGED <<hooks, acked>>
  /\ UNCHANGED <<cost, pc, reply, attached, newest, intent, handVars>>

\* Mutant: the handler answers 200 although a statement failed.
WebhookFails_Acks(r, outcome) ==
  /\ Faults
  /\ <<r, outcome>> \in hooks
  /\ hooks' = hooks \ {<<r, outcome>>}
  /\ acked' = acked \cup {<<r, outcome>>}
  /\ UNCHANGED <<rideVars, newest, intent, received, told, handVars>>

\* A statement of the handler fails: Stripe sees an error and will redeliver.
WebhookFails(r, outcome) ==
  /\ Faults
  /\ <<r, outcome>> \in hooks
  /\ received' \in {received, received \cup {<<r, outcome>>}}
  /\ UNCHANGED <<rideVars, newest, intent, hooks, acked, told, handVars>>

-----------------------------------------------------------------------------
(* ApproveOffline *)

RowsFor(k) == {row \in byHand : k # NoKey /\ row.key = k}

\* The request ends and hands out the row of approval x (or no row).
Answer(a, x) == appr' = [appr EXCEPT ![a].pc = "done", ![a].got = x]

\* The handler insists on an idempotency key, the service on an amount above
\* zero; nothing compares the amount with the price of the ride.
SendApproval(a, r, k, full) ==
  /\ appr[a].pc = "new"
  /\ appr' = [appr EXCEPT ![a] = [pc |-> "lookup", ride |-> r, key |-> k,
                                  full |-> full, got |-> None]]
  /\ UNCHANGED <<rideVars, newest, stripeVars, told, byHand, toldByHand>>

\* Step 1, the idempotency replay: GetByIdempotencyKey.
ApproveLookup(a) ==
  /\ appr[a].pc = "lookup"
  /\ IF RowsFor(appr[a].key) = {}
       THEN appr' = [appr EXCEPT ![a].pc = "check"]
       ELSE \E row \in RowsFor(appr[a].key) : Answer(a, row.by)
  /\ UNCHANGED <<rideVars, newest, stripeVars, told, byHand, toldByHand>>

\* Step 2: the rental must be completed.
ApproveCheck(a) ==
  /\ appr[a].pc = "check"
  /\ IF cost[appr[a].ride] = "open"
       THEN Answer(a, None)
       ELSE appr' = [appr EXCEPT ![a].pc = "insert"]
  /\ UNCHANGED <<rideVars, newest, stripeVars, told, byHand, toldByHand>>

\* Mutant: only the lookup of step 1 guards against a second row.
ApproveInsert_NoConflictClause(a) ==
  /\ appr[a].pc = "insert"
  /\ byHand' = byHand \cup
       {[key |-> appr[a].key, ride |-> appr[a].ride, by |-> a,
         full |-> appr[a].full]}
  /\ newest' = [newest EXCEPT ![appr[a].ride] = "offline"]
  /\ toldByHand' \in {toldByHand, toldByHand \cup {a}}
  /\ Answer(a, a)
  /\ UNCHANGED <<rideVars, stripeVars, told>>

\* Step 3, CreateOffline: ON CONFLICT (idempotency_key) the existing row wins
\* and nothing is published; step 4 publishes for a new row.
ApproveInsert(a) ==
  LET key == appr[a].key IN
  /\ appr[a].pc = "insert"
  /\ IF RowsFor(key) = {}
       THEN /\ byHand' = byHand \cup
                 {[key |-> key, ride |-> appr[a].ride, by |-> a,
                   full |-> appr[a].full]}
            /\ newest' = [newest EXCEPT ![appr[a].ride] = "offline"]
            /\ toldByHand' \in {toldByHand, toldByHand \cup {a}}
            /\ Answer(a, a)
       ELSE /\ \E row \in RowsFor(key) : Answer(a, row.by)
            /\ UNCHANGED <<byHand, newest, toldByHand>>
  /\ UNCHANGED <<rideVars, stripeVars, told>>

CrashApproval(a) ==
  /\ Faults
  /\ appr[a].pc \in {"lookup", "check", "insert"}
  /\ Answer(a, None)
  /\ UNCHANGED <<rideVars, newest, stripeVars, told, byHand, toldByHand>>

-----------------------------------------------------------------------------
Init ==
  /\ cost = [r \in Rides |-> "open"]
  /\ pc = [r \in Rides |-> "riding"]
  /\ reply = [r \in Rides |-> "none"]
  /\ card = [r \in Rides |-> "absent"]
  /\ attached = {}
  /\ newest = [r \in Rides |-> "none"]
  /\ intent = [r \in Rides |-> "none"]
  /\ hooks = {} /\ acked = {} /\ received = {}
  /\ told = [r \in Rides |-> [v \in Terminal |-> 0]]
  /\ appr = [a \in Approvals |-> [pc |-> "new", ride |-> None, key |-> NoKey,
                                  full |-> FALSE, got |-> None]]
  /\ byHand = {} /\ toldByHand = {}

ChargeStep(r) ==
  \/ ChargeFree(r) \/ InsertPending(r) \/ ResolveCard(r)
  \/ CallStripe(r) \/ AttachIntent(r)  \/ FailRow(r)

ApproveStep(a) == ApproveLookup(a) \/ ApproveCheck(a) \/ ApproveInsert(a)

Next ==
  \/ \E r \in Rides : Close(r) \/ ChargeStep(r) \/ CrashCharge(r)
  \/ \E r \in Rides, o \in Outcomes :
       StripeSettles(r, o) \/ Webhook(r, o) \/ WebhookFails(r, o)
  \/ \E a \in Approvals :
       \/ \E r \in Rides, k \in Keys, full \in BOOLEAN :
            SendApproval(a, r, k, full)
       \/ ApproveStep(a)
       \/ CrashApproval(a)

Spec == Init /\ [][Next]_vars

\* A running call goes on, and a webhook that is delivered again and again gets
\* through in the end.  Stripe and the rider owe nothing: an intent may stay
\* open for ever.
Fairness ==
  /\ \A r \in Rides : WF_vars(ChargeStep(r))
  /\ \A r \in Rides, o \in Outcomes : WF_vars(Webhook(r, o))
FairSpec == Spec /\ Fairness

-----------------------------------------------------------------------------
(* Properties *)

TypeOK ==
  /\ cost \in [Rides -> {"open", "free", "due"}]
  /\ pc \in [Rides -> PCs]
  /\ reply \in [Rides -> Intents]
  /\ card \in [Rides -> Statuses]
  /\ attached \subseteq Rides
  /\ newest \in [Rides -> {"none", "card", "offline"}]
  /\ intent \in [Rides -> Intents]
  /\ hooks \subseteq Hooks
  /\ acked \subseteq Hooks
  /\ received \subseteq Hooks
  /\ told \in [Rides -> [Terminal -> Nat]]
  /\ appr \in [Approvals -> Approval]
  /\ byHand \subseteq OfflineRow
  /\ toldByHand \subseteq Approvals

\* "a row always exists before money can move": no intent, let alone a paid
\* one, without a card row, even when the call dies half way.
MoneyHasRow == \A r \in Rides : intent[r] # "none" => card[r] # "absent"

\* A card row of a ride with a cost says 'succeeded' only if Stripe has the
\* money, whichever of the reply and the webhooks wrote it.
SucceededMeansPaid ==
  \A r \in Rides : (card[r] = "succeeded" /\ cost[r] = "due") =>
                     intent[r] = "succeeded"

\* The rider is told one verdict about a ride at most, once, and the one the
\* row has, although webhooks are delivered twice, late and out of order.
OneVerdict ==
  \A r \in Rides :
    \A v \in Terminal : told[r][v] <= 1 /\ (told[r][v] > 0 => card[r] = v)

\* A row that was resolved keeps its verdict: neither AttachIntent and
\* failPaymentRow, which do not look at the status, nor a redelivered webhook
\* ever overwrites it.
VerdictStays ==
  [][\A r \in Rides : card[r] \in Terminal => card'[r] = card[r]]_vars

\* Nothing is owed for the ride: it cost nothing, Stripe has the price, or an
\* administrator took it.
Settled(r) == \/ cost[r] = "free"
              \/ intent[r] = "succeeded"
              \/ \E row \in OfflineRows(r) : row.full

\* The latest row is an offline one, and one was approved for less than the
\* price: ApproveOffline writes it as 'succeeded' whatever the amount.
PartlyApproved(r) ==
  newest[r] = "offline" /\ \E row \in OfflineRows(r) : ~row.full

\* HasUnpaidRentals misses no debt, whatever the calls that write the rows of a
\* ride leave undone and in whatever order they run: a ride it does not report
\* is settled, except one whose latest word is an administrator's approval of
\* less than it cost.
NoDebtMissed ==
  \A r \in Rides :
    (cost[r] # "open" /\ ~Unpaid(r)) => Settled(r) \/ PartlyApproved(r)

\* "a repeat call with the same key returns the existing row instead of
\* inserting a duplicate", also for concurrent calls: one row for a key, every
\* successful call returns that row, and only its creator publishes.
KeyIsIdempotent ==
  \A a, b \in Approvals :
    (appr[a].key = appr[b].key /\ appr[a].key # NoKey) =>
      /\ (appr[a].got # None /\ appr[b].got # None) => appr[a].got = appr[b].got
      /\ (a \in toldByHand /\ b \in toldByHand) => a = b

\* A pending row that carries its intent's id and may still hear of a verdict:
\* Stripe has not decided, or has a webhook with its decision to deliver.
Waiting(r) == /\ r \in attached /\ card[r] = "pending"
              /\ \/ intent[r] = "open"
                 \/ \E v \in Terminal : <<r, v>> \in hooks

\* "pending/processing rows wait for the webhook": however often a webhook
\* fails, is redelivered or comes in the wrong order, the wait of a row ends
\* with a verdict, or when its intent is cancelled, of which the handler would
\* hear and takes no notice.
PendingNotForgotten ==
  [][\A r \in Rides : Waiting(r) =>
       \/ Waiting(r)' \/ card'[r] \in Terminal
       \/ intent[r] = "open" /\ intent'[r] = "canceled"]_vars

\* Why a row is pending after its call: a fault cut the call short before the
\* row got the intent's id, the row still waits, Stripe was told 200 for a
\* decision that came before the id did, or the intent was cancelled and the
\* event about it is or will be ignored.
PendingIsExplained ==
  \A r \in Rides : (card[r] = "pending" /\ pc[r] = "done") =>
    \/ Faults /\ r \notin attached
    \/ Waiting(r)
    \/ \E v \in Terminal : <<r, v>> \in acked
    \/ intent[r] = "canceled"

(* The inductive invariant behind the safety properties. *)

\* What a ride's rows and its intent are at each position of its charge.
CallsOK ==
  \A r \in Rides :
    /\ cost[r] = "open" <=> pc[r] = "riding"
    /\ cost[r] = "open" => newest[r] = "none"
    /\ pc[r] \in {"riding", "insert"} => card[r] = "absent"
    /\ pc[r] \in {"riding", "insert", "resolve", "call"} => intent[r] = "none"
    /\ pc[r] \in {"resolve", "call", "attach", "fail"} =>
         card[r] = "pending" /\ cost[r] = "due"
    /\ pc[r] # "done" => r \notin attached
    /\ pc[r] = "attach" =>
         reply[r] # "none" /\ (reply[r] = "succeeded" => intent[r] = "succeeded")
    /\ cost[r] # "due" => intent[r] = "none" /\ card[r] \in {"absent", "succeeded"}

\* The latest row of a ride is a row it has.
NewestOK ==
  \A r \in Rides :
    /\ newest[r] = "none" => card[r] = "absent"
    /\ newest[r] = "card" => card[r] # "absent"
    /\ newest[r] = "offline" => OfflineRows(r) # {}

\* A success that Stripe announces has happened and is final.
HooksOK == \A r \in Rides : <<r, "succeeded">> \in hooks => intent[r] = "succeeded"

\* Offline rows and the approvals that created or found them.
RowsOK ==
  /\ \A row \in byHand : appr[row.by].pc = "done" /\ appr[row.by].key = row.key
  /\ \A row1, row2 \in byHand :
       (row1.key = row2.key /\ row1.key # NoKey) => row1 = row2

ApprovalsOK ==
  \A a \in Approvals :
    /\ appr[a].pc = "insert" =>
         appr[a].ride \in Rides /\ cost[appr[a].ride] # "open"
    /\ appr[a].pc # "new" => appr[a].ride \in Rides
    /\ appr[a].pc # "done" => appr[a].got = None
    /\ appr[a].got # None =>
         \E row \in byHand : row.by = appr[a].got /\ row.key = appr[a].key
    /\ a \in toldByHand => \E row \in byHand : row.by = a

PayInv ==
  /\ TypeOK
  /\ CallsOK
  /\ NewestOK
  /\ HooksOK
  /\ RowsOK
  /\ ApprovalsOK
  /\ MoneyHasRow
  /\ SucceededMeansPaid
  /\ OneVerdict

\* What becomes of an intent: an attached one exists, a decided one was or will
\* be announced, and only a fault leaves a pending row without one.
IntentsOK ==
  \A r \in Rides :
    /\ (pc[r] = "attach" \/ r \in attached) => intent[r] # "none"
    /\ intent[r] \in Terminal => \E v \in Terminal : <<r, v>> \in hooks \cup acked
    /\ (card[r] = "pending" /\ pc[r] = "done" /\ r \notin attached) => Faults

-----------------------------------------------------------------------------
\* The debt of a ride as the rental service sees it.
debtOf == [r \in Rides |-> IF cost[r] = "open" THEN "open"
                           ELSE IF cost[r] = "free" THEN "none"
                           ELSE IF Unpaid(r) THEN "owed" ELSE "settled"]
wasCharged == [r \in Rides |-> pc[r] \notin {"riding", "insert"}]

Contract == INSTANCE RideDebt WITH debt <- debtOf, charged <- wasCharged

\* Payments keeps the contract Rentals builds on: after the charge has been
\* attempted a debt can only disappear, whatever order replies, webhooks and
\* approvals come in.
KeepsContract == Contract!Spec

\* "Skipping duplicates entirely would silently lose a redrive after a partial
\* failure": a decision that Stripe still has to deliver reaches the row that
\* waits for it, although the handler may fail between its statements and every
\* redelivery finds the event recorded already.
DecisionReachesRow ==
  \A r \in Rides :
    (r \in attached /\ \E v \in Terminal : <<r, v>> \in hooks)
      ~> card[r] \in Terminal

\* The promise of HandleWebhookEvent's comment, that a webhook "either no-ops
\* (already terminal) or reconciles a row that the API path missed (e.g.
\* attach_intent crashed before committing)": once the call is over, a row is
\* not left pending by an acknowledged webhook.
WebhookReconciles ==
  \A r \in Rides :
    (pc[r] = "done" /\ card[r] = "pending") =>
      \A v \in Terminal : <<r, v>> \notin acked
=============================================================================
