--------------------------- MODULE PaymentsProofs ---------------------------
(***************************************************************************)
(* Proofs about Payments, for any sets of rides, requests and keys, with   *)
(* or without failures.                                                    *)
(***************************************************************************)
EXTENDS Payments, TLAPS

\* What a published verdict does to the counts.
LEMMA TellStep ==
  ASSUME NEW r \in Rides, NEW v \in Terminal, Tell(r, v),
         told \in [Rides -> [Terminal -> Nat]]
  PROVE  /\ told' \in [Rides -> [Terminal -> Nat]]
         /\ \A x \in Rides, w \in Terminal :
              told'[x][w] # told[x][w] =>
                x = r /\ w = v /\ told'[x][w] = told[x][w] + 1
  BY DEF Tell

LEMMA TypeInit == Init => TypeOK
  BY DEF Init, TypeOK, PCs, Intents, Statuses, Approval

LEMMA AnswerType ==
  ASSUME TypeOK, NEW a \in Approvals, NEW x \in Approvals \cup {None},
         Answer(a, x)
  PROVE  appr' \in [Approvals -> Approval]
  BY DEF TypeOK, Answer, Approval

LEMMA TypeStep == PayInv /\ [Next]_vars => TypeOK'
<1> SUFFICES ASSUME PayInv, [Next]_vars PROVE TypeOK'
  OBVIOUS
<1> TypeOK /\ CallsOK /\ ApprovalsOK
  BY DEF PayInv
<1>1. ASSUME NEW r \in Rides, Close(r) PROVE TypeOK'
  BY <1>1 DEF TypeOK, Close, PCs, stripeVars, handVars
<1>2. ASSUME NEW r \in Rides, ChargeFree(r) PROVE TypeOK'
  BY <1>2, TellStep DEF TypeOK, ChargeFree, PCs, Statuses, Terminal, stripeVars,
                        handVars
<1>3. ASSUME NEW r \in Rides, InsertPending(r) \/ ResolveCard(r) PROVE TypeOK'
  BY <1>3 DEF TypeOK, InsertPending, ResolveCard, PCs, Statuses, stripeVars,
              handVars
<1>4. ASSUME NEW r \in Rides, CallStripe(r) PROVE TypeOK'
  BY <1>4 DEF TypeOK, CallStripe, PCs, Intents, stripeVars, handVars
<1>5. ASSUME NEW r \in Rides, AttachIntent(r) PROVE TypeOK'
  <2>1. told' \in [Rides -> [Terminal -> Nat]]
    BY <1>5, TellStep DEF AttachIntent, TypeOK
  <2>2. Mapped(reply[r]) \in Statuses
    BY <1>5 DEF Mapped, TypeOK, Intents, Statuses, AttachIntent, CallsOK
  <2>3. QED
    BY <1>5, <2>1, <2>2 DEF TypeOK, AttachIntent, PCs, Statuses, stripeVars,
                            handVars
<1>6. ASSUME NEW r \in Rides, FailRow(r) PROVE TypeOK'
  BY <1>6, TellStep DEF TypeOK, FailRow, PCs, Statuses, Terminal, stripeVars,
                        handVars
<1>7. ASSUME NEW r \in Rides, CrashCharge(r) PROVE TypeOK'
  BY <1>7 DEF TypeOK, CrashCharge, PCs, stripeVars, handVars
<1>8. ASSUME NEW r \in Rides, NEW o \in Outcomes, StripeSettles(r, o)
      PROVE  TypeOK'
  BY <1>8 DEF TypeOK, StripeSettles, Intents, Outcomes, Terminal, Hooks, rideVars, handVars
<1>9. ASSUME NEW r \in Rides, NEW o \in Outcomes, Webhook(r, o)
      PROVE  TypeOK'
  <2>1. /\ told' \in [Rides -> [Terminal -> Nat]]
        /\ card' \in [Rides -> Statuses]
    BY <1>9, TellStep DEF Webhook, Handled, TypeOK, Statuses, Terminal
  <2> QED
    BY <1>9, <2>1 DEF TypeOK, Webhook, Hooks, handVars
<1>10. ASSUME NEW r \in Rides, NEW o \in Outcomes, WebhookFails(r, o)
       PROVE  TypeOK'
  BY <1>10 DEF TypeOK, WebhookFails, Hooks, rideVars, handVars
<1>11. ASSUME NEW a \in Approvals, NEW r \in Rides, NEW k \in Keys,
              NEW full \in BOOLEAN, SendApproval(a, r, k, full)
       PROVE  TypeOK'
  BY <1>11 DEF TypeOK, SendApproval, Approval, rideVars, stripeVars
<1>12. ASSUME NEW a \in Approvals, ApproveLookup(a) PROVE TypeOK'
  <2>1. appr' \in [Approvals -> Approval]
    <3>1. CASE appr' = [appr EXCEPT ![a].pc = "check"]
      BY <3>1 DEF TypeOK, Approval
    <3>2. ASSUME NEW row \in RowsFor(appr[a].key), Answer(a, row.by)
          PROVE  appr' \in [Approvals -> Approval]
      BY <3>2, AnswerType DEF RowsFor, TypeOK, OfflineRow
    <3> QED
      BY <1>12, <3>1, <3>2 DEF ApproveLookup
  <2> QED
    BY <1>12, <2>1 DEF TypeOK, ApproveLookup, rideVars, stripeVars
<1>13. ASSUME NEW a \in Approvals, ApproveCheck(a) \/ CrashApproval(a)
       PROVE  TypeOK'
  <2>1. appr' \in [Approvals -> Approval]
    <3>1. CASE appr' = [appr EXCEPT ![a].pc = "insert"]
      BY <3>1 DEF TypeOK, Approval
    <3> QED
      BY <1>13, <3>1, AnswerType DEF ApproveCheck, CrashApproval
  <2> QED
    BY <1>13, <2>1 DEF TypeOK, ApproveCheck, CrashApproval, rideVars, stripeVars
<1>14. ASSUME NEW a \in Approvals, ApproveInsert(a) PROVE TypeOK'
  <2>1. appr' \in [Approvals -> Approval]
    <3>1. ASSUME NEW row \in RowsFor(appr[a].key), Answer(a, row.by)
          PROVE  appr' \in [Approvals -> Approval]
      BY <3>1, AnswerType DEF RowsFor, TypeOK, OfflineRow
    <3> QED
      BY <1>14, <3>1, AnswerType DEF ApproveInsert
  <2>2. CASE RowsFor(appr[a].key) = {}
    <3>1. appr[a].ride \in Rides
      BY <1>14 DEF ApproveInsert, ApprovalsOK
    <3>2. [key |-> appr[a].key, ride |-> appr[a].ride, by |-> a,
           full |-> appr[a].full] \in OfflineRow
      BY <3>1 DEF TypeOK, Approval, OfflineRow
    <3>3. byHand' \subseteq OfflineRow
      BY <1>14, <2>2, <3>2 DEF TypeOK, ApproveInsert
    <3>4. /\ newest' \in [Rides -> {"none", "card", "offline"}]
          /\ toldByHand' \subseteq Approvals
      BY <1>14, <2>2, <3>1 DEF TypeOK, ApproveInsert
    <3> QED
      BY <1>14, <2>1, <3>3, <3>4 DEF TypeOK, ApproveInsert, rideVars, stripeVars
  <2>3. CASE RowsFor(appr[a].key) # {}
    BY <1>14, <2>1, <2>3 DEF TypeOK, ApproveInsert, rideVars, stripeVars
  <2> QED
    BY <2>2, <2>3
<1>15. CASE UNCHANGED vars
  BY <1>15 DEF TypeOK, vars, rideVars, stripeVars, handVars
<1> QED
  BY <1>1, <1>2, <1>3, <1>4, <1>5, <1>6, <1>7, <1>8, <1>9, <1>10, <1>11, <1>12,
     <1>13, <1>14, <1>15 DEF Next, ChargeStep, ApproveStep

\* The parts of the invariant about rides, for the steps of ChargeRental, of
\* Stripe and of its webhooks.
RidesOK == CallsOK /\ NewestOK /\ HooksOK /\ MoneyHasRow /\ SucceededMeansPaid

LEMMA CloseRides ==
  ASSUME PayInv, NEW r \in Rides, Close(r)
  PROVE  RidesOK'
<1> USE DEF PayInv, TypeOK
<1>1. CallsOK'
  BY DEF CallsOK, Close, stripeVars, handVars
<1>2. NewestOK'
  BY DEF NewestOK, CallsOK, OfflineRows, Close, stripeVars, handVars
<1>3. HooksOK'
  BY DEF HooksOK, CallsOK, Close, stripeVars, handVars
<1>4. MoneyHasRow'
  BY DEF MoneyHasRow, CallsOK, Close, stripeVars, handVars
<1>5. SucceededMeansPaid'
  BY DEF SucceededMeansPaid, CallsOK, HooksOK, Close, stripeVars, handVars
<1> QED
  BY <1>1, <1>2, <1>3, <1>4, <1>5 DEF RidesOK

LEMMA ChargeFreeRides ==
  ASSUME PayInv, NEW r \in Rides, ChargeFree(r)
  PROVE  RidesOK'
<1> USE DEF PayInv, TypeOK
<1>1. CallsOK'
  BY DEF CallsOK, ChargeFree, stripeVars, handVars
<1>2. NewestOK'
  BY DEF NewestOK, CallsOK, OfflineRows, ChargeFree, stripeVars, handVars
<1>3. HooksOK'
  BY DEF HooksOK, CallsOK, ChargeFree, stripeVars, handVars
<1>4. MoneyHasRow'
  BY DEF MoneyHasRow, CallsOK, ChargeFree, stripeVars, handVars
<1>5. SucceededMeansPaid'
  BY DEF SucceededMeansPaid, CallsOK, HooksOK, ChargeFree, stripeVars, handVars
<1> QED
  BY <1>1, <1>2, <1>3, <1>4, <1>5 DEF RidesOK

LEMMA InsertPendingRides ==
  ASSUME PayInv, NEW r \in Rides, InsertPending(r)
  PROVE  RidesOK'
<1> USE DEF PayInv, TypeOK
<1>1. CallsOK'
  <2>1. \A x \in Rides : x # r =>
          /\ pc'[x] = pc[x] /\ newest'[x] = newest[x] /\ card'[x] = card[x]
    BY DEF InsertPending
  <2>2. pc'[r] = "resolve" /\ card'[r] = "pending" /\ newest'[r] = "card"
    BY DEF InsertPending
  <2>3. r \notin attached
    BY DEF CallsOK, InsertPending
  <2> QED
    BY <2>1, <2>2, <2>3 DEF CallsOK, InsertPending, stripeVars
<1>2. NewestOK'
  BY DEF NewestOK, CallsOK, OfflineRows, InsertPending, stripeVars, handVars
<1>3. HooksOK'
  BY DEF HooksOK, CallsOK, InsertPending, stripeVars, handVars
<1>4. MoneyHasRow'
  BY DEF MoneyHasRow, CallsOK, InsertPending, stripeVars, handVars
<1>5. SucceededMeansPaid'
  BY DEF SucceededMeansPaid, CallsOK, HooksOK, InsertPending, stripeVars, handVars
<1> QED
  BY <1>1, <1>2, <1>3, <1>4, <1>5 DEF RidesOK

LEMMA ResolveCardRides ==
  ASSUME PayInv, NEW r \in Rides, ResolveCard(r)
  PROVE  RidesOK'
<1> USE DEF PayInv, TypeOK
<1>1. CallsOK'
  BY DEF CallsOK, ResolveCard, stripeVars, handVars
<1>2. NewestOK'
  BY DEF NewestOK, CallsOK, OfflineRows, ResolveCard, stripeVars, handVars
<1>3. HooksOK'
  BY DEF HooksOK, CallsOK, ResolveCard, stripeVars, handVars
<1>4. MoneyHasRow'
  BY DEF MoneyHasRow, CallsOK, ResolveCard, stripeVars, handVars
<1>5. SucceededMeansPaid'
  BY DEF SucceededMeansPaid, CallsOK, HooksOK, ResolveCard, stripeVars, handVars
<1> QED
  BY <1>1, <1>2, <1>3, <1>4, <1>5 DEF RidesOK

LEMMA CallStripeRides ==
  ASSUME PayInv, NEW r \in Rides, CallStripe(r)
  PROVE  RidesOK'
<1> USE DEF PayInv, TypeOK
<1>1. CallsOK'
  BY DEF CallsOK, CallStripe, Hooks, Outcomes, Intents, Terminal, handVars
<1>2. NewestOK'
  BY DEF NewestOK, CallsOK, OfflineRows, CallStripe, Hooks, Outcomes, Intents, Terminal, handVars
<1>3. HooksOK'
  BY DEF HooksOK, CallsOK, CallStripe, Hooks, Outcomes, Intents, Terminal, handVars
<1>4. MoneyHasRow'
  BY DEF MoneyHasRow, CallsOK, CallStripe, Hooks, Outcomes, Intents, Terminal, handVars
<1>5. SucceededMeansPaid'
  BY DEF SucceededMeansPaid, CallsOK, HooksOK, CallStripe, Hooks, Outcomes, Intents, Terminal, handVars
<1> QED
  BY <1>1, <1>2, <1>3, <1>4, <1>5 DEF RidesOK

LEMMA AttachIntentRides ==
  ASSUME PayInv, NEW r \in Rides, AttachIntent(r)
  PROVE  RidesOK'
<1> USE DEF PayInv, TypeOK
<1>0. Mapped(reply[r]) \in {"pending", "succeeded", "failed"}
  BY DEF Mapped, AttachIntent, CallsOK, Intents
<1>1. CallsOK'
  BY DEF CallsOK, AttachIntent, Mapped, stripeVars, handVars
<1>2. NewestOK'
  BY <1>0 DEF NewestOK, CallsOK, OfflineRows, AttachIntent, handVars
<1>3. HooksOK'
  BY DEF HooksOK, CallsOK, AttachIntent, Mapped, stripeVars, handVars
<1>4. MoneyHasRow'
  BY <1>0 DEF MoneyHasRow, CallsOK, AttachIntent, stripeVars
<1>5. SucceededMeansPaid'
  BY DEF SucceededMeansPaid, CallsOK, HooksOK, AttachIntent, Mapped, stripeVars, handVars
<1> QED
  BY <1>1, <1>2, <1>3, <1>4, <1>5 DEF RidesOK

LEMMA FailRowRides ==
  ASSUME PayInv, NEW r \in Rides, FailRow(r)
  PROVE  RidesOK'
<1> USE DEF PayInv, TypeOK
<1>1. CallsOK'
  BY DEF CallsOK, FailRow, stripeVars, handVars
<1>2. NewestOK'
  BY DEF NewestOK, CallsOK, OfflineRows, FailRow, stripeVars, handVars
<1>3. HooksOK'
  BY DEF HooksOK, CallsOK, FailRow, stripeVars, handVars
<1>4. MoneyHasRow'
  BY DEF MoneyHasRow, CallsOK, FailRow, stripeVars, handVars
<1>5. SucceededMeansPaid'
  BY DEF SucceededMeansPaid, CallsOK, HooksOK, FailRow, stripeVars, handVars
<1> QED
  BY <1>1, <1>2, <1>3, <1>4, <1>5 DEF RidesOK

LEMMA CrashChargeRides ==
  ASSUME PayInv, NEW r \in Rides, CrashCharge(r)
  PROVE  RidesOK'
<1> USE DEF PayInv, TypeOK
<1>1. CallsOK'
  BY DEF CallsOK, CrashCharge, stripeVars, handVars
<1>2. NewestOK'
  BY DEF NewestOK, CallsOK, OfflineRows, CrashCharge, stripeVars, handVars
<1>3. HooksOK'
  BY DEF HooksOK, CallsOK, CrashCharge, stripeVars, handVars
<1>4. MoneyHasRow'
  BY DEF MoneyHasRow, CallsOK, CrashCharge, stripeVars, handVars
<1>5. SucceededMeansPaid'
  BY DEF SucceededMeansPaid, CallsOK, HooksOK, CrashCharge, stripeVars, handVars
<1> QED
  BY <1>1, <1>2, <1>3, <1>4, <1>5 DEF RidesOK

LEMMA StripeSettlesRides ==
  ASSUME PayInv, NEW r \in Rides, NEW o \in Outcomes, StripeSettles(r, o)
  PROVE  RidesOK'
<1> USE DEF PayInv, TypeOK
<1>1. CallsOK'
  BY DEF CallsOK, StripeSettles, Outcomes, Terminal, rideVars, handVars
<1>2. NewestOK'
  BY DEF NewestOK, CallsOK, OfflineRows, StripeSettles, Outcomes, Terminal, rideVars, handVars
<1>3. HooksOK'
  BY DEF HooksOK, CallsOK, StripeSettles, Outcomes, Terminal, rideVars, handVars
<1>4. MoneyHasRow'
  BY DEF MoneyHasRow, CallsOK, StripeSettles, Outcomes, Terminal, rideVars, handVars
<1>5. SucceededMeansPaid'
  BY DEF SucceededMeansPaid, CallsOK, HooksOK, StripeSettles, Outcomes, Terminal, rideVars, handVars
<1> QED
  BY <1>1, <1>2, <1>3, <1>4, <1>5 DEF RidesOK

LEMMA WebhookRides ==
  ASSUME PayInv, NEW r \in Rides, NEW o \in Outcomes, Webhook(r, o)
  PROVE  RidesOK'
<1> USE DEF PayInv, TypeOK
<1>1. CallsOK'
  BY DEF CallsOK, Webhook, Handled, Matches, Terminal, handVars
<1>2. NewestOK'
  BY DEF NewestOK, CallsOK, OfflineRows, Webhook, Handled, Matches, Terminal, handVars
<1>3. HooksOK'
  BY DEF HooksOK, CallsOK, Webhook, Handled, Matches, Terminal, handVars
<1>4. MoneyHasRow'
  BY DEF MoneyHasRow, CallsOK, Webhook, Handled, Matches, Terminal, handVars
<1>5. SucceededMeansPaid'
  BY DEF SucceededMeansPaid, CallsOK, HooksOK, Webhook, Handled, Matches, Terminal, handVars
<1> QED
  BY <1>1, <1>2, <1>3, <1>4, <1>5 DEF RidesOK

LEMMA WebhookFailsRides ==
  ASSUME PayInv, NEW r \in Rides, NEW o \in Outcomes, WebhookFails(r, o)
  PROVE  RidesOK'
<1> USE DEF PayInv, TypeOK
<1>1. CallsOK'
  BY DEF CallsOK, WebhookFails, rideVars, handVars
<1>2. NewestOK'
  BY DEF NewestOK, CallsOK, OfflineRows, WebhookFails, rideVars, handVars
<1>3. HooksOK'
  BY DEF HooksOK, CallsOK, WebhookFails, rideVars, handVars
<1>4. MoneyHasRow'
  BY DEF MoneyHasRow, CallsOK, WebhookFails, rideVars, handVars
<1>5. SucceededMeansPaid'
  BY DEF SucceededMeansPaid, CallsOK, HooksOK, WebhookFails, rideVars, handVars
<1> QED
  BY <1>1, <1>2, <1>3, <1>4, <1>5 DEF RidesOK

\* The published verdicts stay one, and the row's, through each of these steps.
LEMMA OneVerdictStep ==
  ASSUME PayInv, NEW r \in Rides,
         \/ UNCHANGED told /\ (card'[r] = card[r] \/ card[r] \notin Terminal)
         \/ \E v \in Terminal : /\ Tell(r, v)
                                /\ card[r] \notin Terminal
                                /\ card'[r] = v,
         \A x \in Rides : x # r => card'[x] = card[x]
  PROVE  OneVerdict'
<1> TypeOK /\ OneVerdict
  BY DEF PayInv
<1>1. \A x \in Rides, w \in Terminal :
        told[x][w] \in Nat /\ told[x][w] <= 1 /\ (told[x][w] > 0 => card[x] = w)
  BY DEF TypeOK, OneVerdict
<1>2. CASE UNCHANGED told
  BY <1>1, <1>2 DEF OneVerdict
<1>3. ASSUME NEW v \in Terminal, Tell(r, v), card[r] \notin Terminal, card'[r] = v
      PROVE  OneVerdict'
  <2>1. \A x \in Rides, w \in Terminal :
          told'[x][w] # told[x][w] =>
            x = r /\ w = v /\ told'[x][w] = told[x][w] + 1
    BY <1>3, TellStep DEF TypeOK
  <2>2. \A w \in Terminal : told[r][w] = 0
    BY <1>1, <1>3
  <2> QED
    BY <1>1, <1>3, <2>1, <2>2 DEF OneVerdict
<1> QED
  BY <1>2, <1>3

LEMMA RideVerdicts ==
  ASSUME PayInv, NEW r \in Rides, Close(r) \/ ChargeStep(r) \/ CrashCharge(r)
  PROVE  OneVerdict'
<1> TypeOK /\ CallsOK
  BY DEF PayInv
<1>1. CASE Close(r) \/ ResolveCard(r) \/ CallStripe(r) \/ CrashCharge(r)
  BY <1>1, OneVerdictStep DEF Close, ResolveCard, CallStripe, CrashCharge
<1>2. CASE ChargeFree(r)
  BY <1>2, OneVerdictStep DEF ChargeFree, CallsOK, TypeOK, Terminal
<1>3. CASE InsertPending(r)
  BY <1>3, OneVerdictStep DEF InsertPending, CallsOK, TypeOK, Terminal
<1>4. CASE AttachIntent(r)
  <2>1. card[r] \notin Terminal /\ card'[r] = Mapped(reply[r])
    BY <1>4 DEF AttachIntent, CallsOK, TypeOK, Terminal
  <2>2. \A x \in Rides : x # r => card'[x] = card[x]
    BY <1>4 DEF AttachIntent, TypeOK
  <2>3. CASE Mapped(reply[r]) \in Terminal
    BY <1>4, <2>1, <2>2, <2>3, OneVerdictStep DEF AttachIntent
  <2>4. CASE Mapped(reply[r]) \notin Terminal
    BY <1>4, <2>1, <2>2, <2>4, OneVerdictStep DEF AttachIntent
  <2> QED
    BY <2>3, <2>4
<1>5. CASE FailRow(r)
  BY <1>5, OneVerdictStep DEF FailRow, CallsOK, TypeOK, Terminal
<1> QED
  BY <1>1, <1>2, <1>3, <1>4, <1>5 DEF ChargeStep

LEMMA HookVerdicts ==
  ASSUME PayInv, NEW r \in Rides, NEW o \in Outcomes,
         StripeSettles(r, o) \/ Webhook(r, o) \/ WebhookFails(r, o)
  PROVE  OneVerdict'
<1>1. CASE Webhook(r, o) /\ Handled(o) /\ Matches(r)
  BY <1>1, OneVerdictStep DEF Webhook, Handled, Matches, PayInv, TypeOK, Terminal
<1>2. CASE UNCHANGED <<card, told>>
  BY <1>2, OneVerdictStep
<1> QED
  BY <1>1, <1>2 DEF Webhook, StripeSettles, WebhookFails, rideVars

\* Steps that leave the offline approvals alone.
LEMMA HandsOff ==
  ASSUME PayInv, UNCHANGED handVars,
         \A r \in Rides : cost[r] # "open" => cost'[r] # "open"
  PROVE  RowsOK' /\ ApprovalsOK'
<1> RowsOK /\ ApprovalsOK
  BY DEF PayInv
<1>1. UNCHANGED <<appr, byHand, toldByHand>>
  BY DEF handVars
<1>2. RowsOK'
  BY <1>1 DEF RowsOK
<1>3. ApprovalsOK'
  BY <1>1 DEF ApprovalsOK
<1> QED
  BY <1>2, <1>3

\* A request that ends, or moves on, without writing a row.
LEMMA NoRowWritten ==
  ASSUME PayInv, NEW a \in Approvals, UNCHANGED <<cost, byHand, toldByHand>>,
         appr[a].pc # "done",
         \/ /\ appr[a].pc # "new"
            /\ \/ Answer(a, None)
               \/ \E row \in RowsFor(appr[a].key) : Answer(a, row.by)
               \/ appr' = [appr EXCEPT ![a].pc = "check"]
               \/ /\ appr' = [appr EXCEPT ![a].pc = "insert"]
                  /\ cost[appr[a].ride] # "open"
         \/ \E r \in Rides, k \in Keys, full \in BOOLEAN :
              appr' = [appr EXCEPT ![a] = [pc |-> "lookup", ride |-> r, key |-> k,
                                           full |-> full, got |-> None]]
  PROVE  RowsOK' /\ ApprovalsOK'
<1> TypeOK /\ RowsOK /\ ApprovalsOK
  BY DEF PayInv
<1>1. /\ \A b \in Approvals : b # a => appr'[b] = appr[b]
      /\ appr'[a].got # None => \E row \in byHand :
           row.by = appr'[a].got /\ row.key = appr'[a].key
      /\ appr'[a].pc = "insert" => cost[appr'[a].ride] # "open"
      /\ appr'[a].pc # "new" => appr'[a].ride \in Rides
      /\ appr'[a].pc # "done" => appr'[a].got = None
  <2>1. CASE appr[a].pc # "new" /\ Answer(a, None)
    BY <2>1 DEF Answer, TypeOK, Approval, ApprovalsOK
  <2>2. ASSUME appr[a].pc # "new", NEW row \in RowsFor(appr[a].key),
               Answer(a, row.by)
        PROVE  <1>1!:
    <3>1. row \in byHand /\ row.key = appr[a].key
      BY <2>2 DEF RowsFor
    <3>2. /\ \A b \in Approvals : b # a => appr'[b] = appr[b]
          /\ appr'[a].got = row.by /\ appr'[a].key = appr[a].key
          /\ appr'[a].pc = "done" /\ appr'[a].ride = appr[a].ride
      BY <2>2 DEF Answer, TypeOK, Approval
    <3> QED
      BY <2>2, <3>1, <3>2 DEF ApprovalsOK
  <2>3. CASE appr[a].pc # "new" /\ appr' = [appr EXCEPT ![a].pc = "check"]
    BY <2>3 DEF TypeOK, Approval, ApprovalsOK
  <2>4. CASE /\ appr[a].pc # "new" /\ cost[appr[a].ride] # "open"
             /\ appr' = [appr EXCEPT ![a].pc = "insert"]
    BY <2>4 DEF TypeOK, Approval, ApprovalsOK
  <2>5. ASSUME NEW r \in Rides, NEW k \in Keys, NEW full \in BOOLEAN,
               appr' = [appr EXCEPT ![a] = [pc |-> "lookup", ride |-> r, key |-> k,
                                            full |-> full, got |-> None]]
        PROVE  <1>1!:
    BY <2>5 DEF TypeOK
  <2> QED
    BY <2>1, <2>2, <2>3, <2>4, <2>5
<1>2. \A row \in byHand : row.by # a /\ row.by \in Approvals
  BY DEF RowsOK, TypeOK, OfflineRow
<1>3. RowsOK'
  BY <1>1, <1>2 DEF RowsOK
<1>4. ApprovalsOK'
  BY <1>1, <1>2 DEF ApprovalsOK
<1> QED
  BY <1>3, <1>4

LEMMA ApproveRows ==
  ASSUME PayInv, NEW a \in Approvals,
         \/ ApproveStep(a) \/ CrashApproval(a)
         \/ \E r \in Rides, k \in Keys, full \in BOOLEAN :
                  SendApproval(a, r, k, full)
  PROVE  RowsOK' /\ ApprovalsOK'
<1> TypeOK /\ RowsOK /\ ApprovalsOK
  BY DEF PayInv
<1>1. CASE ApproveInsert(a) /\ RowsFor(appr[a].key) = {}
  <2> DEFINE new == [key |-> appr[a].key, ride |-> appr[a].ride, by |-> a,
                 full |-> appr[a].full]
  <2>1. /\ byHand' = byHand \cup {new}
        /\ toldByHand' \in {toldByHand, toldByHand \cup {a}}
        /\ appr' = [appr EXCEPT ![a].pc = "done", ![a].got = a]
        /\ UNCHANGED cost
    BY <1>1 DEF ApproveInsert, Answer, rideVars
  <2>2. new.key = appr[a].key /\ new.by = a
    OBVIOUS
  <2>3. \A row \in byHand : row.by \in Approvals /\ row.by # a
    BY <1>1 DEF RowsOK, ApproveInsert, TypeOK, OfflineRow
  <2>4. /\ \A b \in Approvals : b # a => appr'[b] = appr[b]
        /\ appr'[a].pc = "done" /\ appr'[a].got = a
        /\ appr'[a].key = appr[a].key /\ appr'[a].ride = appr[a].ride
    BY <2>1 DEF TypeOK, Approval
  <2>5. \A row \in byHand : row.key = new.key => new.key = NoKey
    BY <1>1, <2>2 DEF RowsFor
  <2> HIDE DEF new
  <2>6. RowsOK'
    BY <2>1, <2>2, <2>3, <2>4, <2>5 DEF RowsOK
  <2>7. ApprovalsOK'
    <3>1. appr[a].ride \in Rides
      BY <1>1 DEF ApproveInsert, ApprovalsOK
    <3> QED
      <4> SUFFICES ASSUME NEW b \in Approvals
                   PROVE  /\ appr'[b].pc = "insert" =>
                               /\ appr'[b].ride \in Rides
                               /\ cost'[appr'[b].ride] # "open"
                          /\ appr'[b].pc # "new" => appr'[b].ride \in Rides
                          /\ appr'[b].pc # "done" => appr'[b].got = None
                          /\ appr'[b].got # None => \E row \in byHand' :
                               row.by = appr'[b].got /\ row.key = appr'[b].key
                          /\ b \in toldByHand' => \E row \in byHand' : row.by = b
        BY DEF ApprovalsOK
      <4>1. new \in byHand'
        BY <2>1
      <4>2. CASE b = a
        BY <2>2, <2>4, <3>1, <4>1, <4>2
      <4>3. CASE b # a
        <5>1. appr'[b] = appr[b] /\ (b \in toldByHand' => b \in toldByHand)
          BY <2>1, <2>4, <4>3
        <5>2. byHand \subseteq byHand'
          BY <2>1
        <5>3. /\ appr[b].pc = "insert" =>
                   appr[b].ride \in Rides /\ cost[appr[b].ride] # "open"
              /\ appr[b].pc # "new" => appr[b].ride \in Rides
              /\ appr[b].pc # "done" => appr[b].got = None
              /\ appr[b].got # None => \E row \in byHand :
                   row.by = appr[b].got /\ row.key = appr[b].key
              /\ b \in toldByHand => \E row \in byHand : row.by = b
          BY DEF ApprovalsOK
        <5>4. cost' = cost
          BY <2>1
        <5> QED
          BY <5>1, <5>2, <5>3, <5>4
      <4> QED
        BY <4>2, <4>3
  <2> QED
    BY <2>6, <2>7
<1>2. CASE ApproveInsert(a) /\ RowsFor(appr[a].key) # {}
  BY <1>2, NoRowWritten DEF ApproveInsert, rideVars
<1>3. CASE ApproveLookup(a)
  BY <1>3, NoRowWritten DEF ApproveLookup, rideVars
<1>4. CASE ApproveCheck(a)
  BY <1>4, NoRowWritten DEF ApproveCheck, rideVars
<1>5. CASE CrashApproval(a)
  BY <1>5, NoRowWritten DEF CrashApproval, rideVars
<1>6. CASE \E r \in Rides, k \in Keys, full \in BOOLEAN :
                  SendApproval(a, r, k, full)
  BY <1>6, NoRowWritten DEF SendApproval, rideVars
<1> QED
  BY <1>1, <1>2, <1>3, <1>4, <1>5, <1>6 DEF ApproveStep

\* An approval touches a ride only by adding the offline row, which is then
\* its latest.
LEMMA ApproveRides ==
  ASSUME PayInv, NEW a \in Approvals,
         \/ ApproveStep(a) \/ CrashApproval(a)
         \/ \E r \in Rides, k \in Keys, full \in BOOLEAN :
                  SendApproval(a, r, k, full)
  PROVE  RidesOK' /\ OneVerdict'
<1> TypeOK /\ CallsOK /\ NewestOK /\ ApprovalsOK
  BY DEF PayInv
<1>1. UNCHANGED <<rideVars, stripeVars, told>>
  BY DEF ApproveStep, ApproveLookup, ApproveCheck, ApproveInsert, CrashApproval,
         SendApproval
<1>2. UNCHANGED <<cost, pc, reply, card, attached, intent, hooks>>
  BY <1>1 DEF rideVars, stripeVars
<1>3. HooksOK' /\ MoneyHasRow' /\ SucceededMeansPaid' /\ OneVerdict'
  BY <1>1, <1>2 DEF PayInv, HooksOK, MoneyHasRow, SucceededMeansPaid, OneVerdict
<1>4. CASE UNCHANGED <<newest, byHand>>
  BY <1>2, <1>3, <1>4 DEF RidesOK, CallsOK, NewestOK, OfflineRows
<1>5. CASE ApproveInsert(a) /\ RowsFor(appr[a].key) = {}
  <2> DEFINE new == [key |-> appr[a].key, ride |-> appr[a].ride, by |-> a,
                 full |-> appr[a].full]
  <2>1. /\ newest' = [newest EXCEPT ![appr[a].ride] = "offline"]
        /\ byHand' = byHand \cup {new}
        /\ new.ride = appr[a].ride
    BY <1>5 DEF ApproveInsert
  <2>2. appr[a].ride \in Rides /\ cost[appr[a].ride] # "open"
    BY <1>5 DEF ApproveInsert, ApprovalsOK
  <2> HIDE DEF new
  <2>3. CallsOK'
    BY <1>2, <2>1, <2>2 DEF CallsOK, TypeOK
  <2>4. NewestOK'
    BY <1>2, <2>1, <2>2 DEF NewestOK, OfflineRows, TypeOK
  <2> QED
    BY <1>3, <2>3, <2>4 DEF RidesOK
<1> QED
  BY <1>4, <1>5 DEF ApproveStep, ApproveLookup, ApproveCheck, ApproveInsert,
                    CrashApproval, SendApproval

LEMMA PayInit == Init => PayInv
<1> SUFFICES ASSUME Init PROVE PayInv
  OBVIOUS
<1>1. TypeOK
  BY TypeInit
<1> QED
  BY <1>1 DEF Init, PayInv, CallsOK, NewestOK, HooksOK, RowsOK, ApprovalsOK,
              MoneyHasRow, SucceededMeansPaid, OneVerdict, Terminal

LEMMA PayStep == PayInv /\ [Next]_vars => PayInv'
<1> SUFFICES ASSUME PayInv, [Next]_vars PROVE PayInv'
  OBVIOUS
<1> USE DEF RidesOK
<1>1. TypeOK'
  BY TypeStep
<1>2. ASSUME NEW r \in Rides, Close(r) \/ ChargeStep(r) \/ CrashCharge(r)
      PROVE  PayInv'
  <2>1. RidesOK'
    BY <1>2, CloseRides, ChargeFreeRides, InsertPendingRides, ResolveCardRides,
       CallStripeRides, AttachIntentRides, FailRowRides, CrashChargeRides
       DEF ChargeStep
  <2>2. UNCHANGED handVars /\ \A x \in Rides : cost[x] # "open" => cost'[x] # "open"
    BY <1>2 DEF Close, ChargeStep, CrashCharge, ChargeFree, InsertPending,
       ResolveCard, CallStripe, AttachIntent, FailRow, PayInv, TypeOK
  <2>3. RowsOK' /\ ApprovalsOK'
    BY <2>2, HandsOff
  <2>4. OneVerdict'
    BY <1>2, RideVerdicts
  <2> QED
    BY <1>1, <2>1, <2>3, <2>4 DEF PayInv
<1>3. ASSUME NEW r \in Rides, NEW o \in Outcomes,
             StripeSettles(r, o) \/ Webhook(r, o) \/ WebhookFails(r, o)
      PROVE  PayInv'
  <2>1. RidesOK'
    BY <1>3, StripeSettlesRides, WebhookRides, WebhookFailsRides
  <2>2. UNCHANGED <<handVars, cost>>
    BY <1>3 DEF StripeSettles, Webhook, WebhookFails, rideVars
  <2>3. RowsOK' /\ ApprovalsOK'
    BY <2>2, HandsOff
  <2>4. OneVerdict'
    BY <1>3, HookVerdicts
  <2> QED
    BY <1>1, <2>1, <2>3, <2>4 DEF PayInv
<1>4. ASSUME NEW a \in Approvals,
             \/ ApproveStep(a) \/ CrashApproval(a)
             \/ \E r \in Rides, k \in Keys, full \in BOOLEAN :
                  SendApproval(a, r, k, full)
      PROVE  PayInv'
  BY <1>1, <1>4, ApproveRows, ApproveRides DEF PayInv
<1>5. CASE UNCHANGED vars
  BY <1>1, <1>5 DEF vars, rideVars, stripeVars, handVars, PayInv, CallsOK,
     NewestOK, HooksOK, RowsOK, ApprovalsOK, MoneyHasRow, SucceededMeansPaid,
     OneVerdict, OfflineRows
<1> QED
  BY <1>2, <1>3, <1>4, <1>5 DEF Next

\* The invariant holds in every reachable state.
THEOREM PaymentInvariant == Spec => []PayInv
  BY PayInit, PayStep, PTL DEF Spec

\* Every variable keeps to its type.
THEOREM TypeCorrect == Spec => []TypeOK
<1>1. PayInv => TypeOK
  BY DEF PayInv
<1> QED
  BY <1>1, PaymentInvariant, PTL

\* No Stripe intent exists without a payment row, however ChargeRental ends.
THEOREM RowBeforeMoney == Spec => []MoneyHasRow
<1>1. PayInv => MoneyHasRow
  BY DEF PayInv
<1> QED
  BY <1>1, PaymentInvariant, PTL

\* A card row says 'succeeded' only if Stripe has the money.
THEOREM PaidWhenSucceeded == Spec => []SucceededMeansPaid
<1>1. PayInv => SucceededMeansPaid
  BY DEF PayInv
<1> QED
  BY <1>1, PaymentInvariant, PTL

\* A rider hears of a charge once at most, and hears what the row says.
THEOREM ToldTheVerdict == Spec => []OneVerdict
<1>1. PayInv => OneVerdict
  BY DEF PayInv
<1> QED
  BY <1>1, PaymentInvariant, PTL

\* HasUnpaidRentals reports every ride with a debt but those whose latest row
\* is an offline approval of less than the price.
THEOREM DebtsReported == Spec => []NoDebtMissed
<1>1. PayInv => NoDebtMissed
  BY DEF PayInv, NoDebtMissed, Settled, PartlyApproved, Unpaid, CallsOK, NewestOK,
         SucceededMeansPaid, TypeOK, Statuses
<1> QED
  BY <1>1, PaymentInvariant, PTL

\* Approvals with the same key, concurrent ones included, share one row.
THEOREM OneRowPerKey == Spec => []KeyIsIdempotent
<1>1. PayInv => KeyIsIdempotent
  <2> SUFFICES ASSUME PayInv, NEW a \in Approvals, NEW b \in Approvals,
                      appr[a].key = appr[b].key, appr[a].key # NoKey
               PROVE  /\ (appr[a].got # None /\ appr[b].got # None) =>
                           appr[a].got = appr[b].got
                      /\ (a \in toldByHand /\ b \in toldByHand) => a = b
    BY DEF KeyIsIdempotent
  <2>1. (appr[a].got # None /\ appr[b].got # None) => appr[a].got = appr[b].got
    BY DEF PayInv, ApprovalsOK, RowsOK
  <2>2. (a \in toldByHand /\ b \in toldByHand) => a = b
    BY DEF PayInv, ApprovalsOK, RowsOK
  <2> QED
    BY <2>1, <2>2
<1> QED
  BY <1>1, PaymentInvariant, PTL

LEMMA VerdictKept ==
  PayInv /\ [Next]_vars => \A r \in Rides : card[r] \in Terminal => card'[r] = card[r]
<1> SUFFICES ASSUME PayInv, [Next]_vars, NEW r \in Rides, card[r] \in Terminal
             PROVE  card'[r] = card[r]
  OBVIOUS
<1> TypeOK /\ CallsOK
  BY DEF PayInv
<1>1. ASSUME NEW x \in Rides, Close(x) \/ ChargeStep(x) \/ CrashCharge(x)
      PROVE  card'[r] = card[r]
  BY <1>1 DEF Close, CrashCharge, ChargeStep, ChargeFree, InsertPending,
     ResolveCard, CallStripe, AttachIntent, FailRow, CallsOK, TypeOK, Terminal
<1>2. ASSUME NEW x \in Rides, NEW o \in Outcomes,
             StripeSettles(x, o) \/ Webhook(x, o) \/ WebhookFails(x, o)
      PROVE  card'[r] = card[r]
  BY <1>2 DEF StripeSettles, Webhook, WebhookFails, Matches, rideVars, TypeOK,
     Terminal
<1>3. ASSUME NEW a \in Approvals,
             \/ ApproveStep(a) \/ CrashApproval(a)
             \/ \E x \in Rides, k \in Keys, full \in BOOLEAN :
                  SendApproval(a, x, k, full)
      PROVE  card' = card
  BY <1>3 DEF ApproveStep, ApproveLookup, ApproveCheck, ApproveInsert,
     CrashApproval, SendApproval, rideVars
<1>4. CASE UNCHANGED vars
  BY <1>4 DEF vars, rideVars
<1> QED
  BY <1>1, <1>2, <1>3, <1>4 DEF Next

\* Once the card row says 'succeeded' or 'failed' nothing rewrites it.
THEOREM VerdictIsFinal == Spec => VerdictStays
<1>1. PayInv /\ [Next]_vars =>
        [\A r \in Rides : card[r] \in Terminal => card'[r] = card[r]]_vars
  BY VerdictKept
<1> QED
  BY <1>1, PaymentInvariant, PTL DEF Spec, VerdictStays

-----------------------------------------------------------------------------
(* Rows that wait for a webhook. *)

LEMMA IntentsStep == PayInv /\ IntentsOK /\ [Next]_vars => IntentsOK'
<1> SUFFICES ASSUME PayInv, IntentsOK, [Next]_vars PROVE IntentsOK'
  OBVIOUS
<1> TypeOK /\ CallsOK
  BY DEF PayInv
<1> USE DEF IntentsOK
<1>1. ASSUME NEW r \in Rides,
             Close(r) \/ ChargeFree(r) \/ InsertPending(r) \/ ResolveCard(r)
      PROVE  IntentsOK'
  <2>1. UNCHANGED <<attached, intent, hooks, acked>>
    BY <1>1 DEF Close, ChargeFree, InsertPending, ResolveCard, stripeVars
  <2>2. /\ \A x \in Rides : x # r => pc'[x] = pc[x] /\ card'[x] = card[x]
        /\ pc'[r] # "attach"
        /\ card'[r] = "pending" => pc'[r] # "done"
    BY <1>1 DEF Close, ChargeFree, InsertPending, ResolveCard, TypeOK, CallsOK
  <2> QED
    BY <2>1, <2>2
<1>2. ASSUME NEW r \in Rides, CallStripe(r) PROVE IntentsOK'
  <2>1. PICK status \in Intents :
          /\ intent' = [intent EXCEPT ![r] = status]
          /\ hooks' = hooks \cup ({<<r, status>>} \cap Hooks)
          /\ \/ status # "none" /\ pc' = [pc EXCEPT ![r] = "attach"]
             \/ pc' = [pc EXCEPT ![r] = "fail"]
    BY <1>2 DEF CallStripe
  <2>2. status \in Terminal => <<r, status>> \in hooks'
    BY <2>1 DEF Hooks, Outcomes
  <2>3. r \notin attached /\ UNCHANGED <<card, attached, acked>>
    BY <1>2 DEF CallStripe, CallsOK
  <2>4. \A x \in Rides : x # r => intent'[x] = intent[x] /\ pc'[x] = pc[x]
    BY <2>1 DEF TypeOK
  <2>5. /\ intent'[r] = status /\ hooks \subseteq hooks'
        /\ pc'[r] = "attach" => status # "none"
        /\ pc'[r] \in {"attach", "fail"}
    BY <2>1 DEF TypeOK
  <2> QED
    BY <2>2, <2>3, <2>4, <2>5
<1>3. ASSUME NEW r \in Rides, AttachIntent(r) PROVE IntentsOK'
  BY <1>3 DEF AttachIntent, TypeOK, stripeVars
<1>4. ASSUME NEW r \in Rides, FailRow(r) PROVE IntentsOK'
  BY <1>4 DEF FailRow, TypeOK, stripeVars
<1>5. ASSUME NEW r \in Rides, CrashCharge(r) PROVE IntentsOK'
  BY <1>5 DEF CrashCharge, TypeOK, stripeVars
<1>6. ASSUME NEW r \in Rides, NEW o \in Outcomes, StripeSettles(r, o)
      PROVE  IntentsOK'
  <2>1. /\ intent'[r] = o /\ <<r, o>> \in hooks' /\ hooks \subseteq hooks'
        /\ \A x \in Rides : x # r => intent'[x] = intent[x]
        /\ UNCHANGED <<pc, card, attached, acked>>
    BY <1>6 DEF StripeSettles, TypeOK, rideVars
  <2>2. o # "none"
    BY DEF Outcomes, Terminal
  <2> QED
    BY <2>1, <2>2
<1>7. ASSUME NEW r \in Rides, NEW o \in Outcomes, Webhook(r, o)
      PROVE  IntentsOK'
  <2>1. /\ hooks \cup acked \subseteq hooks' \cup acked'
        /\ UNCHANGED <<pc, attached, intent>>
        /\ \A x \in Rides : card'[x] = "pending" => card[x] = "pending"
    BY <1>7 DEF Webhook, Handled, TypeOK, Terminal
  <2> QED
    BY <2>1
<1>8. ASSUME NEW r \in Rides, NEW o \in Outcomes, WebhookFails(r, o)
      PROVE  IntentsOK'
  BY <1>8 DEF WebhookFails, rideVars
<1>9. ASSUME NEW a \in Approvals,
             \/ ApproveStep(a) \/ CrashApproval(a)
             \/ \E r \in Rides, k \in Keys, full \in BOOLEAN :
                  SendApproval(a, r, k, full)
      PROVE  IntentsOK'
  BY <1>9 DEF ApproveStep, ApproveLookup, ApproveCheck, ApproveInsert,
     CrashApproval, SendApproval, rideVars, stripeVars
<1>10. CASE UNCHANGED vars
  BY <1>10 DEF vars, rideVars, stripeVars
<1> QED
  BY <1>1, <1>2, <1>3, <1>4, <1>5, <1>6, <1>7, <1>8, <1>9, <1>10
     DEF Next, ChargeStep

LEMMA IntentsInvariant == Spec => []IntentsOK
<1>1. Init => IntentsOK
  BY DEF Init, IntentsOK, Terminal
<1> QED
  BY <1>1, IntentsStep, PaymentInvariant, PTL DEF Spec

\* A card row is pending after its call for one of four reasons only: a fault
\* cut the call short, the row still waits, Stripe's decision was acknowledged
\* before the row carried the intent's id, or the intent was cancelled.
THEOREM PendingExplained == Spec => []PendingIsExplained
<1>1. PayInv /\ IntentsOK => PendingIsExplained
  <2> SUFFICES ASSUME PayInv, IntentsOK, NEW r \in Rides,
                      card[r] = "pending", pc[r] = "done", r \in attached,
                      intent[r] # "canceled"
               PROVE  \/ Waiting(r)
                      \/ \E v \in Terminal : <<r, v>> \in acked
    BY DEF PendingIsExplained, IntentsOK
  <2>1. intent[r] \in {"open", "succeeded", "failed"}
    BY DEF IntentsOK, PayInv, TypeOK, Intents
  <2> QED
    BY <2>1 DEF Waiting, IntentsOK, Terminal
<1> QED
  BY <1>1, PaymentInvariant, IntentsInvariant, PTL

LEMMA WaitGoesOn ==
  ASSUME PayInv, [Next]_vars, NEW r \in Rides, Waiting(r)
  PROVE  \/ Waiting(r)' \/ card'[r] \in Terminal
         \/ intent[r] = "open" /\ intent'[r] = "canceled"
<1> TypeOK /\ CallsOK
  BY DEF PayInv
<1>1. r \in attached /\ card[r] = "pending" /\ pc[r] = "done" /\ cost[r] # "open"
  BY DEF Waiting, CallsOK
<1>2. ASSUME NEW x \in Rides, Close(x) \/ ChargeStep(x) \/ CrashCharge(x)
      PROVE  Waiting(r)'
  <2>1. x # r
    BY <1>1, <1>2 DEF Close, ChargeStep, CrashCharge, ChargeFree, InsertPending,
       ResolveCard, CallStripe, AttachIntent, FailRow
  <2>2. /\ attached \subseteq attached' /\ hooks \subseteq hooks'
        /\ card'[r] = card[r] /\ intent'[r] = intent[r]
    BY <1>2, <2>1 DEF Close, ChargeStep, CrashCharge, ChargeFree, InsertPending,
       ResolveCard, CallStripe, AttachIntent, FailRow, TypeOK, stripeVars
  <2> QED
    BY <1>1, <2>2 DEF Waiting
<1>3. ASSUME NEW x \in Rides, NEW o \in Outcomes, StripeSettles(x, o)
      PROVE  Waiting(r)' \/ (intent[r] = "open" /\ intent'[r] = "canceled")
  <2>1. CASE x = r
    <3>1. /\ UNCHANGED <<attached, card>>
          /\ intent'[r] = o /\ <<r, o>> \in hooks' /\ hooks \subseteq hooks'
      BY <1>3, <2>1 DEF StripeSettles, rideVars, TypeOK
    <3> QED
      BY <1>1, <3>1 DEF Waiting, Outcomes
  <2>2. CASE x # r
    BY <1>1, <1>3, <2>2 DEF Waiting, StripeSettles, rideVars, TypeOK
  <2> QED
    BY <2>1, <2>2
<1>4. ASSUME NEW x \in Rides, NEW o \in Outcomes, Webhook(x, o)
      PROVE  Waiting(r)' \/ card'[r] \in Terminal
  <2>1. CASE x = r
    <3>1. CASE Handled(o)
      BY <1>1, <1>4, <2>1, <3>1 DEF Webhook, Handled, Matches, TypeOK
    <3>2. CASE ~Handled(o)
      <4>1. /\ UNCHANGED <<attached, card, intent>>
            /\ \A w \in Terminal : <<r, w>> \in hooks => <<r, w>> \in hooks'
        BY <1>4, <2>1, <3>2 DEF Webhook, Handled
      <4> QED
        BY <1>1, <4>1 DEF Waiting
    <3> QED
      BY <3>1, <3>2
  <2>2. CASE x # r
    <3>1. /\ UNCHANGED <<attached, intent>> /\ card'[r] = card[r]
          /\ \A w \in Terminal : <<r, w>> \in hooks => <<r, w>> \in hooks'
      BY <1>4, <2>2 DEF Webhook, TypeOK
    <3> QED
      BY <1>1, <3>1 DEF Waiting
  <2> QED
    BY <2>1, <2>2
<1>5. ASSUME NEW x \in Rides, NEW o \in Outcomes, WebhookFails(x, o)
      PROVE  Waiting(r)'
  BY <1>5 DEF WebhookFails, Waiting, rideVars
<1>6. ASSUME NEW a \in Approvals,
             \/ ApproveStep(a) \/ CrashApproval(a)
             \/ \E x \in Rides, k \in Keys, full \in BOOLEAN :
                  SendApproval(a, x, k, full)
      PROVE  Waiting(r)'
  BY <1>6 DEF ApproveStep, ApproveLookup, ApproveCheck, ApproveInsert,
     CrashApproval, SendApproval, Waiting, rideVars, stripeVars
<1>7. CASE UNCHANGED vars
  BY <1>7 DEF vars, rideVars, stripeVars, Waiting
<1> QED
  BY <1>2, <1>3, <1>4, <1>5, <1>6, <1>7 DEF Next

\* A row that waits for Stripe's verdict waits until it has it, or until the
\* intent is cancelled: no failure, no redelivery and no other request makes the
\* service forget it.
THEOREM WaitsAreKept == Spec => PendingNotForgotten
<1>1. PayInv /\ [Next]_vars =>
        [\A r \in Rides : Waiting(r) =>
           \/ Waiting(r)' \/ card'[r] \in Terminal
           \/ intent[r] = "open" /\ intent'[r] = "canceled"]_vars
  BY WaitGoesOn
<1> QED
  BY <1>1, PaymentInvariant, PTL DEF Spec, PendingNotForgotten

-----------------------------------------------------------------------------
(* The contract with the rental service. *)

\* debtOf and wasCharged are functions, so pointwise facts determine them.
LEMMA ViewChanges ==
  ASSUME NEW r \in Rides,
         \A x \in Rides : x # r => /\ debtOf'[x] = debtOf[x]
                                   /\ wasCharged'[x] = wasCharged[x]
  PROVE  /\ debtOf' = [debtOf EXCEPT ![r] = debtOf'[r]]
         /\ wasCharged' = [wasCharged EXCEPT ![r] = wasCharged'[r]]
<1>1. /\ debtOf = [x \in Rides |-> debtOf[x]]
      /\ debtOf' = [x \in Rides |-> debtOf'[x]]
      /\ wasCharged = [x \in Rides |-> wasCharged[x]]
      /\ wasCharged' = [x \in Rides |-> wasCharged'[x]]
  BY DEF debtOf, wasCharged
<1>2. /\ [debtOf EXCEPT ![r] = debtOf'[r]] =
           [x \in Rides |-> IF x = r THEN debtOf'[r] ELSE debtOf[x]]
      /\ [wasCharged EXCEPT ![r] = wasCharged'[r]] =
           [x \in Rides |-> IF x = r THEN wasCharged'[r] ELSE wasCharged[x]]
  BY <1>1
<1>3. /\ \A x \in Rides : debtOf'[x] = IF x = r THEN debtOf'[r] ELSE debtOf[x]
      /\ \A x \in Rides :
           wasCharged'[x] = IF x = r THEN wasCharged'[r] ELSE wasCharged[x]
  OBVIOUS
<1> QED
  BY <1>1, <1>2, <1>3

\* A step that leaves every ride but r alone, and does to r what the contract
\* allows, is a step of the contract.
LEMMA ContractStep ==
  ASSUME NEW r \in Rides,
         \A x \in Rides : x # r =>
           UNCHANGED <<cost[x], pc[x], card[x], newest[x]>>,
         \/ /\ debtOf[r] = "open" /\ debtOf'[r] \in {"none", "owed"}
         \/ /\ debtOf[r] # "open" /\ ~wasCharged[r] /\ wasCharged'[r]
            /\ debtOf'[r] \in {"none", "owed", "settled"}
            /\ debtOf'[r] = "none" <=> debtOf[r] = "none"
         \/ /\ wasCharged'[r] = wasCharged[r]
            /\ debtOf'[r] = debtOf[r]
         \/ /\ wasCharged'[r] = wasCharged[r]
            /\ debtOf[r] = "owed" /\ debtOf'[r] = "settled"
  PROVE  [Contract!Next]_(Contract!vars)
<1>1. \A x \in Rides : x # r => /\ debtOf'[x] = debtOf[x]
                                /\ wasCharged'[x] = wasCharged[x]
  <2> SUFFICES ASSUME NEW x \in Rides, x # r
               PROVE  debtOf'[x] = debtOf[x] /\ wasCharged'[x] = wasCharged[x]
    OBVIOUS
  <2>1. UNCHANGED <<cost[x], pc[x], card[x], newest[x]>>
    OBVIOUS
  <2>2. wasCharged'[x] = wasCharged[x]
    BY <2>1 DEF wasCharged
  <2>3. debtOf'[x] = debtOf[x]
    BY <2>1 DEF debtOf, Unpaid
  <2> QED
    BY <2>2, <2>3
<1>2. /\ debtOf' = [debtOf EXCEPT ![r] = debtOf'[r]]
      /\ wasCharged' = [wasCharged EXCEPT ![r] = wasCharged'[r]]
  BY <1>1, ViewChanges
<1>3. wasCharged'[r] \in BOOLEAN
  BY DEF wasCharged
<1>4. /\ debtOf = [x \in Rides |-> debtOf[x]]
      /\ debtOf' = [x \in Rides |-> debtOf'[x]]
      /\ wasCharged = [x \in Rides |-> wasCharged[x]]
      /\ wasCharged' = [x \in Rides |-> wasCharged'[x]]
  BY DEF debtOf, wasCharged
<1>5. CASE debtOf[r] = "open" /\ debtOf'[r] \in {"none", "owed"}
  BY <1>2, <1>3, <1>5 DEF Contract!Next, Contract!Close
<1>6. CASE /\ debtOf[r] # "open" /\ ~wasCharged[r] /\ wasCharged'[r]
           /\ debtOf'[r] \in {"none", "owed", "settled"}
           /\ debtOf'[r] = "none" <=> debtOf[r] = "none"
  <2>1. wasCharged' = [wasCharged EXCEPT ![r] = TRUE]
    BY <1>2, <1>3, <1>6
  <2> QED
    BY <1>2, <1>6, <2>1 DEF Contract!Next, Contract!Charge
<1>7. CASE wasCharged'[r] = wasCharged[r] /\ debtOf'[r] = debtOf[r]
  BY <1>1, <1>4, <1>7 DEF Contract!vars
<1>8. CASE /\ wasCharged'[r] = wasCharged[r]
           /\ debtOf[r] = "owed" /\ debtOf'[r] = "settled"
  <2>1. wasCharged' = wasCharged
    BY <1>1, <1>4, <1>8
  <2> QED
    BY <1>2, <1>8, <2>1 DEF Contract!Next, Contract!Settle
<1> QED
  BY <1>5, <1>6, <1>7, <1>8

LEMMA RideContract ==
  ASSUME PayInv, NEW r \in Rides, Close(r) \/ ChargeStep(r) \/ CrashCharge(r)
  PROVE  [Contract!Next]_(Contract!vars)
<1> TypeOK /\ CallsOK /\ NewestOK
  BY DEF PayInv
<1>1. \A x \in Rides : x # r => UNCHANGED <<cost[x], pc[x], card[x], newest[x]>>
  BY DEF Close, CrashCharge, ChargeStep, ChargeFree, InsertPending,
     ResolveCard, CallStripe, AttachIntent, FailRow, TypeOK
<1>2. CASE Close(r)
  <2>1. debtOf[r] = "open" /\ debtOf'[r] \in {"none", "owed"}
    BY <1>2 DEF Close, debtOf, Unpaid, CallsOK, TypeOK
  <2> QED
    BY <1>1, <2>1, ContractStep
<1>3. CASE ChargeFree(r)
  <2>1. debtOf[r] = "none" /\ debtOf'[r] = "none" /\ ~wasCharged[r] /\ wasCharged'[r]
    BY <1>3 DEF ChargeFree, debtOf, wasCharged, TypeOK
  <2> QED
    BY <1>1, <2>1, ContractStep
<1>4. CASE InsertPending(r)
  <2>1. /\ debtOf[r] \in {"owed", "settled"} /\ debtOf'[r] = "owed"
        /\ ~wasCharged[r] /\ wasCharged'[r]
    BY <1>4 DEF InsertPending, debtOf, wasCharged, Unpaid, TypeOK
  <2> QED
    BY <1>1, <2>1, ContractStep
<1>5. CASE ResolveCard(r) \/ CallStripe(r)
  <2>1. debtOf'[r] = debtOf[r] /\ wasCharged'[r] = wasCharged[r]
    BY <1>5 DEF ResolveCard, CallStripe, debtOf, wasCharged, Unpaid, TypeOK
  <2> QED
    BY <1>1, <2>1, ContractStep
<1>6. CASE AttachIntent(r) \/ FailRow(r)
  <2>1. /\ cost[r] = "due" /\ card[r] = "pending" /\ newest[r] # "none"
        /\ UNCHANGED <<cost, newest>>
        /\ wasCharged'[r] = wasCharged[r]
    BY <1>6 DEF AttachIntent, FailRow, CallsOK, NewestOK, wasCharged, TypeOK
  <2>2. \/ debtOf'[r] = debtOf[r]
        \/ debtOf[r] = "owed" /\ debtOf'[r] = "settled"
    BY <2>1 DEF debtOf, Unpaid, TypeOK
  <2> QED
    BY <1>1, <2>1, <2>2, ContractStep
<1>7. CASE CrashCharge(r)
  <2>1. /\ debtOf'[r] = debtOf[r] /\ debtOf[r] # "open" /\ wasCharged'[r]
        /\ debtOf[r] \in {"none", "owed", "settled"}
    BY <1>7 DEF CrashCharge, CallsOK, debtOf, wasCharged, Unpaid, TypeOK
  <2>2. wasCharged[r] \in BOOLEAN
    BY DEF wasCharged
  <2> QED
    BY <1>1, <2>1, <2>2, ContractStep
<1> QED
  BY <1>2, <1>3, <1>4, <1>5, <1>6, <1>7 DEF ChargeStep

LEMMA HookContract ==
  ASSUME PayInv, NEW r \in Rides, NEW o \in Outcomes,
         StripeSettles(r, o) \/ Webhook(r, o) \/ WebhookFails(r, o)
  PROVE  [Contract!Next]_(Contract!vars)
<1> TypeOK /\ CallsOK /\ NewestOK
  BY DEF PayInv
<1>1. /\ UNCHANGED <<cost, pc, newest>>
      /\ \/ card' = card
         \/ card[r] = "pending" /\ o \in Terminal /\ card' = [card EXCEPT ![r] = o]
  BY DEF StripeSettles, Webhook, WebhookFails, Handled, Matches, rideVars
<1>2. \A x \in Rides : x # r => UNCHANGED <<cost[x], pc[x], card[x], newest[x]>>
  BY <1>1 DEF TypeOK
<1>3. wasCharged'[r] = wasCharged[r]
  BY <1>1 DEF wasCharged
<1>4. \/ debtOf'[r] = debtOf[r]
      \/ debtOf[r] = "owed" /\ debtOf'[r] = "settled"
  BY <1>1 DEF debtOf, Unpaid, NewestOK, TypeOK, CallsOK
<1> QED
  BY <1>2, <1>3, <1>4, ContractStep

LEMMA ApproveContract ==
  ASSUME PayInv, NEW a \in Approvals,
         \/ ApproveStep(a) \/ CrashApproval(a)
         \/ \E r \in Rides, k \in Keys, full \in BOOLEAN :
                  SendApproval(a, r, k, full)
  PROVE  [Contract!Next]_(Contract!vars)
<1> TypeOK /\ ApprovalsOK
  BY DEF PayInv
<1>1. UNCHANGED <<cost, pc, card>>
  BY DEF ApproveStep, ApproveLookup, ApproveCheck, ApproveInsert, CrashApproval,
         SendApproval, rideVars
<1>2. CASE UNCHANGED newest
  BY <1>1, <1>2 DEF Contract!vars, debtOf, wasCharged, Unpaid
<1>3. CASE ApproveInsert(a) /\ newest' # newest
  <2>1. PICK r \in Rides : newest' = [newest EXCEPT ![r] = "offline"]
    BY <1>3 DEF ApproveInsert, ApprovalsOK
  <2>2. \A x \in Rides : x # r => UNCHANGED <<cost[x], pc[x], card[x], newest[x]>>
    BY <1>1, <2>1 DEF TypeOK
  <2>3. wasCharged'[r] = wasCharged[r]
    BY <1>1 DEF wasCharged
  <2>4. \/ debtOf'[r] = debtOf[r]
        \/ debtOf[r] = "owed" /\ debtOf'[r] = "settled"
    BY <1>1, <2>1 DEF debtOf, Unpaid, TypeOK
  <2> QED
    BY <2>2, <2>3, <2>4, ContractStep
<1> QED
  BY <1>2, <1>3 DEF ApproveStep, ApproveLookup, ApproveCheck, ApproveInsert,
     CrashApproval, SendApproval

LEMMA ContractInit == Init => Contract!Init
<1> SUFFICES ASSUME Init PROVE Contract!Init
  OBVIOUS
<1>1. debtOf = [x \in Rides |-> "open"]
  BY DEF Init, debtOf
<1>2. \A x \in Rides : (pc[x] \notin {"riding", "insert"}) = FALSE
  BY DEF Init
<1>3. wasCharged = [x \in Rides |-> FALSE]
  BY <1>2, Zenon DEF wasCharged
<1> QED
  BY <1>1, <1>3 DEF Contract!Init

LEMMA ContractNext == PayInv /\ [Next]_vars => [Contract!Next]_(Contract!vars)
<1> SUFFICES ASSUME PayInv, [Next]_vars PROVE [Contract!Next]_(Contract!vars)
  OBVIOUS
<1>1. CASE UNCHANGED vars
  BY <1>1 DEF vars, rideVars, Contract!vars, debtOf, wasCharged, Unpaid
<1> QED
  BY <1>1, RideContract, HookContract, ApproveContract DEF Next

\* Whatever order replies, webhooks, approvals and crashes come in, the debt
\* of a ride behaves as Rentals assumes.
THEOREM ContractKept == Spec => KeepsContract
  BY ContractInit, ContractNext, PaymentInvariant, PTL
     DEF Spec, KeepsContract, Contract!Spec
=============================================================================
