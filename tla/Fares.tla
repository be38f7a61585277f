------------------------------- MODULE Fares -------------------------------
(***************************************************************************)
(* Price models and what a ride costs: the administrators' endpoints for   *)
(* price models (handler, service, repository and SQL, one operator each)  *)
(* beside the riders' Start and End, which read a price model in one       *)
(* statement and use it in a later one.                                    *)
(*                                                                         *)
(* Amounts of money are integers in ten-thousandths, the scale of the      *)
(* column price_per_minute; the other columns hold whole cents.  Locks,    *)
(* scooters and payments of a ride are module Rentals; here a ride is what *)
(* its price depends on.                                                   *)
(***************************************************************************)
EXTENDS Integers

CONSTANTS PriceModels,  \* price model ids (never given out twice)
          Rides,        \* rental ids
          Amounts,      \* the numbers a request may carry
          Unit,         \* ten-thousandths in a cent: 100
          Minute,       \* clock ticks in a minute
          MinRate, MaxRate, MaxFee,  \* recommended bands
          UsualRate,    \* stands in for an untouched rate in the band check
          RateLimit,    \* first amount numeric(10,4) cannot hold
          MoneyLimit,   \* first amount numeric(10,2) cannot hold
          Nil,          \* SQL NULL, JSON null, a nil pointer
          Absent,       \* a key that is not in the JSON object
          Junk,         \* a JSON value that is no number
          MaxTime,      \* bound: the clock stops here
          MaxEdits      \* bound: changes of price models

ASSUME NumbersAssumption ==
  /\ Amounts \subseteq Int
  /\ Unit \in Nat \ {0} /\ Minute \in Nat \ {0}
  /\ MinRate \in Nat /\ MaxRate \in Nat /\ UsualRate \in MinRate..MaxRate
  /\ MaxFee \in Nat /\ MaxFee % Unit = 0
  /\ RateLimit \in Nat /\ MoneyLimit \in Nat
  /\ MaxTime \in Nat /\ MaxEdits \in Nat

\* A row of price_models.
Tariff == [rate : Nat, fee : Nat, cap : Nat \cup {Nil}]

ASSUME SentinelsAssumption ==
  /\ Nil \notin Int /\ Absent \notin Int /\ Junk \notin Int
  /\ Nil # Absent /\ Nil # Junk /\ Absent # Junk
  /\ Nil \notin PriceModels /\ Nil \notin Tariff

VARIABLES priceModel,  \* table price_models
          minted,      \* ids that have been given out
          ride,        \* table rentals, as far as the price goes
          call,        \* the Start or End in progress for a ride
          clock,
          edits,       \* bounds the number of changes
          forced,      \* history: columns last written with force=true
          offered      \* history: tariffs in force during a ride
vars == <<priceModel, minted, ride, call, clock, edits, forced, offered>>
-----------------------------------------------------------------------------
(* Pricing.                                                                *)

\* Minutes of a duration, rounded up; none for a negative one.
Minutes(duration) ==
  IF duration <= 0 THEN 0 ELSE (duration + Minute - 1) \div Minute

\* decimal.Round(2): to whole cents, halves away from zero.
Round(amount) == Unit * ((2 * amount + Unit) \div (2 * Unit))

Capped(pm, amount) ==
  IF pm.cap # Nil /\ amount > pm.cap THEN pm.cap ELSE amount

\* Mutant: the cap bounds the minutes only; the unlock fee comes on top.
CalculateCost_CapBeforeFee(pm, duration) ==
  Round(pm.fee + Capped(pm, pm.rate * Minutes(duration)))

CalculateCost(pm, duration) ==
  Round(Capped(pm, pm.fee + pm.rate * Minutes(duration)))
-----------------------------------------------------------------------------
(* Requests, and what the handlers make of them.                           *)

CreateInput == [rate : Amounts, fee : Amounts, cap : Amounts \cup {Nil}]
RawBody     == [rate : Amounts \cup {Absent, Nil, Junk},
                fee  : Amounts \cup {Absent, Nil, Junk},
                cap  : Amounts \cup {Absent, Nil, Junk}]

DecimalFromAny(v) == IF v \in Amounts THEN v ELSE Nil

\* A key that is absent, null or no number leaves its column alone, except
\* that daily_cap is cleared by whatever is there and is no number.
PatchFrom(raw) ==
  [rate   |-> DecimalFromAny(raw.rate),
   fee    |-> DecimalFromAny(raw.fee),
   capSet |-> raw.cap # Absent,
   cap    |-> DecimalFromAny(raw.cap)]

NotNegative(v) == v # Nil => v >= 0

InBand(rate, fee) == rate >= MinRate /\ rate <= MaxRate /\ fee <= MaxFee

CreateAccepted(in, force) ==
  /\ in.rate >= 0 /\ in.fee >= 0 /\ NotNegative(in.cap)
  /\ force \/ InBand(in.rate, in.fee)

\* Mutant: no band check when the patch leaves the rate alone.
UpdateAccepted_RateOnly(patch, force) ==
  /\ NotNegative(patch.rate) /\ NotNegative(patch.fee)
  /\ NotNegative(patch.cap)
  /\ ~force /\ patch.rate # Nil => InBand(patch.rate, 0)

\* Only the columns the patch touches are held against the band.
UpdateAccepted(patch, force) ==
  /\ NotNegative(patch.rate) /\ NotNegative(patch.fee)
  /\ NotNegative(patch.cap)
  /\ force \/ InBand(IF patch.rate = Nil THEN UsualRate ELSE patch.rate,
                     IF patch.fee = Nil THEN 0 ELSE patch.fee)

\* The columns round to their scale and refuse what does not fit.
Stored(in) == [rate |-> in.rate, fee |-> Round(in.fee),
               cap |-> IF in.cap = Nil THEN Nil ELSE Round(in.cap)]

Fits(row) == /\ row.rate < RateLimit /\ row.fee < MoneyLimit
             /\ row.cap # Nil => row.cap < MoneyLimit

\* UPDATE price_models SET ... COALESCE($n, column) ...
Patched(row, patch) ==
  [rate |-> IF patch.rate = Nil THEN row.rate ELSE patch.rate,
   fee  |-> IF patch.fee = Nil THEN row.fee ELSE Round(patch.fee),
   cap  |-> IF ~patch.capSet THEN row.cap
            ELSE IF patch.cap = Nil THEN Nil ELSE Round(patch.cap)]
-----------------------------------------------------------------------------
Idle    == [pc |-> "idle", model |-> Nil, tariff |-> Nil]
NoRide  == [status |-> "absent", model |-> Nil, start |-> 0, end |-> 0,
            cost |-> 0]

Init ==
  /\ priceModel = [m \in PriceModels |-> Nil] /\ minted = {}
  /\ ride = [r \in Rides |-> NoRide]
  /\ call = [r \in Rides |-> Idle]
  /\ clock = 0 /\ edits = 0
  /\ forced = [m \in PriceModels |-> {}]
  /\ offered = [r \in Rides |-> {}]

\* The bound on administrators' requests.
Edit == edits < MaxEdits /\ edits' = edits + 1

Create(m) ==
  /\ m \notin minted
  /\ Edit
  /\ \E in \in CreateInput, force \in BOOLEAN :
       /\ CreateAccepted(in, force)
       /\ Fits(Stored(in))
       /\ priceModel' = [priceModel EXCEPT ![m] = Stored(in)]
       /\ forced' = [forced EXCEPT ![m] =
                       IF force THEN {"rate", "fee"} ELSE {}]
  /\ minted' = minted \cup {m}
  /\ UNCHANGED <<ride, call, clock, offered>>

Touched(patch) == {c \in {"rate", "fee"} : patch[c] # Nil}

Update(m) ==
  /\ priceModel[m] # Nil
  /\ Edit
  /\ \E raw \in RawBody, force \in BOOLEAN :
       LET patch == PatchFrom(raw)
           row   == Patched(priceModel[m], patch)
       IN /\ UpdateAccepted(patch, force)
          /\ Fits(row)
          /\ priceModel' = [priceModel EXCEPT ![m] = row]
          /\ forced' = [forced EXCEPT ![m] =
               IF force THEN @ \cup Touched(patch) ELSE @ \ Touched(patch)]
          /\ offered' = [r \in Rides |->
               IF ride[r].status = "active" /\ ride[r].model = m
               THEN offered[r] \cup {row} ELSE offered[r]]
  /\ UNCHANGED <<minted, ride, call, clock>>

\* rentals.price_model_id REFERENCES price_models: rows of any status count.
Referenced(m) == \E r \in Rides : ride[r].model = m

Delete(m) ==
  /\ priceModel[m] # Nil
  /\ ~Referenced(m)
  /\ Edit
  /\ priceModel' = [priceModel EXCEPT ![m] = Nil]
  /\ forced' = [forced EXCEPT ![m] = {}]
  /\ UNCHANGED <<minted, ride, call, clock, offered>>
-----------------------------------------------------------------------------
(* Rides.                                                                  *)

\* Start makes sure that the price model exists ...
StartReads(r, m) ==
  /\ ride[r].status = "absent" /\ call[r].pc = "idle"
  /\ priceModel[m] # Nil
  /\ call' = [call EXCEPT ![r] =
                [pc |-> "insert", model |-> m, tariff |-> Nil]]
  /\ UNCHANGED <<priceModel, minted, ride, clock, edits, forced, offered>>

\* ... and inserts the ride some statements later.  The foreign key makes a
\* concurrent DELETE of the price model wait for the commit, so INSERT and
\* commit are one step towards this table.
StartInserts(r) ==
  /\ call[r].pc = "insert"
  /\ LET m == call[r].model
     IN /\ priceModel[m] # Nil
        /\ ride' = [ride EXCEPT ![r] =
             [NoRide EXCEPT !.status = "active", !.model = m,
                            !.start = clock]]
        /\ offered' = [offered EXCEPT ![r] = {priceModel[m]}]
  /\ call' = [call EXCEPT ![r] = Idle]
  /\ UNCHANGED <<priceModel, minted, clock, edits, forced>>

\* End reads the ride, whatever its status, and its price model ...
EndReads(r) ==
  /\ ride[r].status # "absent" /\ call[r].pc = "idle"
  /\ LET m == ride[r].model
     IN /\ priceModel[m] # Nil
        /\ call' = [call EXCEPT ![r] =
             [pc |-> "end", model |-> m, tariff |-> priceModel[m]]]
  /\ UNCHANGED <<priceModel, minted, ride, clock, edits, forced, offered>>

\* Mutant: the status is not checked again when the ride is closed.
EndCloses_AnyStatus(r) ==
  /\ call[r].pc = "end"
  /\ LET cost == CalculateCost(call[r].tariff, clock - ride[r].start)
     IN /\ cost < MoneyLimit
        /\ ride' = [ride EXCEPT ![r].status = "completed",
                                ![r].end = clock, ![r].cost = cost]
  /\ call' = [call EXCEPT ![r] = Idle]
  /\ UNCHANGED <<priceModel, minted, clock, edits, forced, offered>>

\* ... and closes the ride in a later transaction with the tariff it read.
\* total_cost is numeric(10,2): a cost that does not fit fails the UPDATE.
EndCloses(r) ==
  /\ call[r].pc = "end"
  /\ ride[r].status = "active"
  /\ LET cost == CalculateCost(call[r].tariff, clock - ride[r].start)
     IN /\ cost < MoneyLimit
        /\ ride' = [ride EXCEPT ![r].status = "completed",
                                ![r].end = clock, ![r].cost = cost]
  /\ call' = [call EXCEPT ![r] = Idle]
  /\ UNCHANGED <<priceModel, minted, clock, edits, forced, offered>>

\* A request that is refused or cut short has changed nothing.
Return(r) ==
  /\ call[r].pc # "idle"
  /\ call' = [call EXCEPT ![r] = Idle]
  /\ UNCHANGED <<priceModel, minted, ride, clock, edits, forced, offered>>

AdminCancel(r) ==
  /\ ride[r].status = "active"
  /\ ride' = [ride EXCEPT ![r].status = "cancelled"]
  /\ UNCHANGED <<priceModel, minted, call, clock, edits, forced, offered>>

Tick ==
  /\ clock < MaxTime
  /\ clock' = clock + 1
  /\ UNCHANGED <<priceModel, minted, ride, call, edits, forced, offered>>

Next ==
  \/ \E m \in PriceModels : Create(m) \/ Update(m) \/ Delete(m)
  \/ \E r \in Rides : \/ \E m \in PriceModels : StartReads(r, m)
                      \/ StartInserts(r) \/ EndReads(r) \/ EndCloses(r)
                      \/ Return(r) \/ AdminCancel(r)
  \/ Tick

Spec == Init /\ [][Next]_vars
-----------------------------------------------------------------------------
(* Properties.                                                             *)

Statuses == {"absent", "active", "completed", "cancelled"}

TypeOK ==
  /\ priceModel \in [PriceModels -> Tariff \cup {Nil}]
  /\ minted \subseteq PriceModels
  /\ ride \in [Rides -> [status : Statuses, model : PriceModels \cup {Nil},
                         start : Nat, end : Nat, cost : Nat]]
  /\ call \in [Rides -> [pc : {"idle", "insert", "end"},
                         model : PriceModels \cup {Nil},
                         tariff : Tariff \cup {Nil}]]
  /\ clock \in Nat /\ edits \in Nat
  /\ forced \in [PriceModels -> SUBSET {"rate", "fee"}]
  /\ offered \in [Rides -> SUBSET Tariff]

\* What a fare is, without saying how it is computed: the unlock fee and
\* every started minute, to the nearest cent, but never more than the cap.
IsFare(cost, t, duration) ==
  \E n \in 0..duration :
    LET full == t.fee + t.rate * n
    IN /\ n * Minute >= duration
       /\ n > 0 => (n - 1) * Minute < duration
       /\ IF t.cap # Nil /\ full > t.cap
          THEN cost = t.cap
          ELSE /\ \E cents \in 0..cost : cost = cents * Unit
               /\ 2 * cost <= 2 * full + Unit
               /\ 2 * full < 2 * cost + Unit

\* A ride in progress always finds its price model, however Starts race with
\* deletions (Service.End would fail for ever), and a completed ride was
\* charged the fare of one tariff that was in force while it lasted: never a
\* mixture of two, and never above its cap.
RidesPriced ==
  \A r \in Rides :
    /\ ride[r].status = "active" => priceModel[ride[r].model] # Nil
    /\ ride[r].status = "completed" =>
         \E t \in offered[r] :
           IsFare(ride[r].cost, t, ride[r].end - ride[r].start)

\* The guard against seeding errors (pricemodels.checkPricingBand): a column
\* is outside its band only if it was last written with force=true, although
\* an Update checks the columns it touches and no others.
BandUnlessForced ==
  \A m \in PriceModels : priceModel[m] # Nil =>
    /\ priceModel[m].rate \in MinRate..MaxRate \/ "rate" \in forced[m]
    /\ priceModel[m].fee <= MaxFee \/ "fee" \in forced[m]

\* total_cost is numeric(10,2), and an End whose cost does not fit is refused.
\* That cannot happen to a ride whose tariff has a cap, nor to one with both
\* prices in their bands, unless its minutes alone exceed the column at the
\* highest recommended rate.
EndsFit ==
  \A r \in Rides : call[r].pc = "end" =>
    LET t       == call[r].tariff
        minutes == Minutes(clock - ride[r].start)
        short   == MaxFee + MaxRate * minutes + Unit <= MoneyLimit
    IN (t.cap # Nil \/ (InBand(t.rate, t.fee) /\ short)) =>
         CalculateCost(t, clock - ride[r].start) < MoneyLimit
-----------------------------------------------------------------------------
\* The abstract view of the life of a ride.
statusOf == [r \in Rides |-> ride[r].status]
termsOf  == [r \in Rides |-> <<ride[r].model, ride[r].start>>]
billOf   == [r \in Rides |-> <<ride[r].end, ride[r].cost>>]

Life == INSTANCE RideLife WITH
          Terms <- PriceModels \X Nat, NoTerms <- <<Nil, 0>>,
          Bills <- Nat \X Nat, NoBill <- <<0, 0>>,
          status <- statusOf, terms <- termsOf, bill <- billOf

\* Fares implements RideLife: although End computes the cost from what it read
\* some statements earlier, a ride that was cancelled or completed meanwhile
\* keeps its end and its cost, and no edit of a price model reaches the terms
\* of a ride that has started.
ImplementsRideLife == Life!Spec
=============================================================================
