---------------------------- MODULE FaresProofs ----------------------------
(***************************************************************************)
(* The arithmetic of CalculateCost, for every tariff and duration, and the *)
(* safety of Fares for any number of price models and rides.               *)
(***************************************************************************)
EXTENDS Fares, TLAPS

-----------------------------------------------------------------------------
(* Arithmetic.                                                             *)

LEMMA DivBounds ==
  ASSUME NEW a \in Int, NEW b \in Int, b > 0
  PROVE  /\ a \div b \in Int
         /\ b * (a \div b) <= a
         /\ a < b * (a \div b) + b
BY Z3

LEMMA MulMono ==
  ASSUME NEW a \in Int, NEW x \in Int, NEW y \in Int, a >= 0, x <= y
  PROVE  a * x <= a * y
BY Z3

\* Rounding yields whole cents, at most half a cent away.
LEMMA RoundFacts ==
  ASSUME NEW a \in Nat
  PROVE  /\ Round(a) \in Nat
         /\ 2 * Round(a) <= 2 * a + Unit
         /\ 2 * a < 2 * Round(a) + Unit
         /\ \E cents \in 0..Round(a) : Round(a) = cents * Unit
<1> DEFINE q == (2 * a + Unit) \div (2 * Unit)
<1> USE NumbersAssumption
<1>1. /\ q \in Int
      /\ (2 * Unit) * q <= 2 * a + Unit
      /\ 2 * a + Unit < (2 * Unit) * q + 2 * Unit
  <2>1. 2 * a + Unit \in Int /\ 2 * Unit \in Int /\ 2 * Unit > 0
    OBVIOUS
  <2> QED BY ONLY <2>1, DivBounds
<1>2. (2 * Unit) * q = 2 * (Unit * q)
  BY <1>1, Z3
<1>3. Round(a) = Unit * q
  BY DEF Round
<1> HIDE DEF q
<1>4. q >= 0
  <2> SUFFICES ASSUME q <= -1 PROVE FALSE
    BY <1>1
  <2>1. Unit * q <= Unit * (-1)
    BY <1>1, MulMono
  <2>2. Unit * q \in Int
    BY <1>1
  <2> QED BY <2>1, <2>2, <1>1, <1>2
<1>5. q <= Unit * q
  <2>1. q * 1 <= q * Unit
    BY <1>1, <1>4, MulMono
  <2> QED BY <2>1, <1>1, Z3
<1>6. Unit * q \in Nat
  BY <1>1, <1>4, <1>5
<1>7. /\ 2 * Round(a) <= 2 * a + Unit
      /\ 2 * a < 2 * Round(a) + Unit
  BY <1>1, <1>2, <1>3, <1>6
<1>8. \E cents \in 0..Round(a) : Round(a) = cents * Unit
  <2>1. q \in 0..Round(a)
    BY <1>1, <1>3, <1>4, <1>5, <1>6
  <2>2. Round(a) = q * Unit
    BY <1>1, <1>3
  <2> QED BY <2>1, <2>2
<1> QED
  BY <1>3, <1>6, <1>7, <1>8

\* Whole cents are left as they are.
Whole(a) == \E cents \in Nat : a = cents * Unit

LEMMA RoundWhole ==
  ASSUME NEW a \in Nat, Whole(a)
  PROVE  Round(a) = a
<1> USE NumbersAssumption
<1>1. PICK k \in Nat : a = k * Unit
  BY DEF Whole
<1>2. PICK c \in 0..Round(a) : Round(a) = c * Unit
  BY RoundFacts
<1>3. /\ 2 * (c * Unit) <= 2 * (k * Unit) + Unit
      /\ 2 * (k * Unit) < 2 * (c * Unit) + Unit
  BY <1>1, <1>2, RoundFacts
<1>4. c \in Nat
  BY <1>2, RoundFacts
<1>5. c = k
  <2>1. CASE c < k
    <3>1. Unit * (c + 1) <= Unit * k
      BY <2>1, <1>4, MulMono
    <3> QED BY <3>1, <1>3, <1>4, Z3
  <2>2. CASE k < c
    <3>1. Unit * (k + 1) <= Unit * c
      BY <2>2, <1>4, MulMono
    <3> QED BY <3>1, <1>3, <1>4, Z3
  <2> QED BY <2>1, <2>2, <1>4
<1> QED BY <1>1, <1>2, <1>5

LEMMA RoundMono ==
  ASSUME NEW a \in Nat, NEW b \in Nat, a <= b
  PROVE  Round(a) <= Round(b)
<1> USE NumbersAssumption
<1>1. PICK c \in 0..Round(a) : Round(a) = c * Unit
  BY RoundFacts
<1>2. PICK d \in 0..Round(b) : Round(b) = d * Unit
  BY RoundFacts
<1>3. c \in Nat /\ d \in Nat
  BY <1>1, <1>2, RoundFacts
<1>4. /\ 2 * (c * Unit) <= 2 * a + Unit
      /\ 2 * b < 2 * (d * Unit) + Unit
  BY <1>1, <1>2, RoundFacts
<1>5. c <= d
  <2> SUFFICES ASSUME d + 1 <= c PROVE FALSE
    BY <1>3
  <2>1. Unit * (d + 1) <= Unit * c
    BY <1>3, MulMono
  <2> QED BY <2>1, <1>3, <1>4, Z3
<1>6. Unit * c <= Unit * d
  BY <1>3, <1>5, MulMono
<1> QED BY <1>1, <1>2, <1>3, <1>6, Z3

LEMMA MinutesFacts ==
  ASSUME NEW d \in Int
  PROVE  /\ Minutes(d) \in Nat
         /\ d >= 0 => Minutes(d) \in 0..d
         /\ Minutes(d) * Minute >= d
         /\ Minutes(d) > 0 => (Minutes(d) - 1) * Minute < d
<1> USE NumbersAssumption
<1>1. CASE d <= 0
  BY <1>1 DEF Minutes
<1>2. CASE d > 0
  <2> DEFINE q == (d + Minute - 1) \div Minute
  <2>1. /\ q \in Int
        /\ Minute * q <= d + Minute - 1
        /\ d + Minute - 1 < Minute * q + Minute
    BY <1>2, DivBounds
  <2>2. Minutes(d) = q
    BY <1>2 DEF Minutes
  <2> HIDE DEF q
  <2>3. q >= 1
    <3> SUFFICES ASSUME q <= 0 PROVE FALSE
      BY <2>1
    <3>1. Minute * q <= Minute * 0
      BY <2>1, MulMono
    <3> QED BY <3>1, <2>1, <1>2, Z3
  <2>4. q * Minute >= d
    BY <2>1, Z3
  <2>5. (q - 1) * Minute < d
    BY <2>1, Z3
  <2>6. q <= d
    <3>1. (q - 1) * 1 <= (q - 1) * Minute
      BY <2>1, <2>3, MulMono
    <3>2. (q - 1) * Minute \in Int
      BY <2>1
    <3> QED BY <3>1, <3>2, <2>1, <2>5
  <2> QED BY <2>1, <2>2, <2>3, <2>4, <2>5, <2>6
<1> QED BY <1>1, <1>2

LEMMA MinutesMono ==
  ASSUME NEW d \in Int, NEW e \in Int, d <= e
  PROVE  Minutes(d) <= Minutes(e)
<1> USE NumbersAssumption
<1> SUFFICES ASSUME Minutes(e) + 1 <= Minutes(d) PROVE FALSE
  BY MinutesFacts
<1>1. Minutes(d) \in Nat /\ Minutes(e) \in Nat
  BY MinutesFacts
<1>2. (Minutes(d) - 1) * Minute < d /\ Minutes(e) * Minute >= e
  BY <1>1, MinutesFacts
<1>3. Minute * Minutes(e) <= Minute * (Minutes(d) - 1)
  BY <1>1, MulMono
<1> QED BY <1>1, <1>2, <1>3, Z3
-----------------------------------------------------------------------------
(* Fares.                                                                  *)

\* The columns hold whole cents.
SoundTariff(t) == t \in Tariff /\ (t.cap # Nil => Whole(t.cap))

LEMMA FullNat ==
  ASSUME NEW t \in Tariff, NEW n \in Nat
  PROVE  t.fee + t.rate * n \in Nat
<1>1. t.fee \in Nat /\ t.rate \in Nat
  BY DEF Tariff
<1>2. t.rate * n \in Nat
  <2> DEFINE x == t.rate
  <2>1. x \in Nat /\ n \in Nat
    BY <1>1
  <2> HIDE DEF x
  <2>2. x * n \in Int
    BY <2>1
  <2>3. x * 0 <= x * n
    BY <2>1, MulMono
  <2>4. x * n \in Nat
    BY <2>1, <2>2, <2>3
  <2> QED BY <2>4 DEF x
<1> QED BY <1>1, <1>2

LEMMA CappedFacts ==
  ASSUME NEW t \in Tariff, NEW x \in Nat
  PROVE  /\ Capped(t, x) \in Nat
         /\ Capped(t, x) <= x
         /\ t.cap # Nil => Capped(t, x) <= t.cap
BY DEF Capped, Tariff

\* CalculateCost computes the fare the specification asks for, for every
\* tariff and every duration.
THEOREM CostIsFare ==
  ASSUME NEW t, SoundTariff(t), NEW d \in Nat
  PROVE  CalculateCost(t, d) \in Nat /\ IsFare(CalculateCost(t, d), t, d)
<1> USE NumbersAssumption
<1> DEFINE n == Minutes(d)
           full == t.fee + t.rate * n
           cost == CalculateCost(t, d)
<1>1. t \in Tariff
  BY DEF SoundTariff
<1>2. n \in Nat /\ n \in 0..d /\ n * Minute >= d
      /\ (n > 0 => (n - 1) * Minute < d)
  BY MinutesFacts
<1>3. full \in Nat
  BY <1>1, <1>2, FullNat
<1>4. cost = Round(Capped(t, full))
  BY DEF CalculateCost
<1>5. Capped(t, full) \in Nat
  BY <1>1, <1>3, CappedFacts
<1>6. cost \in Nat
  BY <1>4, <1>5, RoundFacts
<1> HIDE DEF n, full, cost
<1>7. ASSUME t.cap # Nil /\ full > t.cap PROVE IsFare(cost, t, d)
  <2>1. Capped(t, full) = t.cap
    BY <1>7 DEF Capped
  <2>2. cost = t.cap
    BY <2>1, <1>4, <1>5, <1>7, RoundWhole DEF SoundTariff
  <2> QED BY <1>2, <1>7, <2>2 DEF IsFare, full
<1>8. ASSUME ~(t.cap # Nil /\ full > t.cap) PROVE IsFare(cost, t, d)
  <2>1. Capped(t, full) = full
    BY <1>8 DEF Capped
  <2>2. /\ 2 * cost <= 2 * full + Unit
        /\ 2 * full < 2 * cost + Unit
        /\ \E cents \in 0..cost : cost = cents * Unit
    BY <2>1, <1>3, <1>4, RoundFacts
  <2> QED BY <1>2, <1>8, <2>2 DEF IsFare, full
<1>9. IsFare(cost, t, d)
  BY <1>7, <1>8
<1> QED BY <1>6, <1>9 DEF cost

\* A longer ride never costs less.
THEOREM CostMonotone ==
  ASSUME NEW t \in Tariff, NEW d \in Int, NEW e \in Int, d <= e
  PROVE  CalculateCost(t, d) <= CalculateCost(t, e)
<1> DEFINE x == t.rate * Minutes(d)
           y == t.rate * Minutes(e)
<1>1. Minutes(d) \in Nat /\ Minutes(e) \in Nat
  BY MinutesFacts
<1>2. t.fee \in Nat /\ t.rate \in Nat
  BY DEF Tariff
<1>3. t.rate >= 0 /\ t.rate \in Int /\ Minutes(d) \in Int /\ Minutes(e) \in Int
  BY <1>1, <1>2
<1>4. x <= y
  BY <1>3, MinutesMono, MulMono
<1>5. t.fee + x \in Nat /\ t.fee + y \in Nat
  BY <1>1, FullNat
<1>6. x \in Int /\ y \in Int
  BY <1>3
<1> HIDE DEF x, y
<1>7. t.fee + x <= t.fee + y
  BY <1>2, <1>4, <1>6
<1>8. Capped(t, t.fee + x) <= Capped(t, t.fee + y)
  BY <1>5, <1>7 DEF Capped, Tariff
<1>9. Capped(t, t.fee + x) \in Nat /\ Capped(t, t.fee + y) \in Nat
  BY <1>5, CappedFacts
<1> QED
  BY <1>8, <1>9, RoundMono DEF CalculateCost, x, y

\* The cap is a cap on the whole price, the unlock fee included.
THEOREM CostCapped ==
  ASSUME NEW t, SoundTariff(t), t.cap # Nil, NEW d \in Int
  PROVE  CalculateCost(t, d) <= t.cap
<1> DEFINE full == t.fee + t.rate * Minutes(d)
<1>1. t \in Tariff /\ Whole(t.cap) /\ t.cap \in Nat
  BY DEF SoundTariff, Tariff
<1>2. full \in Nat
  BY <1>1, MinutesFacts, FullNat
<1> HIDE DEF full
<1>3. Capped(t, full) \in Nat /\ Capped(t, full) <= t.cap
  BY <1>1, <1>2, CappedFacts
<1>4. Round(Capped(t, full)) <= Round(t.cap)
  BY <1>1, <1>3, RoundMono
<1>5. Round(t.cap) = t.cap
  BY <1>1, RoundWhole
<1> QED BY <1>4, <1>5 DEF CalculateCost, full

\* A tariff inside the bands cannot produce a total that overflows the
\* column total_cost before the given number of minutes has passed.
THEOREM InBandFits ==
  ASSUME NEW t \in Tariff, InBand(t.rate, t.fee), NEW d \in Int,
         NEW L \in Nat, Minutes(d) <= L,
         MaxFee + MaxRate * L + Unit <= MoneyLimit
  PROVE  CalculateCost(t, d) < MoneyLimit
<1> USE NumbersAssumption
<1> DEFINE n == Minutes(d)
           x == t.rate * n
           full == t.fee + x
<1>1. t.rate \in Nat /\ t.fee \in Nat /\ t.rate <= MaxRate /\ t.fee <= MaxFee
  BY DEF Tariff, InBand
<1>2. n \in Nat /\ full \in Nat
  BY MinutesFacts, FullNat
<1>3. Minutes(d) <= L /\ MaxFee + MaxRate * L + Unit <= MoneyLimit
  OBVIOUS
<1>4. x \in Int
  BY <1>1, <1>2
<1>5. x <= MaxRate * n
  <2> DEFINE w == t.rate
  <2>1. w \in Int /\ w <= MaxRate
    BY <1>1
  <2>2. n \in Int /\ n >= 0
    BY <1>2
  <2> HIDE DEF w, n
  <2>3. n * w <= n * MaxRate
    BY <2>1, <2>2, MulMono
  <2>4. w * n <= MaxRate * n
    BY <2>1, <2>2, <2>3, Z3
  <2> QED BY <2>4 DEF w
<1>6. MaxRate * n <= MaxRate * L
  BY <1>2, <1>3, MulMono
<1>7. MaxRate * n \in Int /\ MaxRate * L \in Int
  BY <1>2
<1> HIDE DEF n, x
<1>8. full + Unit <= MoneyLimit
  BY <1>1, <1>3, <1>4, <1>5, <1>6, <1>7
<1>9. Capped(t, full) \in Nat /\ Capped(t, full) <= full
  BY <1>2, CappedFacts
<1>10. CalculateCost(t, d) = Round(Capped(t, full))
  BY DEF CalculateCost, n, x
<1> HIDE DEF full
<1>11. /\ Round(Capped(t, full)) \in Nat
       /\ 2 * Round(Capped(t, full)) <= 2 * Capped(t, full) + Unit
  BY <1>9, RoundFacts
<1> QED BY <1>2, <1>8, <1>9, <1>10, <1>11
-----------------------------------------------------------------------------
(* What the requests write.                                                *)

LEMMA RoundIsWhole ==
  ASSUME NEW a \in Nat
  PROVE  Whole(Round(a))
BY RoundFacts DEF Whole

LEMMA StoredSound ==
  ASSUME NEW in \in CreateInput, NEW force \in BOOLEAN,
         CreateAccepted(in, force)
  PROVE  SoundTariff(Stored(in))
<1>1. /\ in.rate \in Nat /\ in.fee \in Nat
      /\ in.cap # Nil => in.cap \in Nat
  <2>1. /\ in.rate \in Amounts /\ in.fee \in Amounts
        /\ in.cap \in Amounts \cup {Nil}
    BY DEF CreateInput
  <2>2. in.rate \in Int /\ in.fee \in Int /\ (in.cap # Nil => in.cap \in Int)
    BY <2>1, NumbersAssumption
  <2>3. in.rate >= 0 /\ in.fee >= 0 /\ (in.cap # Nil => in.cap >= 0)
    BY DEF CreateAccepted, NotNegative
  <2> QED BY <2>2, <2>3
<1>2. Round(in.fee) \in Nat
  BY <1>1, RoundFacts
<1>3. ASSUME in.cap # Nil
      PROVE  Round(in.cap) \in Nat /\ Whole(Round(in.cap))
  BY <1>1, <1>3, RoundFacts, RoundIsWhole
<1> QED BY <1>1, <1>2, <1>3 DEF Stored, SoundTariff, Tariff

LEMMA PatchType ==
  ASSUME NEW raw \in RawBody, NEW force \in BOOLEAN,
         UpdateAccepted(PatchFrom(raw), force)
  PROVE  /\ PatchFrom(raw).rate \in Nat \cup {Nil}
         /\ PatchFrom(raw).fee \in Nat \cup {Nil}
         /\ PatchFrom(raw).cap \in Nat \cup {Nil}
         /\ PatchFrom(raw).capSet \in BOOLEAN
<1> DEFINE p == PatchFrom(raw)
<1>1. ASSUME NEW v PROVE DecimalFromAny(v) \in Amounts \cup {Nil}
  BY DEF DecimalFromAny
<1>2. /\ p.rate = DecimalFromAny(raw.rate) /\ p.fee = DecimalFromAny(raw.fee)
      /\ p.cap = DecimalFromAny(raw.cap) /\ p.capSet \in BOOLEAN
  BY DEF PatchFrom
<1> HIDE DEF p
<1>3. /\ p.rate \in Amounts \cup {Nil} /\ p.fee \in Amounts \cup {Nil}
      /\ p.cap \in Amounts \cup {Nil}
  BY <1>1, <1>2
<1>4. /\ p.rate # Nil => p.rate >= 0
      /\ p.fee # Nil => p.fee >= 0
      /\ p.cap # Nil => p.cap >= 0
  BY DEF UpdateAccepted, NotNegative, p
<1>5. \A v \in Amounts \cup {Nil} : v # Nil => v \in Int
  BY NumbersAssumption
<1>6. /\ p.rate \in Nat \cup {Nil} /\ p.fee \in Nat \cup {Nil}
      /\ p.cap \in Nat \cup {Nil}
  BY <1>3, <1>4, <1>5
<1> QED BY <1>2, <1>6 DEF p

LEMMA PatchedSound ==
  ASSUME NEW raw \in RawBody, NEW force \in BOOLEAN,
         UpdateAccepted(PatchFrom(raw), force),
         NEW row, SoundTariff(row)
  PROVE  SoundTariff(Patched(row, PatchFrom(raw)))
<1> DEFINE p == PatchFrom(raw)
<1>1. /\ p.rate \in Nat \cup {Nil} /\ p.fee \in Nat \cup {Nil}
      /\ p.cap \in Nat \cup {Nil} /\ p.capSet \in BOOLEAN
  BY PatchType
<1> HIDE DEF p
<1>2. p.fee # Nil => Round(p.fee) \in Nat
  BY <1>1, RoundFacts
<1>3. p.cap # Nil => Round(p.cap) \in Nat /\ Whole(Round(p.cap))
  BY <1>1, RoundFacts, RoundIsWhole
<1>4. SoundTariff(Patched(row, p))
  BY <1>1, <1>2, <1>3 DEF Patched, SoundTariff, Tariff
<1> QED BY <1>4 DEF p

-----------------------------------------------------------------------------
(* The inductive invariant.                                                *)

\* Every tariff in use was once a row of the table ...
TariffsSound ==
  /\ \A m \in PriceModels :
       priceModel[m] # Nil => m \in minted /\ SoundTariff(priceModel[m])
  /\ \A r \in Rides : call[r].tariff # Nil => SoundTariff(call[r].tariff)
  /\ \A r \in Rides : \A t \in offered[r] : SoundTariff(t)

\* ... an End that is under way holds one that was in force during its ride
\* as long as the ride is in progress ...
CallsSound ==
  \A r \in Rides :
    /\ call[r].pc = "insert" =>
         ride[r].status = "absent" /\ call[r].model \in PriceModels
    /\ call[r].pc = "end" =>
         /\ ride[r].status # "absent"
         /\ call[r].tariff # Nil
         /\ ride[r].status = "active" => call[r].tariff \in offered[r]

\* ... and so does a ride in progress.
RideSound(r) ==
  /\ ride[r].status # "absent" => ride[r].model \in PriceModels
  /\ ride[r].status = "active" =>
       /\ priceModel[ride[r].model] # Nil
       /\ priceModel[ride[r].model] \in offered[r]
       /\ ride[r].start <= clock
  /\ ride[r].status = "completed" =>
       \E t \in offered[r] :
         IsFare(ride[r].cost, t, ride[r].end - ride[r].start)

IInv == /\ TypeOK /\ TariffsSound /\ CallsSound
        /\ \A r \in Rides : RideSound(r)

LEMMA NilFacts == Nil \notin Tariff /\ Nil \notin PriceModels
BY SentinelsAssumption

LEMMA InitInv == Init => IInv /\ BandUnlessForced
<1> SUFFICES ASSUME Init PROVE IInv /\ BandUnlessForced
  OBVIOUS
<1>1. TypeOK
  BY DEF Init, TypeOK, NoRide, Idle, Statuses
<1>2. TariffsSound /\ CallsSound /\ \A r \in Rides : RideSound(r)
  BY DEF Init, TariffsSound, CallsSound, RideSound, NoRide, Idle
<1>3. BandUnlessForced
  BY DEF Init, BandUnlessForced
<1> QED BY <1>1, <1>2, <1>3 DEF IInv

LEMMA CreateInv ==
  ASSUME IInv, NEW m \in PriceModels, Create(m)
  PROVE  IInv'
<1> USE NilFacts
<1>1. PICK in \in CreateInput, force \in BOOLEAN :
        /\ CreateAccepted(in, force)
        /\ Edit
        /\ priceModel' = [priceModel EXCEPT ![m] = Stored(in)]
        /\ forced' = [forced EXCEPT ![m] =
                        IF force THEN {"rate", "fee"} ELSE {}]
  BY DEF Create
<1> DEFINE row == Stored(in)
<1>2. SoundTariff(row)
  BY <1>1, StoredSound
<1>3. /\ priceModel' = [priceModel EXCEPT ![m] = row]
      /\ minted' = minted \cup {m}
      /\ UNCHANGED <<ride, call, clock, offered>>
  BY <1>1 DEF Create
<1> HIDE DEF row
<1>4. TypeOK'
  <2>1. priceModel' \in [PriceModels -> Tariff \cup {Nil}]
    BY <1>2, <1>3 DEF IInv, TypeOK, SoundTariff
  <2>2. forced' \in [PriceModels -> SUBSET {"rate", "fee"}]
    BY <1>1 DEF IInv, TypeOK
  <2>3. edits' \in Nat
    BY <1>1 DEF IInv, TypeOK, Edit
  <2> QED BY <2>1, <2>2, <2>3, <1>3 DEF IInv, TypeOK
<1>5. TariffsSound'
  BY <1>2, <1>3 DEF IInv, TypeOK, TariffsSound
<1>6. CallsSound'
  BY <1>3 DEF IInv, CallsSound
<1>7. ASSUME NEW r \in Rides PROVE RideSound(r)'
  <2>1. RideSound(r)
    BY DEF IInv
  <2>2. ASSUME ride[r].status = "active", ride[r].model = m PROVE FALSE
    BY <2>1, <2>2 DEF IInv, TariffsSound, RideSound, Create
  <2> QED BY <2>1, <2>2, <1>3 DEF IInv, TypeOK, RideSound
<1> QED BY <1>4, <1>5, <1>6, <1>7 DEF IInv

LEMMA UpdateInv ==
  ASSUME IInv, NEW m \in PriceModels, Update(m)
  PROVE  IInv'
<1> USE NilFacts
<1>1. PICK raw \in RawBody, force \in BOOLEAN :
        LET patch == PatchFrom(raw)
            row   == Patched(priceModel[m], patch)
        IN /\ UpdateAccepted(patch, force)
           /\ Edit
           /\ priceModel' = [priceModel EXCEPT ![m] = row]
           /\ forced' = [forced EXCEPT ![m] =
                IF force THEN @ \cup Touched(patch) ELSE @ \ Touched(patch)]
           /\ offered' = [r \in Rides |->
                IF ride[r].status = "active" /\ ride[r].model = m
                THEN offered[r] \cup {row} ELSE offered[r]]
  BY DEF Update
<1>2. priceModel[m] # Nil /\ UNCHANGED <<minted, ride, call, clock>>
  BY DEF Update
<1> DEFINE row == Patched(priceModel[m], PatchFrom(raw))
<1>3. SoundTariff(row)
  BY <1>1, <1>2, PatchedSound DEF IInv, TariffsSound
<1>4. /\ priceModel' = [priceModel EXCEPT ![m] = row]
      /\ offered' = [r \in Rides |->
           IF ride[r].status = "active" /\ ride[r].model = m
           THEN offered[r] \cup {row} ELSE offered[r]]
  BY <1>1
<1> HIDE DEF row
<1>5. TypeOK'
  <2>1. priceModel' \in [PriceModels -> Tariff \cup {Nil}]
    BY <1>3, <1>4 DEF IInv, TypeOK, SoundTariff
  <2>2. forced' \in [PriceModels -> SUBSET {"rate", "fee"}]
    <3>1. Touched(PatchFrom(raw)) \subseteq {"rate", "fee"}
      BY DEF Touched
    <3> QED BY <1>1, <3>1 DEF IInv, TypeOK
  <2>3. edits' \in Nat
    BY <1>1 DEF IInv, TypeOK, Edit
  <2>4. offered' \in [Rides -> SUBSET Tariff]
    BY <1>3, <1>4 DEF IInv, TypeOK, SoundTariff
  <2> QED BY <2>1, <2>2, <2>3, <2>4, <1>2 DEF IInv, TypeOK
<1>6. TariffsSound'
  BY <1>2, <1>3, <1>4 DEF IInv, TypeOK, TariffsSound
<1>7. \A r \in Rides : offered[r] \subseteq offered'[r]
  BY <1>4
<1>8. CallsSound'
  BY <1>2, <1>7 DEF IInv, CallsSound
<1>9. ASSUME NEW r \in Rides PROVE RideSound(r)'
  <2>1. RideSound(r)
    BY DEF IInv
  <2>2. ASSUME ride[r].status = "active"
        PROVE  priceModel'[ride[r].model] # Nil
               /\ priceModel'[ride[r].model] \in offered'[r]
    <3>1. CASE ride[r].model = m
      BY <2>1, <2>2, <3>1, <1>3, <1>4 DEF IInv, TypeOK, RideSound, SoundTariff
    <3>2. CASE ride[r].model # m
      BY <2>1, <2>2, <3>2, <1>4, <1>7 DEF IInv, TypeOK, RideSound
    <3> QED BY <3>1, <3>2
  <2> QED BY <2>1, <2>2, <1>2, <1>7 DEF RideSound
<1> QED BY <1>5, <1>6, <1>8, <1>9 DEF IInv

LEMMA DeleteInv ==
  ASSUME IInv, NEW m \in PriceModels, Delete(m)
  PROVE  IInv'
<1> USE NilFacts
<1>1. /\ priceModel' = [priceModel EXCEPT ![m] = Nil]
      /\ forced' = [forced EXCEPT ![m] = {}]
      /\ Edit
      /\ UNCHANGED <<minted, ride, call, clock, offered>>
  BY DEF Delete
<1>2. TypeOK'
  <2>1. edits' \in Nat
    BY <1>1 DEF IInv, TypeOK, Edit
  <2> QED BY <1>1, <2>1 DEF IInv, TypeOK
<1>3. TariffsSound'
  BY <1>1 DEF IInv, TypeOK, TariffsSound
<1>4. CallsSound'
  BY <1>1 DEF IInv, CallsSound
<1>5. ASSUME NEW r \in Rides PROVE RideSound(r)'
  <2>1. ride[r].model # m
    BY DEF Delete, Referenced
  <2> QED BY <2>1, <1>1 DEF IInv, TypeOK, RideSound
<1> QED BY <1>2, <1>3, <1>4, <1>5 DEF IInv

LEMMA CallInv ==
  ASSUME IInv, NEW r \in Rides,
         \/ \E m \in PriceModels : StartReads(r, m)
         \/ EndReads(r) \/ Return(r)
  PROVE  IInv'
<1> USE NilFacts
<1>1. /\ UNCHANGED <<priceModel, minted, ride, clock, edits, forced, offered>>
      /\ \E pc \in {"idle", "insert", "end"},
            m \in PriceModels \cup {Nil}, t \in Tariff \cup {Nil} :
           /\ call' = [call EXCEPT ![r] =
                         [pc |-> pc, model |-> m, tariff |-> t]]
           /\ t # Nil => SoundTariff(t)
           /\ pc = "insert" => ride[r].status = "absent" /\ m \in PriceModels
           /\ pc = "end" =>
                /\ ride[r].status # "absent" /\ t # Nil
                /\ ride[r].status = "active" => t \in offered[r]
  <2>1. CASE \E m \in PriceModels : StartReads(r, m)
    BY <2>1 DEF StartReads
  <2>2. CASE EndReads(r)
    <3> DEFINE m == ride[r].model
    <3>1. /\ m \in PriceModels \cup {Nil}
          /\ UNCHANGED <<priceModel, minted, ride, clock, edits, forced,
                         offered>>
          /\ ride[r].status # "absent" /\ priceModel[m] # Nil
          /\ call' = [call EXCEPT ![r] =
               [pc |-> "end", model |-> m, tariff |-> priceModel[m]]]
      BY <2>2 DEF IInv, TypeOK, EndReads
    <3>2. m \in PriceModels
      BY <3>1 DEF IInv, RideSound
    <3>3. priceModel[m] \in Tariff /\ SoundTariff(priceModel[m])
      BY <3>1, <3>2 DEF IInv, TypeOK, TariffsSound
    <3>4. ride[r].status = "active" => priceModel[m] \in offered[r]
      BY DEF IInv, RideSound
    <3> HIDE DEF m
    <3> QED BY <3>1, <3>2, <3>3, <3>4
  <2>3. CASE Return(r)
    BY <2>3 DEF Return, Idle
  <2> QED BY <2>1, <2>2, <2>3
<1>2. TypeOK'
  BY <1>1 DEF IInv, TypeOK
<1>3. TariffsSound'
  BY <1>1 DEF IInv, TypeOK, TariffsSound
<1>4. CallsSound'
  BY <1>1 DEF IInv, TypeOK, CallsSound
<1>5. \A q \in Rides : RideSound(q)'
  BY <1>1 DEF IInv, RideSound
<1> QED BY <1>2, <1>3, <1>4, <1>5 DEF IInv

LEMMA StartInsertsInv ==
  ASSUME IInv, NEW r \in Rides, StartInserts(r)
  PROVE  IInv'
<1> USE NilFacts
<1> DEFINE m == call[r].model
           row == [NoRide EXCEPT !.status = "active", !.model = m,
                                 !.start = clock]
<1>1. /\ m \in PriceModels /\ priceModel[m] # Nil
      /\ ride' = [ride EXCEPT ![r] = row]
      /\ offered' = [offered EXCEPT ![r] = {priceModel[m]}]
      /\ call' = [call EXCEPT ![r] = Idle]
      /\ UNCHANGED <<priceModel, minted, clock, edits, forced>>
  BY DEF IInv, CallsSound, StartInserts
<1>2. /\ row.status = "active" /\ row.model = m /\ row.start = clock
      /\ row \in [status : Statuses, model : PriceModels \cup {Nil},
                  start : Nat, end : Nat, cost : Nat]
  BY <1>1 DEF NoRide, Statuses, IInv, TypeOK
<1>3. priceModel[m] \in Tariff /\ SoundTariff(priceModel[m])
  BY <1>1 DEF IInv, TypeOK, TariffsSound
<1> HIDE DEF m, row
<1>4. TypeOK'
  <2>1. ride' \in [Rides -> [status : Statuses, model : PriceModels \cup {Nil},
                             start : Nat, end : Nat, cost : Nat]]
    BY <1>1, <1>2 DEF IInv, TypeOK
  <2>2. call' \in [Rides -> [pc : {"idle", "insert", "end"},
                             model : PriceModels \cup {Nil},
                             tariff : Tariff \cup {Nil}]]
    BY <1>1 DEF IInv, TypeOK, Idle
  <2>3. offered' \in [Rides -> SUBSET Tariff]
    BY <1>1, <1>3 DEF IInv, TypeOK
  <2> QED BY <2>1, <2>2, <2>3, <1>1 DEF IInv, TypeOK
<1>5. TariffsSound'
  BY <1>1, <1>3 DEF IInv, TypeOK, TariffsSound, Idle
<1>6. CallsSound'
  BY <1>1, <1>2 DEF IInv, TypeOK, CallsSound, Idle
<1>7. ASSUME NEW q \in Rides PROVE RideSound(q)'
  <2>1. CASE q = r
    BY <2>1, <1>1, <1>2 DEF IInv, TypeOK, RideSound
  <2>2. CASE q # r
    <3>1. ride'[q] = ride[q] /\ offered'[q] = offered[q]
      BY <2>2, <1>1 DEF IInv, TypeOK
    <3> QED BY <3>1, <1>1 DEF IInv, RideSound
  <2> QED BY <2>1, <2>2
<1> QED BY <1>4, <1>5, <1>6, <1>7 DEF IInv

LEMMA EndClosesInv ==
  ASSUME IInv, NEW r \in Rides, EndCloses(r)
  PROVE  IInv'
<1> USE NilFacts
<1> DEFINE t == call[r].tariff
           d == clock - ride[r].start
           cost == CalculateCost(t, d)
<1>1. /\ call[r].pc = "end" /\ ride[r].status = "active"
      /\ ride' = [ride EXCEPT ![r].status = "completed",
                              ![r].end = clock, ![r].cost = cost]
      /\ call' = [call EXCEPT ![r] = Idle]
      /\ UNCHANGED <<priceModel, minted, clock, edits, forced, offered>>
  BY DEF EndCloses
<1>2. t \in offered[r] /\ SoundTariff(t)
  BY <1>1 DEF IInv, CallsSound, TariffsSound
<1>3. d \in Nat
  BY <1>1 DEF IInv, TypeOK, RideSound
<1>4. cost \in Nat /\ IsFare(cost, t, d)
  BY <1>2, <1>3, CostIsFare
<1> HIDE DEF t, cost
<1>5. /\ ride'[r].status = "completed" /\ ride'[r].cost = cost
      /\ ride'[r].end = clock /\ ride'[r].start = ride[r].start
      /\ ride'[r].model = ride[r].model
      /\ \A q \in Rides : q # r => ride'[q] = ride[q]
  BY <1>1 DEF IInv, TypeOK
<1> HIDE DEF d
<1>6. TypeOK'
  <2>1. ride' \in [Rides -> [status : Statuses, model : PriceModels \cup {Nil},
                             start : Nat, end : Nat, cost : Nat]]
    <3> DEFINE Row == [status : Statuses, model : PriceModels \cup {Nil},
                       start : Nat, end : Nat, cost : Nat]
    <3>1. ride \in [Rides -> Row] /\ clock \in Nat /\ "completed" \in Statuses
      BY DEF IInv, TypeOK, Statuses
    <3>2. [ride[r] EXCEPT !.status = "completed", !.end = clock,
                          !.cost = cost] \in Row
      BY <3>1, <1>4
    <3>3. ride' = [ride EXCEPT ![r] =
                     [ride[r] EXCEPT !.status = "completed", !.end = clock,
                                     !.cost = cost]]
      BY <1>1, <3>1
    <3> HIDE DEF Row
    <3>4. ride' \in [Rides -> Row]
      BY <3>1, <3>2, <3>3
    <3> QED BY <3>4 DEF Row
  <2>2. call' \in [Rides -> [pc : {"idle", "insert", "end"},
                             model : PriceModels \cup {Nil},
                             tariff : Tariff \cup {Nil}]]
    BY <1>1 DEF IInv, TypeOK, Idle
  <2> QED BY <2>1, <2>2, <1>1 DEF IInv, TypeOK
<1>7. TariffsSound'
  BY <1>1 DEF IInv, TypeOK, TariffsSound, Idle
<1>8. CallsSound'
  BY <1>1, <1>5 DEF IInv, TypeOK, CallsSound, Idle
<1>9. ASSUME NEW q \in Rides PROVE RideSound(q)'
  <2>1. CASE q = r
    <3>1. ride'[r].end - ride'[r].start = d
      BY <1>5 DEF d
    <3>2. ride'[r].model \in PriceModels
      BY <1>1, <1>5 DEF IInv, RideSound
    <3> QED BY <2>1, <3>1, <3>2, <1>1, <1>2, <1>4, <1>5 DEF RideSound
  <2>2. CASE q # r
    BY <2>2, <1>1, <1>5 DEF IInv, RideSound
  <2> QED BY <2>1, <2>2
<1> QED BY <1>6, <1>7, <1>8, <1>9 DEF IInv

LEMMA CancelInv ==
  ASSUME IInv, NEW r \in Rides, AdminCancel(r)
  PROVE  IInv'
<1> USE NilFacts
<1>1. /\ ride' = [ride EXCEPT ![r].status = "cancelled"]
      /\ ride[r].status = "active"
      /\ UNCHANGED <<priceModel, minted, call, clock, edits, forced, offered>>
  BY DEF AdminCancel
<1>2. /\ ride'[r].status = "cancelled" /\ ride'[r].model \in PriceModels
      /\ \A q \in Rides : q # r => ride'[q] = ride[q]
  BY <1>1 DEF IInv, TypeOK, RideSound
<1>3. TypeOK'
  BY <1>1 DEF IInv, TypeOK, Statuses
<1>4. TariffsSound'
  BY <1>1 DEF IInv, TariffsSound
<1>5. CallsSound'
  BY <1>1, <1>2 DEF IInv, CallsSound
<1>6. ASSUME NEW q \in Rides PROVE RideSound(q)'
  <2>1. CASE q = r
    BY <2>1, <1>2 DEF RideSound
  <2>2. CASE q # r
    BY <2>2, <1>1, <1>2 DEF IInv, RideSound
  <2> QED BY <2>1, <2>2
<1> QED BY <1>3, <1>4, <1>5, <1>6 DEF IInv

LEMMA TickInv ==
  ASSUME IInv, Tick
  PROVE  IInv'
<1>1. /\ clock' = clock + 1 /\ clock \in Nat
      /\ UNCHANGED <<priceModel, minted, ride, call, edits, forced, offered>>
  BY DEF IInv, TypeOK, Tick
<1>2. TypeOK' /\ TariffsSound' /\ CallsSound'
  BY <1>1 DEF IInv, TypeOK, TariffsSound, CallsSound
<1>3. ASSUME NEW r \in Rides PROVE RideSound(r)'
  <2>1. RideSound(r)
    BY DEF IInv
  <2>2. ride[r].start \in Nat
    BY DEF IInv, TypeOK
  <2> QED BY <1>1, <2>1, <2>2 DEF RideSound
<1> QED BY <1>2, <1>3 DEF IInv

LEMMA StutterInv ==
  ASSUME IInv, UNCHANGED vars
  PROVE  IInv'
BY DEF vars, IInv, TypeOK, TariffsSound, CallsSound, RideSound

LEMMA NextInv == IInv /\ [Next]_vars => IInv'
BY CreateInv, UpdateInv, DeleteInv, CallInv, StartInsertsInv, EndClosesInv,
   CancelInv, TickInv, StutterInv DEF Next

-----------------------------------------------------------------------------
(* The bands.                                                              *)

\* A fee inside its band is still inside when the column has rounded it.
LEMMA RoundInBand ==
  ASSUME NEW a \in Nat, a <= MaxFee
  PROVE  Round(a) <= MaxFee
<1>1. MaxFee \in Nat /\ Round(MaxFee) \in Nat /\ Round(a) \in Nat
  BY NumbersAssumption, RoundFacts
<1>2. Whole(MaxFee)
  <2>1. MaxFee = (MaxFee \div Unit) * Unit /\ MaxFee \div Unit \in Nat
    BY NumbersAssumption, Z3
  <2> QED BY <2>1 DEF Whole
<1>3. Round(a) <= Round(MaxFee) /\ Round(MaxFee) = MaxFee
  BY <1>1, <1>2, RoundMono, RoundWhole
<1> QED BY <1>3

LEMMA NextBand == IInv /\ BandUnlessForced /\ [Next]_vars => BandUnlessForced'
<1> SUFFICES ASSUME IInv, BandUnlessForced, [Next]_vars
             PROVE  BandUnlessForced'
  OBVIOUS
<1> USE NilFacts
<1>1. ASSUME NEW m \in PriceModels, Create(m) PROVE BandUnlessForced'
  <2>1. PICK in \in CreateInput, force \in BOOLEAN :
          /\ CreateAccepted(in, force)
          /\ priceModel' = [priceModel EXCEPT ![m] = Stored(in)]
          /\ forced' = [forced EXCEPT ![m] =
                          IF force THEN {"rate", "fee"} ELSE {}]
    BY <1>1 DEF Create
  <2>2. ~force => /\ Stored(in).rate \in MinRate..MaxRate
                  /\ Stored(in).fee <= MaxFee
    <3>1. in.rate \in Int /\ in.fee \in Int /\ in.rate >= 0 /\ in.fee >= 0
      BY <2>1, NumbersAssumption DEF CreateAccepted, CreateInput
    <3>2. ~force => /\ in.rate >= MinRate /\ in.rate <= MaxRate
                    /\ in.fee <= MaxFee
      BY <2>1 DEF CreateAccepted, InBand
    <3>3. in.fee <= MaxFee => Round(in.fee) <= MaxFee
      BY <3>1, RoundInBand
    <3> QED BY <3>1, <3>2, <3>3, NumbersAssumption DEF Stored
  <2> QED BY <2>1, <2>2 DEF IInv, TypeOK, BandUnlessForced
<1>2. ASSUME NEW m \in PriceModels, Update(m) PROVE BandUnlessForced'
  <2>1. PICK raw \in RawBody, force \in BOOLEAN :
          /\ UpdateAccepted(PatchFrom(raw), force)
          /\ priceModel' = [priceModel EXCEPT ![m] =
                              Patched(priceModel[m], PatchFrom(raw))]
          /\ forced' = [forced EXCEPT ![m] =
               IF force THEN @ \cup Touched(PatchFrom(raw))
                        ELSE @ \ Touched(PatchFrom(raw))]
    BY <1>2 DEF Update
  <2> DEFINE p == PatchFrom(raw)
             row == Patched(priceModel[m], p)
  <2>2. p.rate \in Nat \cup {Nil} /\ p.fee \in Nat \cup {Nil}
    BY <2>1, PatchType
  <2>3. /\ UpdateAccepted(p, force)
        /\ priceModel' = [priceModel EXCEPT ![m] = row]
        /\ forced' = [forced EXCEPT ![m] =
             IF force THEN @ \cup Touched(p) ELSE @ \ Touched(p)]
        /\ priceModel[m] # Nil
    BY <2>1, <1>2 DEF Update
  <2> HIDE DEF p
  <2>4. row.rate \in MinRate..MaxRate \/ "rate" \in forced'[m]
    BY <2>2, <2>3, NumbersAssumption
       DEF IInv, TypeOK, BandUnlessForced, UpdateAccepted, InBand, Patched,
           Touched
  <2>5. row.fee <= MaxFee \/ "fee" \in forced'[m]
    BY <2>2, <2>3, RoundInBand, SentinelsAssumption
       DEF IInv, TypeOK, BandUnlessForced, UpdateAccepted, InBand, Patched,
           Touched
  <2> HIDE DEF row
  <2>6. \A k \in PriceModels : k # m =>
          priceModel'[k] = priceModel[k] /\ forced'[k] = forced[k]
    BY <2>3 DEF IInv, TypeOK
  <2>7. priceModel'[m] = row
    BY <2>3 DEF IInv, TypeOK
  <2> QED BY <2>4, <2>5, <2>6, <2>7 DEF BandUnlessForced
<1>3. ASSUME NEW m \in PriceModels, Delete(m) PROVE BandUnlessForced'
  BY <1>3 DEF Delete, IInv, TypeOK, BandUnlessForced
<1>4. ASSUME UNCHANGED <<priceModel, forced>> PROVE BandUnlessForced'
  BY <1>4 DEF BandUnlessForced
<1> QED
  BY <1>1, <1>2, <1>3, <1>4
     DEF Next, vars, StartReads, StartInserts, EndReads, EndCloses, Return,
         AdminCancel, Tick
-----------------------------------------------------------------------------
LEMMA InvHolds == Spec => [](IInv /\ BandUnlessForced)
BY InitInv, NextInv, NextBand, PTL DEF Spec

\* Tariffs and costs stay amounts of money, whatever the requests carry.
THEOREM TypeCorrect == Spec => []TypeOK
<1>1. IInv => TypeOK
  BY DEF IInv
<1> QED BY <1>1, InvHolds, PTL

\* A ride in progress keeps its price model, and a completed ride was charged
\* the fare of one tariff that was in force while it lasted.
THEOREM RidesArePriced == Spec => []RidesPriced
<1>1. IInv => RidesPriced
  BY DEF IInv, RideSound, RidesPriced
<1> QED BY <1>1, InvHolds, PTL

\* Only force=true puts a price outside its band, though an Update looks at
\* no more than the columns it changes.
THEOREM BandIsKept == Spec => []BandUnlessForced
BY InvHolds, PTL
-----------------------------------------------------------------------------
(* Costs fit their column.                                                 *)

CapFits(t) == t # Nil /\ t.cap # Nil => t.cap < MoneyLimit

\* Every cap that is stored, or held by an End, fits the column of the costs.
CapsFit == /\ \A m \in PriceModels : CapFits(priceModel[m])
           /\ \A r \in Rides : CapFits(call[r].tariff)

LEMMA NextCapsFit == IInv /\ CapsFit /\ [Next]_vars => CapsFit'
<1> SUFFICES ASSUME IInv, CapsFit, [Next]_vars PROVE CapsFit'
  OBVIOUS
<1>1. ASSUME NEW m \in PriceModels, Create(m) PROVE CapsFit'
  <2>1. PICK in \in CreateInput :
          /\ Fits(Stored(in))
          /\ priceModel' = [priceModel EXCEPT ![m] = Stored(in)]
    BY <1>1 DEF Create
  <2>2. CapFits(Stored(in))
    BY <2>1 DEF Fits, CapFits
  <2> QED BY <1>1, <2>1, <2>2 DEF Create, CapsFit, IInv, TypeOK
<1>2. ASSUME NEW m \in PriceModels, Update(m) PROVE CapsFit'
  <2>1. PICK row : /\ Fits(row)
                   /\ priceModel' = [priceModel EXCEPT ![m] = row]
    BY <1>2 DEF Update
  <2>2. CapFits(row)
    BY <2>1 DEF Fits, CapFits
  <2> QED BY <1>2, <2>1, <2>2 DEF Update, CapsFit, IInv, TypeOK
<1>3. ASSUME NEW m \in PriceModels, Delete(m) PROVE CapsFit'
  BY <1>3 DEF Delete, CapsFit, CapFits, IInv, TypeOK
<1>4. ASSUME NEW r \in Rides, NEW m \in PriceModels, StartReads(r, m)
      PROVE  CapsFit'
  BY <1>4 DEF StartReads, CapsFit, CapFits, IInv, TypeOK
<1>5. ASSUME NEW r \in Rides, EndReads(r) PROVE CapsFit'
  <2>1. /\ ride[r].model \in PriceModels
        /\ call' = [call EXCEPT ![r] =
             [pc |-> "end", model |-> ride[r].model,
              tariff |-> priceModel[ride[r].model]]]
        /\ UNCHANGED priceModel
    BY <1>5 DEF EndReads, IInv, RideSound
  <2> QED BY <2>1 DEF CapsFit, IInv, TypeOK
<1>6. ASSUME NEW r \in Rides, StartInserts(r) \/ EndCloses(r) \/ Return(r)
      PROVE  CapsFit'
  <2>1. call' = [call EXCEPT ![r] = Idle] /\ UNCHANGED priceModel
    BY <1>6 DEF StartInserts, EndCloses, Return
  <2> QED BY <2>1 DEF CapsFit, CapFits, Idle, IInv, TypeOK
<1>7. CASE UNCHANGED <<priceModel, call>>
  BY <1>7 DEF CapsFit
<1> QED
  BY <1>1, <1>2, <1>3, <1>4, <1>5, <1>6, <1>7
     DEF Next, AdminCancel, Tick, vars

LEMMA InvEndsFit == IInv /\ CapsFit => EndsFit
<1> SUFFICES ASSUME IInv, CapsFit, NEW r \in Rides, call[r].pc = "end"
             PROVE  LET t       == call[r].tariff
                        minutes == Minutes(clock - ride[r].start)
                        short   == MaxFee + MaxRate * minutes + Unit <= MoneyLimit
                    IN (t.cap # Nil \/ (InBand(t.rate, t.fee) /\ short)) =>
                         CalculateCost(t, clock - ride[r].start) < MoneyLimit
  BY DEF EndsFit
<1> DEFINE t == call[r].tariff
           d == clock - ride[r].start
<1>1. t # Nil /\ SoundTariff(t) /\ t \in Tariff /\ d \in Int
  BY DEF IInv, CallsSound, TariffsSound, SoundTariff, TypeOK
<1>2. CapFits(t)
  BY DEF CapsFit
<1> HIDE DEF t, d
<1>3. CASE t.cap # Nil
  <2>1. CalculateCost(t, d) <= t.cap
    BY <1>1, <1>3, CostCapped
  <2>2. t.cap < MoneyLimit /\ t.cap \in Nat /\ MoneyLimit \in Nat
    BY <1>1, <1>2, <1>3, NumbersAssumption DEF CapFits, Tariff
  <2>3. CalculateCost(t, d) \in Int
    <3>1. t.fee + t.rate * Minutes(d) \in Nat
      BY <1>1, MinutesFacts, FullNat
    <3> QED BY <1>1, <3>1, CappedFacts, RoundFacts DEF CalculateCost
  <2> QED BY <2>1, <2>2, <2>3 DEF t, d
<1>4. CASE /\ InBand(t.rate, t.fee)
           /\ MaxFee + MaxRate * Minutes(d) + Unit <= MoneyLimit
  <2>1. Minutes(d) \in Nat /\ Minutes(d) <= Minutes(d)
    BY <1>1, MinutesFacts
  <2>2. CalculateCost(t, d) < MoneyLimit
    BY <1>1, <1>4, <2>1, InBandFits
  <2> QED BY <2>2 DEF t, d
<1> QED BY <1>3, <1>4 DEF t, d

\* With a cap, or with recommended prices and a ride that is not absurdly long,
\* a rider can always end the ride: the cost fits its column.
THEOREM CostsFitColumn == Spec => []EndsFit
<1>1. Init => CapsFit
  BY DEF Init, CapsFit, CapFits, Idle
<1> QED BY <1>1, NextCapsFit, InvEndsFit, InvHolds, PTL DEF Spec

-----------------------------------------------------------------------------
(* Fares implements RideLife.                                              *)

\* Two functions that differ at one argument at most.
LEMMA ExceptAt ==
  ASSUME NEW S, NEW f, NEW g, NEW r \in S,
         f = [x \in S |-> f[x]], g = [x \in S |-> g[x]],
         \A x \in S : x # r => g[x] = f[x]
  PROVE  g = [f EXCEPT ![r] = g[r]]
<1>1. [f EXCEPT ![r] = g[r]] = [x \in S |-> IF x = r THEN g[r] ELSE f[x]]
  OBVIOUS
<1>2. \A x \in S : g[x] = IF x = r THEN g[r] ELSE f[x]
  OBVIOUS
<1> QED BY <1>1, <1>2

LEMMA LifeViews ==
  /\ statusOf = [x \in Rides |-> statusOf[x]]
  /\ statusOf' = [x \in Rides |-> statusOf'[x]]
  /\ termsOf = [x \in Rides |-> termsOf[x]]
  /\ termsOf' = [x \in Rides |-> termsOf'[x]]
  /\ billOf = [x \in Rides |-> billOf[x]]
  /\ billOf' = [x \in Rides |-> billOf'[x]]
BY DEF statusOf, termsOf, billOf

\* Only three actions write a ride.
LEMMA RideWriters ==
  ASSUME [Next]_vars
  PROVE  \/ UNCHANGED ride
         \/ \E r \in Rides : StartInserts(r) \/ EndCloses(r) \/ AdminCancel(r)
BY DEF Next, Create, Update, Delete, StartReads, EndReads, Return, Tick, vars

\* Nothing is recorded of a ride before it starts.
AbsentRides ==
  \A r \in Rides : ride[r].status = "absent" => ride[r] = NoRide

LEMMA AbsentHolds == Spec => []AbsentRides
<1>1. Init => AbsentRides
  BY DEF Init, AbsentRides
<1>2. IInv /\ AbsentRides /\ [Next]_vars => AbsentRides'
  <2> SUFFICES ASSUME IInv, AbsentRides, NEW r \in Rides,
                      StartInserts(r) \/ EndCloses(r) \/ AdminCancel(r),
                      NEW x \in Rides, ride'[x].status = "absent"
               PROVE  ride'[x] = NoRide
    BY RideWriters DEF AbsentRides
  <2>1. ride'[r].status # "absent" /\ (x # r => ride'[x] = ride[x])
    <3>1. CASE StartInserts(r)
      BY <3>1 DEF StartInserts, IInv, TypeOK, NoRide
    <3>2. CASE EndCloses(r)
      <4> DEFINE cost == CalculateCost(call[r].tariff, clock - ride[r].start)
      <4>1. ride' = [ride EXCEPT ![r].status = "completed",
                                 ![r].end = clock, ![r].cost = cost]
        BY <3>2 DEF EndCloses
      <4> HIDE DEF cost
      <4> QED BY <4>1 DEF IInv, TypeOK
    <3>3. CASE AdminCancel(r)
      BY <3>3 DEF AdminCancel, IInv, TypeOK
    <3> QED BY <3>1, <3>2, <3>3
  <2> QED BY <2>1 DEF AbsentRides
<1> QED BY <1>1, <1>2, InvHolds, PTL DEF Spec

\* A step that changes one ride changes the views there only.
LEMMA LifeAtOne ==
  ASSUME NEW r \in Rides, \A x \in Rides : x # r => ride'[x] = ride[x]
  PROVE  /\ statusOf' = [statusOf EXCEPT ![r] = statusOf'[r]]
         /\ termsOf' = [termsOf EXCEPT ![r] = termsOf'[r]]
         /\ billOf' = [billOf EXCEPT ![r] = billOf'[r]]
         /\ termsOf'[r] = termsOf[r] => termsOf' = termsOf
         /\ billOf'[r] = billOf[r] => billOf' = billOf
<1>1. \A x \in Rides : x # r => /\ statusOf'[x] = statusOf[x]
                                /\ termsOf'[x] = termsOf[x]
                                /\ billOf'[x] = billOf[x]
  BY DEF statusOf, termsOf, billOf
<1>2. statusOf' = [statusOf EXCEPT ![r] = statusOf'[r]]
  BY <1>1, LifeViews, ExceptAt
<1>3. termsOf' = [termsOf EXCEPT ![r] = termsOf'[r]]
  BY <1>1, LifeViews, ExceptAt
<1>4. billOf' = [billOf EXCEPT ![r] = billOf'[r]]
  BY <1>1, LifeViews, ExceptAt
<1>5. termsOf'[r] = termsOf[r] => termsOf' = termsOf
  BY <1>1, LifeViews
<1>6. billOf'[r] = billOf[r] => billOf' = billOf
  BY <1>1, LifeViews
<1> QED BY <1>2, <1>3, <1>4, <1>5, <1>6

LEMMA StartIsStart ==
  ASSUME IInv, AbsentRides, NEW r \in Rides, StartInserts(r)
  PROVE  Life!Next
<1>1. /\ ride[r].status = "absent" /\ call[r].model \in PriceModels
      /\ clock \in Nat
  BY DEF StartInserts, IInv, CallsSound, TypeOK
<1>2. /\ ride'[r] = [NoRide EXCEPT !.status = "active",
                     !.model = call[r].model, !.start = clock]
      /\ \A x \in Rides : x # r => ride'[x] = ride[x]
  BY DEF StartInserts, IInv, TypeOK
<1>3. /\ ride'[r].status = "active" /\ ride'[r].model = call[r].model
      /\ ride'[r].start = clock /\ ride'[r].end = 0 /\ ride'[r].cost = 0
  BY <1>2 DEF NoRide
<1>4. ride[r].end = 0 /\ ride[r].cost = 0
  BY <1>1 DEF AbsentRides, NoRide
<1>5. statusOf[r] = "absent" /\ statusOf'[r] = "active"
  BY <1>1, <1>3 DEF statusOf
<1>6. termsOf'[r] \in PriceModels \X Nat /\ billOf'[r] = billOf[r]
  BY <1>1, <1>3, <1>4 DEF termsOf, billOf
<1> QED
  BY <1>2, <1>5, <1>6, LifeAtOne DEF Life!Next, Life!Start, Life!Move

LEMMA EndIsComplete ==
  ASSUME IInv, NEW r \in Rides, EndCloses(r)
  PROVE  Life!Next
<1> DEFINE cost == CalculateCost(call[r].tariff, clock - ride[r].start)
<1>1. /\ ride[r].status = "active" /\ clock \in Nat
      /\ ride' = [ride EXCEPT ![r].status = "completed",
                              ![r].end = clock, ![r].cost = cost]
  BY DEF EndCloses, IInv, TypeOK
<1>2. ride'[r] \in [status : Statuses, model : PriceModels \cup {Nil},
                    start : Nat, end : Nat, cost : Nat]
  BY EndClosesInv DEF IInv, TypeOK
<1> HIDE DEF cost
<1>3. /\ ride'[r].status = "completed" /\ ride'[r].model = ride[r].model
      /\ ride'[r].start = ride[r].start
      /\ \A x \in Rides : x # r => ride'[x] = ride[x]
  BY <1>1 DEF IInv, TypeOK
<1>4. statusOf[r] = "active" /\ statusOf'[r] = "completed"
  BY <1>1, <1>3 DEF statusOf
<1>5. termsOf'[r] = termsOf[r] /\ billOf'[r] \in Nat \X Nat
  BY <1>2, <1>3 DEF termsOf, billOf
<1> QED
  BY <1>3, <1>4, <1>5, LifeAtOne DEF Life!Next, Life!Complete, Life!Move

LEMMA CancelIsCancel ==
  ASSUME IInv, NEW r \in Rides, AdminCancel(r)
  PROVE  Life!Next
<1>1. /\ ride[r].status = "active" /\ ride'[r].status = "cancelled"
      /\ ride'[r].model = ride[r].model /\ ride'[r].start = ride[r].start
      /\ ride'[r].end = ride[r].end /\ ride'[r].cost = ride[r].cost
      /\ \A x \in Rides : x # r => ride'[x] = ride[x]
  BY DEF AdminCancel, IInv, TypeOK
<1>2. /\ statusOf[r] = "active" /\ statusOf'[r] = "cancelled"
      /\ termsOf'[r] = termsOf[r] /\ billOf'[r] = billOf[r]
  BY <1>1 DEF statusOf, termsOf, billOf
<1> QED
  BY <1>1, <1>2, LifeAtOne DEF Life!Next, Life!Cancel, Life!Move

LEMMA LifeNext ==
  IInv /\ AbsentRides /\ [Next]_vars => [Life!Next]_(Life!vars)
<1>1. ASSUME UNCHANGED ride PROVE UNCHANGED Life!vars
  BY <1>1 DEF Life!vars, statusOf, termsOf, billOf
<1> QED
  BY <1>1, RideWriters, StartIsStart, EndIsComplete, CancelIsCancel

LEMMA LifeInit == Init => Life!Init
BY DEF Init, NoRide, Life!Init, statusOf, termsOf, billOf

\* The price model and the start of a ride are fixed when it starts, its end
\* and its cost when it ends, whatever edits, cancellations and refused Ends
\* come between the statements of Start and End.
THEOREM ImplementsLife == Spec => ImplementsRideLife
BY LifeInit, LifeNext, InvHolds, AbsentHolds, PTL
   DEF Spec, ImplementsRideLife, Life!Spec
=============================================================================
