---------------------------- MODULE FleetProofs ----------------------------
(***************************************************************************)
(* What administrators, riders and clients of Fleet can rely on, for any   *)
(* number of zones, scooters, logs and rides and for every page size.      *)
(***************************************************************************)
EXTENDS Fleet, FiniteSetTheorems, TLAPS

-----------------------------------------------------------------------------
(* Lists.                                                                  *)

LEMMA ItemsFinite == IsFiniteSet(Items)
BY FleetAssumption, FS_Union DEF Items

LEMMA MatchingItems ==
  ASSUME NEW q \in Queries
  PROVE  Matching(q) \subseteq Items
BY DEF Queries, Matching, ZonesListed, ScootersListed, LogsListed, Items

LEMMA SubsetFinite ==
  ASSUME NEW S, S \subseteq Items
  PROVE  IsFiniteSet(S) /\ Cardinality(S) \in Nat
BY ItemsFinite, FS_Subset, FS_CardinalityType

LEMMA SubsetSmaller ==
  ASSUME NEW S, S \subseteq Items, NEW T, T \subseteq S
  PROVE  Cardinality(T) <= Cardinality(S)
BY SubsetFinite, FS_Subset

\* A row is not ahead of itself.
LEMMA AheadSmaller ==
  ASSUME NEW S, S \subseteq Items, NEW x \in S, born \in [Items -> Nat]
  PROVE  Cardinality(Ahead(S, x)) < Cardinality(S)
<1>1. born[x] \in Nat
  OBVIOUS
<1>2. x \notin Ahead(S, x)
  BY <1>1 DEF Ahead, Before
<1>3. Ahead(S, x) \subseteq S \ {x}
  BY <1>2 DEF Ahead
<1>4. /\ IsFiniteSet(S) /\ Cardinality(S) \in Nat
      /\ S \ {x} \subseteq Items
  BY SubsetFinite
<1>5. Cardinality(S \ {x}) = Cardinality(S) - 1
  BY <1>4, FS_RemoveElement
<1>6. Cardinality(Ahead(S, x)) <= Cardinality(S \ {x})
  BY <1>3, <1>4, SubsetSmaller
<1>7. Cardinality(Ahead(S, x)) \in Nat
  BY <1>3, <1>4, SubsetFinite
<1> QED BY <1>4, <1>5, <1>6, <1>7

\* One row leaves a list, from behind the cursor: what is behind the cursor
\* stays behind it, whatever is added and wherever.
LEMMA StaysBehind ==
  ASSUME NEW old, old \subseteq Items, NEW new, new \subseteq Items,
         born \in [Items -> Nat], born' \in [Items -> Nat],
         \A i \in old : born'[i] = born[i],
         NEW y, old \ {y} \subseteq new,
         NEW k \in Nat,
         y \in old \ new => Cardinality(Ahead(old, y)) >= k,
         NEW x \in old \cap new, Cardinality(Ahead(old, x)) >= k
  PROVE  Cardinality({i \in new : born'[i] > born'[x]}) >= k
<1> DEFINE A == Ahead(old, x)
           N == {i \in new : born'[i] > born'[x]}
<1>1. A \subseteq Items /\ N \subseteq Items
  BY DEF Ahead
<1>2. /\ IsFiniteSet(A) /\ Cardinality(A) \in Nat
      /\ IsFiniteSet(N) /\ Cardinality(N) \in Nat
  BY <1>1, SubsetFinite
<1>3. A \ {y} \subseteq N
  BY DEF Ahead, Before
<1>4. CASE y \in A /\ y \notin new
  <2> DEFINE B == Ahead(old, y)
  <2>1. y \in old /\ x \in Items /\ y \in Items /\ born[y] > born[x]
    BY <1>4 DEF Ahead, Before
  <2>2. B \subseteq A \ {y}
    BY <2>1 DEF Ahead, Before
  <2>3. Cardinality(B) >= k
    BY <1>4, <2>1
  <2>4. A \ {y} \subseteq Items /\ B \subseteq Items
    BY <1>1, <2>2
  <2>5. Cardinality(B) <= Cardinality(A \ {y})
    BY <2>2, <2>4, SubsetSmaller
  <2>6. Cardinality(A \ {y}) <= Cardinality(N)
    BY <1>1, <1>3, SubsetSmaller
  <2>7. Cardinality(B) \in Nat /\ Cardinality(A \ {y}) \in Nat
    BY <2>4, SubsetFinite
  <2> HIDE DEF A, B, N
  <2> QED BY <1>2, <2>3, <2>5, <2>6, <2>7 DEF N
<1>5. CASE ~(y \in A /\ y \notin new)
  <2>1. A \subseteq N
    BY <1>3, <1>5 DEF Ahead, Before
  <2>2. Cardinality(A) <= Cardinality(N)
    BY <1>1, <2>1, SubsetSmaller
  <2> HIDE DEF A, N
  <2> QED BY <1>2, <2>2 DEF N, A
<1> QED BY <1>4, <1>5

-----------------------------------------------------------------------------
(* The inductive invariant.                                                *)

\* Every row has a creation time, and points to rows that exist.
RowsSound ==
  /\ \A z \in Zones : zone[z] # Nil => born[z] # 0
  /\ \A s \in Scooters : scooter[s] # Nil => born[s] # 0
  /\ \A l \in Logs : log[l] # Nil => born[l] # 0
  /\ ZonesResolve

\* An End that has passed its check knows of every zone that forbids it,
\* except the ones it has not seen as they are.
EndsSound ==
  \A r \in Rides :
    parked[r] = "checked" /\ spot[r] # Nil =>
      \A z \in ZonesListed \ unchecked[r] : ~Forbids(z, spot[r])

\* What has matched all the time and was not sent is behind the cursor.
WalkSound ==
  /\ walking = "idle" => seen = {} /\ offset = 0
  /\ walking \in {"count", "rows"} =>
       /\ must \subseteq Matching(query)
       /\ ~slipped => \A x \in must \ seen :
                        Cardinality(Ahead(Matching(query), x)) >= offset
  /\ walking = "rows" /\ ~late => Cardinality(Matching(query)) <= total
  /\ PageWalkSeesAll

IInv == TypeOK /\ RowsSound /\ EndsSound /\ WalkSound

LEMMA NilFacts ==
  /\ Nil \notin Zones /\ Nil \notin Scooters /\ Nil \notin Logs
  /\ Nil \notin Places /\ Nil \notin Int
  /\ Nil \notin ZoneRow /\ Nil \notin ScooterRow /\ Nil \notin LogRow
BY NullAssumption

-----------------------------------------------------------------------------
(* A write and the walk that sees it.                                      *)

\* At most one row leaves a list, or all of them do.
Shrinks(q) == \/ \E y : Matching(q) \ {y} \subseteq Matching(q)'
              \/ Matching(q)' = {}

KeepsTimes == /\ born' \in [Items -> Nat]
              /\ \A q \in Queries : \A i \in Matching(q) : born'[i] = born[i]

LEMMA WriteKeepsWalk ==
  ASSUME IInv, WalkerNotices, KeepsTimes, \A q \in Queries : Shrinks(q)
  PROVE  WalkSound'
<1> DEFINE old == Matching(query)
           new == Matching(query)'
<1>1. /\ UNCHANGED <<walking, query, step, offset, total, seen>>
      /\ walking \in {"count", "rows"} =>
           /\ must' = must \cap new
           /\ slipped' = (slipped \/ \E x \in old \ new :
                            Cardinality(Ahead(old, x)) < offset)
           /\ late' = (late \/ (walking = "rows" /\ new \ old # {}))
      /\ walking \notin {"count", "rows"} => UNCHANGED <<must, slipped, late>>
  BY DEF WalkerNotices
<1>2. /\ query \in Queries /\ query' = query /\ offset \in Nat /\ total \in Nat
      /\ born \in [Items -> Nat] /\ WalkSound
  BY <1>1 DEF IInv, TypeOK
<1>3. old \subseteq Items /\ new \subseteq Items
  <2>1. old \subseteq Items
    BY <1>2, MatchingItems
  <2>2. new \subseteq Items
    BY <1>2 DEF Queries, Matching, ZonesListed, ScootersListed, LogsListed,
                Items
  <2> QED BY <2>1, <2>2
<1>4. /\ Shrinks(query) /\ born' \in [Items -> Nat]
      /\ \A i \in old : born'[i] = born[i]
  BY <1>2 DEF KeepsTimes
<1>5. PICK y : old \ {y} \subseteq new \/ new = {}
  BY <1>4 DEF Shrinks
<1> DEFINE rank(x) == Cardinality({i \in new : born'[i] > born'[x]})
<1>6. ASSUME walking \in {"count", "rows"}, ~slipped', NEW x \in must' \ seen'
      PROVE  rank(x) >= offset
  <2>1. /\ x \in old \cap new /\ x \in must \ seen /\ ~slipped
        /\ \A i \in old \ new : ~(Cardinality(Ahead(old, i)) < offset)
    BY <1>1, <1>2, <1>6 DEF WalkSound
  <2>2. Cardinality(Ahead(old, x)) >= offset
    BY <1>2, <1>6, <2>1 DEF WalkSound
  <2>3. y \in old \ new => Cardinality(Ahead(old, y)) >= offset
    <3> SUFFICES ASSUME y \in old \ new
                 PROVE  Cardinality(Ahead(old, y)) >= offset
      OBVIOUS
    <3>1. Ahead(old, y) \subseteq Items
      BY <1>3 DEF Ahead
    <3>2. Cardinality(Ahead(old, y)) \in Nat
      BY <3>1, SubsetFinite
    <3>3. ~(Cardinality(Ahead(old, y)) < offset)
      BY <2>1
    <3> HIDE DEF old, new
    <3> QED BY <3>2, <3>3, <1>2
  <2>4. old \ {y} \subseteq new
    BY <1>5, <2>1
  <2> HIDE DEF old, new
  <2> QED BY <1>2, <1>3, <1>4, <2>1, <2>2, <2>3, <2>4, StaysBehind
<1>7. ASSUME walking = "rows", ~late'
      PROVE  Cardinality(new) <= total
  <2>1. new \subseteq old /\ ~late
    BY <1>1, <1>7
  <2>2. Cardinality(new) <= Cardinality(old)
    BY <2>1, <1>3, SubsetSmaller
  <2>3. Cardinality(old) <= total
    BY <1>2, <1>7, <2>1 DEF WalkSound
  <2>4. Cardinality(old) \in Nat /\ Cardinality(new) \in Nat
    BY <1>3, SubsetFinite
  <2> HIDE DEF old, new
  <2> QED BY <2>2, <2>3, <2>4, <1>2
<1>8. walking \in {"count", "rows"} => must' \subseteq new
  BY <1>1
<1>9. ASSUME NEW x PROVE Cardinality(Ahead(Matching(query), x))' = rank(x)
  BY <1>2 DEF Ahead, Before
<1>10. walking = "idle" => seen' = {} /\ offset' = 0
  BY <1>1, <1>2 DEF WalkSound
<1>11. PageWalkSeesAll'
  BY <1>1, <1>2 DEF WalkSound, PageWalkSeesAll
<1> HIDE DEF rank, old
<1> QED
  BY <1>1, <1>6, <1>7, <1>8, <1>9, <1>10, <1>11 DEF WalkSound

-----------------------------------------------------------------------------
(* Administrators.                                                         *)

LEMMA Int32Type ==
  ASSUME NEW n \in Int
  PROVE  Int32(n) \in (-Half)..(Half - 1)
<1> USE FleetAssumption
<1> DEFINE m == n + Half
           d == 2 * Half
<1>1. m \in Int /\ d \in Int /\ d > 0
  OBVIOUS
<1> HIDE DEF m, d
<1>2. m % d \in 0..(d - 1)
  BY <1>1, Z3
<1> QED BY <1>2 DEF Int32, m, d

LEMMA NewZoneType ==
  ASSUME NEW req \in CreateZoneReq, NewZone(req).type \in ZoneTypes,
         ToColumns(NewZone(req)).radius > 0
  PROVE  ToColumns(NewZone(req)) \in ZoneRow
<1>1. req.center \in Places /\ req.radius \in Int /\ req.radius # Nil
  BY FleetAssumption, NilFacts DEF CreateZoneReq
<1>2. ToColumns(NewZone(req)) =
        [center |-> req.center, radius |-> Int32(req.radius),
         type |-> NewZone(req).type]
  BY <1>1 DEF NewZone, ToColumns
<1>3. Int32(req.radius) \in (-Half)..(Half - 1)
  BY <1>1, Int32Type
<1> DEFINE n == Int32(req.radius)
           t == NewZone(req).type
<1>4. n > 0 /\ n \in (-Half)..(Half - 1) /\ t \in ZoneTypes
  BY <1>2, <1>3
<1> HIDE DEF n, t
<1>5. n \in 1..(Half - 1)
  BY <1>4, FleetAssumption
<1>6. [center |-> req.center, radius |-> n, type |-> t] \in ZoneRow
  BY <1>1, <1>4, <1>5 DEF ZoneRow
<1> QED BY <1>2, <1>6 DEF n, t

LEMMA PatchedZoneType ==
  ASSUME NEW raw \in ZoneBody, NEW row \in ZoneRow,
         ZonePatchAccepted(ZonePatchFrom(raw)),
         PatchedZone(row, ToColumns(ZonePatchFrom(raw))).radius > 0
  PROVE  PatchedZone(row, ToColumns(ZonePatchFrom(raw))) \in ZoneRow
<1> DEFINE p == ZonePatchFrom(raw)
           c == ToColumns(p)
           new == PatchedZone(row, c)
<1>1. /\ row.center \in Places /\ row.radius \in 1..(Half - 1)
      /\ row.type \in ZoneTypes
  BY DEF ZoneRow
<1>2. /\ raw.center \in Places \cup {Absent, Junk}
      /\ raw.radius \in Radii \cup {Absent, Junk}
  BY DEF ZoneBody
<1>3. /\ p.center = Known(raw.center) /\ p.radius = Known(raw.radius)
      /\ p.type = Known(raw.type)
  BY DEF ZonePatchFrom
<1>4. /\ p.center # Nil => p.center \in Places
      /\ p.radius # Nil => p.radius \in Int
  BY <1>2, <1>3, FleetAssumption DEF Known
<1>5. p.type # Nil => p.type \in ZoneTypes
  BY DEF ZonePatchAccepted
<1>6. /\ c.center = p.center /\ c.type = p.type
      /\ c.radius = IF p.radius = Nil THEN Nil ELSE Int32(p.radius)
  BY DEF ToColumns, ZonePatchFrom
<1>7. /\ new.center = Coalesce(c.center, row.center)
      /\ new.radius = Coalesce(c.radius, row.radius)
      /\ new.type = Coalesce(c.type, row.type)
      /\ new = [center |-> new.center, radius |-> new.radius,
                type |-> new.type]
  BY DEF PatchedZone
<1>8. new.radius > 0
  OBVIOUS
<1> HIDE DEF p, c, new
<1>9. new.center \in Places /\ new.type \in ZoneTypes
  BY <1>1, <1>4, <1>5, <1>6, <1>7 DEF Coalesce
<1>10. new.radius \in 1..(Half - 1)
  <2>1. CASE c.radius = Nil
    BY <2>1, <1>1, <1>7 DEF Coalesce
  <2>2. CASE c.radius # Nil
    <3>1. p.radius \in Int /\ new.radius = Int32(p.radius)
      BY <2>2, <1>4, <1>6, <1>7 DEF Coalesce
    <3>2. new.radius \in (-Half)..(Half - 1)
      BY <3>1, Int32Type
    <3> QED BY <3>2, <1>8, FleetAssumption
  <2> QED BY <2>1, <2>2
<1>11. new \in ZoneRow
  BY <1>7, <1>9, <1>10 DEF ZoneRow
<1> QED BY <1>11 DEF p, c, new

\* The part of type correctness that histories have in every write.
LEMMA NoticeTypes ==
  ASSUME TypeOK, WalkerNotices
  PROVE  /\ walking' \in {"idle", "count", "rows", "done"}
         /\ query' \in Queries
         /\ step' \in Nat /\ offset' \in Nat /\ total' \in Nat
         /\ seen' \subseteq Items /\ must' \subseteq Items
         /\ slipped' \in BOOLEAN /\ late' \in BOOLEAN
BY DEF TypeOK, WalkerNotices

LEMMA InsertFacts ==
  ASSUME IInv, Write, NEW x \in Items, Insert(x)
  PROVE  /\ now' \in Nat
         /\ born[x] = 0 /\ born' \in [Items -> Nat] /\ born'[x] # 0
         /\ \A i \in Items : i # x => born'[i] = born[i]
         /\ x \in Zones => zone[x] = Nil
         /\ x \in Scooters => scooter[x] = Nil
         /\ x \in Logs => log[x] = Nil
         /\ KeepsTimes
<1>1. /\ born[x] = 0 /\ born' = [born EXCEPT ![x] = now + 1]
      /\ now \in Nat /\ now' = now + 1 /\ born \in [Items -> Nat]
  BY DEF Insert, Write, IInv, TypeOK
<1>2. /\ x \in Zones => zone[x] = Nil
      /\ x \in Scooters => scooter[x] = Nil
      /\ x \in Logs => log[x] = Nil
  BY <1>1 DEF IInv, RowsSound
<1>3. /\ born' \in [Items -> Nat] /\ born'[x] # 0
      /\ \A i \in Items : i # x => born'[i] = born[i]
  BY <1>1
<1>4. ASSUME NEW q \in Queries, NEW i \in Matching(q)
      PROVE  i \in Items /\ i # x
  <2>1. i \in Items
    BY MatchingItems
  <2> QED BY <2>1, <1>2 DEF Queries, Matching, ZonesListed, ScootersListed, LogsListed
<1> QED BY <1>1, <1>2, <1>3, <1>4 DEF KeepsTimes

LEMMA SameTimes ==
  ASSUME IInv, UNCHANGED born
  PROVE  KeepsTimes
BY DEF IInv, TypeOK, KeepsTimes

LEMMA ZoneWriteInv ==
  ASSUME IInv, NEW z \in Zones, NEW row \in ZoneRow,
         zone' = [zone EXCEPT ![z] = row],
         UNCHANGED <<scooter, log>>, EndsNotice(z)
  PROVE  /\ zone' \in [Zones -> ZoneRow \cup {Nil}]
         /\ unchecked' \in [Rides -> SUBSET Zones]
         /\ ZonesResolve'
         /\ EndsSound'
         /\ \A q \in Queries : Shrinks(q)
<1> USE NilFacts
<1>1. /\ zone \in [Zones -> ZoneRow \cup {Nil}]
      /\ unchecked \in [Rides -> SUBSET Zones]
      /\ \A r \in Rides : unchecked[r] \subseteq unchecked'[r]
      /\ \A r \in Rides : parked[r] = "checked" => z \in unchecked'[r]
      /\ UNCHANGED <<parked, spot>>
  BY DEF IInv, TypeOK, EndsNotice
<1>2. /\ zone' \in [Zones -> ZoneRow \cup {Nil}]
      /\ unchecked' \in [Rides -> SUBSET Zones]
  BY <1>1 DEF EndsNotice
<1>3. /\ zone'[z] # Nil
      /\ \A y \in Zones : y # z => zone'[y] = zone[y]
  BY <1>1
<1>4. ZonesListed \subseteq ZonesListed'
  BY <1>3 DEF ZonesListed
<1>5. ZonesResolve'
  BY <1>4 DEF IInv, RowsSound, ZonesResolve, ZoneExists
<1>6. EndsSound'
  BY <1>1, <1>3 DEF IInv, EndsSound, ZonesListed, Forbids
<1>7. ASSUME NEW q \in Queries PROVE Shrinks(q)
  <2>1. Matching(q) \subseteq Matching(q)'
    BY <1>4 DEF Queries, Matching, ScootersListed, LogsListed
  <2> QED BY <2>1 DEF Shrinks
<1> QED BY <1>2, <1>5, <1>6, <1>7

LEMMA CreateZoneInv ==
  ASSUME IInv, NEW z \in Zones, CreateZone(z)
  PROVE  IInv'
<1>1. PICK req \in CreateZoneReq :
        /\ NewZone(req).type \in ZoneTypes
        /\ ToColumns(NewZone(req)).radius > 0
        /\ zone' = [zone EXCEPT ![z] = ToColumns(NewZone(req))]
        /\ Insert(z)
  BY DEF CreateZone, InsertZone
<1>2. /\ Write /\ UNCHANGED <<scooter, log>>
      /\ EndsNotice(z) /\ WalkerNotices
  BY DEF CreateZone
<1> DEFINE row == ToColumns(NewZone(req))
<1>3. row \in ZoneRow
  BY <1>1, NewZoneType
<1>4. zone' = [zone EXCEPT ![z] = row]
  BY <1>1
<1> HIDE DEF row
<1>5. /\ zone' \in [Zones -> ZoneRow \cup {Nil}]
      /\ unchecked' \in [Rides -> SUBSET Zones]
      /\ ZonesResolve' /\ EndsSound'
      /\ \A q \in Queries : Shrinks(q)
  BY <1>2, <1>3, <1>4, ZoneWriteInv
<1>6. /\ now' \in Nat /\ born' \in [Items -> Nat] /\ born'[z] # 0
      /\ \A i \in Items : i # z => born'[i] = born[i]
      /\ KeepsTimes
  BY <1>1, <1>2, InsertFacts DEF Items
<1>7. TypeOK'
  BY <1>2, <1>5, <1>6, NoticeTypes DEF IInv, TypeOK, EndsNotice
<1>8. RowsSound'
  BY <1>2, <1>4, <1>5, <1>6 DEF IInv, TypeOK, RowsSound, Items
<1> QED BY <1>2, <1>5, <1>6, <1>7, <1>8, WriteKeepsWalk DEF IInv

LEMMA UpdateZoneInv ==
  ASSUME IInv, NEW z \in Zones, UpdateZone(z)
  PROVE  IInv'
<1>1. PICK raw \in ZoneBody :
        /\ ZonePatchAccepted(ZonePatchFrom(raw))
        /\ PatchedZone(zone[z], ToColumns(ZonePatchFrom(raw))).radius > 0
        /\ zone' = [zone EXCEPT ![z] =
             PatchedZone(zone[z], ToColumns(ZonePatchFrom(raw)))]
  BY DEF UpdateZone
<1>2. /\ Write /\ UNCHANGED <<scooter, log, born>> /\ zone[z] # Nil
      /\ EndsNotice(z) /\ WalkerNotices
  BY DEF UpdateZone
<1> DEFINE row == PatchedZone(zone[z], ToColumns(ZonePatchFrom(raw)))
<1>3. zone[z] \in ZoneRow
  BY <1>2 DEF IInv, TypeOK
<1>4. row \in ZoneRow
  BY <1>1, <1>3, PatchedZoneType
<1>5. zone' = [zone EXCEPT ![z] = row]
  BY <1>1
<1> HIDE DEF row
<1>6. /\ zone' \in [Zones -> ZoneRow \cup {Nil}]
      /\ unchecked' \in [Rides -> SUBSET Zones]
      /\ ZonesResolve' /\ EndsSound'
      /\ \A q \in Queries : Shrinks(q)
  BY <1>2, <1>4, <1>5, ZoneWriteInv
<1>7. TypeOK'
  BY <1>2, <1>6, NoticeTypes DEF IInv, TypeOK, EndsNotice, Write
<1>8. RowsSound'
  BY <1>2, <1>5, <1>6 DEF IInv, TypeOK, RowsSound, Items
<1> QED BY <1>2, <1>6, <1>7, <1>8, SameTimes, WriteKeepsWalk DEF IInv

LEMMA DeleteZoneInv ==
  ASSUME IInv, NEW z \in Zones, DeleteZone(z)
  PROVE  IInv'
<1> USE NilFacts
<1>1. /\ Write /\ zone' = [zone EXCEPT ![z] = Nil]
      /\ scooter' = Unzoned(z)
      /\ UNCHANGED <<log, born>> /\ UNCHANGED ends /\ WalkerNotices
  BY DEF DeleteZone
<1>2. /\ zone' \in [Zones -> ZoneRow \cup {Nil}] /\ zone'[z] = Nil
      /\ \A y \in Zones : y # z => zone'[y] = zone[y]
  BY <1>1 DEF IInv, TypeOK
<1>3. ASSUME NEW s \in Scooters
      PROVE  /\ scooter[s] = Nil => scooter'[s] = Nil
             /\ scooter[s] # Nil =>
                  /\ scooter'[s] \in ScooterRow
                  /\ scooter'[s].live = scooter[s].live
                  /\ scooter'[s].zone =
                       IF scooter[s].zone = z THEN Nil ELSE scooter[s].zone
  BY <1>1 DEF IInv, TypeOK, Unzoned, ScooterRow
<1>4. scooter' \in [Scooters -> ScooterRow \cup {Nil}]
  <2>1. scooter' = [s \in Scooters |-> scooter'[s]]
    BY <1>1 DEF Unzoned
  <2> QED BY <1>3, <2>1
<1>5. TypeOK'
  BY <1>1, <1>2, <1>4, NoticeTypes DEF IInv, TypeOK, Write, ends
<1>6. RowsSound'
  <2>1. ZonesResolve'
    BY <1>2, <1>3 DEF IInv, RowsSound, ZonesResolve, ZoneExists, ZonesListed
  <2> QED BY <2>1, <1>1, <1>2, <1>3 DEF IInv, RowsSound
<1>7. EndsSound'
  BY <1>1, <1>2 DEF IInv, EndsSound, ends, ZonesListed, Forbids
<1>8. ASSUME NEW q \in Queries PROVE Shrinks(q)
  <2>1. CASE q.of = "zones"
    <3>1. Matching(q) \ {z} \subseteq Matching(q)'
      BY <2>1, <1>2 DEF Matching, ZonesListed
    <3> QED BY <3>1 DEF Shrinks
  <2>2. CASE q.of = "logs"
    <3>1. Matching(q) \ {z} \subseteq Matching(q)'
      BY <2>2, <1>1 DEF Matching, LogsListed
    <3> QED BY <3>1 DEF Shrinks
  <2>3. CASE q.of = "scooters" /\ q.key = z
    <3>1. Matching(q)' = {}
      BY <2>3, <1>3 DEF Matching, ScootersListed
    <3> QED BY <3>1 DEF Shrinks
  <2>4. CASE q.of = "scooters" /\ q.key # z
    <3>1. Matching(q) \ {z} \subseteq Matching(q)'
      BY <2>4, <1>3 DEF Matching, ScootersListed
    <3> QED BY <3>1 DEF Shrinks
  <2> QED BY <2>1, <2>2, <2>3, <2>4 DEF Queries
<1> QED BY <1>1, <1>5, <1>6, <1>7, <1>8, SameTimes, WriteKeepsWalk DEF IInv

LEMMA ScooterWriteInv ==
  ASSUME IInv, Write, WalkerNotices, UNCHANGED <<zone, log>>, UNCHANGED ends,
         NEW s \in Scooters, NEW row \in ScooterRow, ZoneExists(row.zone),
         scooter' = [scooter EXCEPT ![s] = row],
         KeepsTimes, born'[s] # 0,
         \A i \in Items : i # s => born'[i] = born[i]
  PROVE  IInv'
<1> USE NilFacts
<1>1. /\ scooter' \in [Scooters -> ScooterRow \cup {Nil}]
      /\ scooter'[s] = row
      /\ \A x \in Scooters : x # s => scooter'[x] = scooter[x]
  BY DEF IInv, TypeOK
<1>2. TypeOK'
  BY <1>1, NoticeTypes DEF IInv, TypeOK, Write, ends, KeepsTimes
<1>3. RowsSound'
  <2>1. ZonesResolve'
    BY <1>1 DEF IInv, RowsSound, ZonesResolve, ZoneExists, ZonesListed
  <2>2. s \notin Zones /\ s \notin Logs
    BY NullAssumption
  <2> QED BY <2>1, <2>2, <1>1 DEF IInv, RowsSound, Items
<1>4. EndsSound'
  BY DEF IInv, EndsSound, ends, ZonesListed, Forbids
<1>5. ASSUME NEW q \in Queries PROVE Shrinks(q)
  <2>1. Matching(q) \ {s} \subseteq Matching(q)'
    BY <1>1 DEF Queries, Matching, ZonesListed, ScootersListed, LogsListed
  <2> QED BY <2>1 DEF Shrinks
<1> QED BY <1>2, <1>3, <1>4, <1>5, WriteKeepsWalk DEF IInv

LEMMA CreateScooterInv ==
  ASSUME IInv, NEW s \in Scooters, CreateScooter(s)
  PROVE  IInv'
<1>1. PICK z \in Zones \cup {Nil} :
        /\ ZoneExists(z)
        /\ scooter' = [scooter EXCEPT ![s] = [live |-> TRUE, zone |-> z]]
  BY DEF CreateScooter
<1>2. /\ Write /\ Insert(s) /\ UNCHANGED <<zone, log>>
      /\ UNCHANGED ends /\ WalkerNotices
  BY DEF CreateScooter
<1>3. /\ KeepsTimes /\ born'[s] # 0
      /\ \A i \in Items : i # s => born'[i] = born[i]
  BY <1>2, InsertFacts DEF Items
<1> DEFINE row == [live |-> TRUE, zone |-> z]
<1>4. row \in ScooterRow /\ ZoneExists(row.zone)
  BY <1>1 DEF ScooterRow
<1> QED BY <1>1, <1>2, <1>3, <1>4, ScooterWriteInv

LEMMA SameTimesWrite ==
  ASSUME IInv, UNCHANGED born, NEW s \in Scooters, scooter[s] # Nil
  PROVE  KeepsTimes /\ born'[s] # 0 /\ \A i \in Items : born'[i] = born[i]
BY SameTimes DEF IInv, RowsSound

LEMMA UpdateScooterInv ==
  ASSUME IInv, NEW s \in Scooters, UpdateScooter(s)
  PROVE  IInv'
<1>1. PICK raw \in ZoneIdBody \ {Odd} :
        /\ ZoneExists(ScooterPatchFrom(raw).zone)
        /\ scooter' = [scooter EXCEPT ![s] =
                         PatchedScooter(@, ScooterPatchFrom(raw))]
  BY DEF UpdateScooter
<1>2. /\ Write /\ UNCHANGED <<zone, log, born>> /\ scooter[s] # Nil
      /\ UNCHANGED ends /\ WalkerNotices
  BY DEF UpdateScooter, IsLive
<1> DEFINE row == PatchedScooter(scooter[s], ScooterPatchFrom(raw))
<1>3. /\ scooter[s] \in ScooterRow /\ ZoneExists(scooter[s].zone)
      /\ scooter \in [Scooters -> ScooterRow \cup {Nil}]
  BY <1>2 DEF IInv, TypeOK, RowsSound, ZonesResolve
<1>4. ScooterPatchFrom(raw).zone \in Zones \cup {Nil}
  BY DEF ScooterPatchFrom
<1>5. row \in ScooterRow /\ ZoneExists(row.zone)
  BY <1>1, <1>3, <1>4 DEF PatchedScooter, ScooterRow
<1>6. scooter' = [scooter EXCEPT ![s] = row]
  BY <1>1, <1>3
<1> HIDE DEF row
<1> QED BY <1>2, <1>5, <1>6, SameTimesWrite, ScooterWriteInv

LEMMA RetireScooterInv ==
  ASSUME IInv, NEW s \in Scooters, RetireScooter(s)
  PROVE  IInv'
<1>1. /\ scooter' = [scooter EXCEPT ![s].live = FALSE]
      /\ Write /\ UNCHANGED <<zone, log, born>> /\ scooter[s] # Nil
      /\ UNCHANGED ends /\ WalkerNotices
  BY DEF RetireScooter, IsLive
<1> DEFINE row == [scooter[s] EXCEPT !.live = FALSE]
<1>2. /\ scooter[s] \in ScooterRow /\ ZoneExists(scooter[s].zone)
      /\ scooter \in [Scooters -> ScooterRow \cup {Nil}]
  BY <1>1 DEF IInv, TypeOK, RowsSound, ZonesResolve
<1>3. row \in ScooterRow /\ ZoneExists(row.zone)
  BY <1>2 DEF ScooterRow
<1>4. scooter' = [scooter EXCEPT ![s] = row]
  BY <1>1, <1>2
<1> HIDE DEF row
<1> QED BY <1>1, <1>3, <1>4, SameTimesWrite, ScooterWriteInv

LEMMA OpenMaintenanceInv ==
  ASSUME IInv, NEW l \in Logs, NEW s \in Scooters, OpenMaintenance(l, s)
  PROVE  IInv'
<1> USE NilFacts
<1> DEFINE row == [scooter |-> s, status |-> "open"]
<1>1. /\ Write /\ Insert(l) /\ log' = [log EXCEPT ![l] = row]
      /\ UNCHANGED <<zone, scooter>> /\ UNCHANGED ends /\ WalkerNotices
  BY DEF OpenMaintenance
<1>2. row \in LogRow
  BY DEF LogRow
<1> HIDE DEF row
<1>3. /\ KeepsTimes /\ born' \in [Items -> Nat] /\ born'[l] # 0
      /\ log[l] = Nil /\ now' \in Nat
      /\ \A i \in Items : i # l => born'[i] = born[i]
  BY <1>1, InsertFacts DEF Items
<1>4. /\ log' \in [Logs -> LogRow \cup {Nil}] /\ log'[l] = row
      /\ \A x \in Logs : x # l => log'[x] = log[x]
  BY <1>1, <1>2 DEF IInv, TypeOK
<1>5. TypeOK'
  BY <1>1, <1>3, <1>4, NoticeTypes DEF IInv, TypeOK, ends
<1>6. RowsSound'
  <2>1. l \notin Zones /\ l \notin Scooters
    BY NullAssumption
  <2>2. ZonesResolve'
    BY <1>1 DEF IInv, RowsSound, ZonesResolve, ZoneExists, ZonesListed
  <2> QED BY <2>1, <2>2, <1>1, <1>3, <1>4 DEF IInv, RowsSound, Items
<1>7. EndsSound'
  BY <1>1 DEF IInv, EndsSound, ends, ZonesListed, Forbids
<1>8. ASSUME NEW q \in Queries PROVE Shrinks(q)
  <2>1. Matching(q) \ {l} \subseteq Matching(q)'
    BY <1>1, <1>3, <1>4
       DEF Queries, Matching, ZonesListed, ScootersListed, LogsListed
  <2> QED BY <2>1 DEF Shrinks
<1> QED BY <1>1, <1>3, <1>5, <1>6, <1>7, <1>8, WriteKeepsWalk DEF IInv

LEMMA CloseMaintenanceInv ==
  ASSUME IInv, NEW l \in Logs, CloseMaintenance(l)
  PROVE  IInv'
<1> USE NilFacts
<1>1. /\ log[l] # Nil /\ log' = [log EXCEPT ![l].status = "closed"] /\ Write
      /\ UNCHANGED <<zone, scooter, born>> /\ UNCHANGED ends
      /\ WalkerNotices
  BY DEF CloseMaintenance
<1>2. /\ log' \in [Logs -> LogRow \cup {Nil}]
      /\ log'[l] # Nil /\ log'[l].scooter = log[l].scooter
      /\ \A x \in Logs : x # l => log'[x] = log[x]
  <2>1. log[l] \in LogRow /\ log \in [Logs -> LogRow \cup {Nil}]
    BY <1>1 DEF IInv, TypeOK
  <2>2. [log[l] EXCEPT !.status = "closed"] \in LogRow
    BY <2>1 DEF LogRow
  <2>3. log' = [log EXCEPT ![l] = [log[l] EXCEPT !.status = "closed"]]
    BY <1>1, <2>1
  <2>4. [log[l] EXCEPT !.status = "closed"].scooter = log[l].scooter
    BY <2>1 DEF LogRow
  <2> QED BY <2>1, <2>2, <2>3, <2>4
<1>3. TypeOK'
  BY <1>1, <1>2, NoticeTypes DEF IInv, TypeOK, ends, Write
<1>4. RowsSound'
  <2>1. ZonesResolve'
    BY <1>1 DEF IInv, RowsSound, ZonesResolve, ZoneExists, ZonesListed
  <2> QED BY <2>1, <1>1, <1>2 DEF IInv, RowsSound
<1>5. EndsSound'
  BY <1>1 DEF IInv, EndsSound, ends, ZonesListed, Forbids
<1>6. ASSUME NEW q \in Queries PROVE Shrinks(q)
  <2>1. Matching(q) \ {l} \subseteq Matching(q)'
    BY <1>1, <1>2
       DEF Queries, Matching, ZonesListed, ScootersListed, LogsListed
  <2> QED BY <2>1 DEF Shrinks
<1> QED BY <1>1, <1>3, <1>4, <1>5, <1>6, SameTimes, WriteKeepsWalk DEF IInv
-----------------------------------------------------------------------------
(* Readers.                                                                *)

LEMMA ClampFacts ==
  /\ Clamp(ZonesAsked) = MaxPageLimit
  /\ \A lim \in Limits : Clamp(lim) \in Nat
BY FleetAssumption DEF Clamp

\* A zone that the check did not list has enough newer ones.
LEMMA CheckListsNewest ==
  ASSUME TypeOK, NEW z \in ZonesListed,
         ~(Cardinality({y \in ZonesListed : born[y] > born[z]})
             >= MaxPageLimit)
  PROVE  z \in Page(ZonesListed, Clamp(ZonesAsked), 0)
<1>1. Ahead(ZonesListed, z) = {y \in ZonesListed : born[y] > born[z]}
  BY DEF Ahead, Before
<1>2. Ahead(ZonesListed, z) \subseteq Items
  BY DEF Ahead, ZonesListed, Items
<1>3. Cardinality(Ahead(ZonesListed, z)) \in Nat
  BY <1>2, SubsetFinite
<1> DEFINE n == Cardinality(Ahead(ZonesListed, z))
<1>4. n \in Nat /\ ~(n >= MaxPageLimit)
  BY <1>1, <1>3
<1> HIDE DEF n
<1>5. 0 <= n /\ n < 0 + Clamp(ZonesAsked)
  BY <1>4, ClampFacts, FleetAssumption
<1> QED BY <1>5 DEF Page, n

LEMMA EndInv ==
  ASSUME IInv, NEW r \in Rides, EndChecks(r) \/ EndCommits(r) \/ EndFails(r)
  PROVE  IInv'
<1>1. UNCHANGED tables /\ UNCHANGED walk
  BY DEF EndChecks, EndCommits, EndFails
<1>2. RowsSound' /\ WalkSound'
  BY <1>1 DEF IInv, RowsSound, ZonesResolve, ZoneExists, ZonesListed, tables,
     walk, WalkSound, PageWalkSeesAll, Matching, ScootersListed, LogsListed,
     Ahead, Before
<1>3. TypeOK' /\ EndsSound'
  <2>1. CASE EndChecks(r)
    <3>1. PICK p \in Places \cup {Nil}, listed \in BOOLEAN :
            /\ p # Nil /\ listed =>
                 \A z \in Page(ZonesListed, Clamp(ZonesAsked), 0) :
                   ~Forbids(z, p)
            /\ spot' = [spot EXCEPT ![r] = IF listed THEN p ELSE Nil]
      BY <2>1 DEF EndChecks
    <3> DEFINE hidden ==
          {z \in ZonesListed :
             Cardinality({y \in ZonesListed : born[y] > born[z]})
               >= MaxPageLimit}
    <3>2. /\ unchecked' = [unchecked EXCEPT ![r] = hidden]
          /\ parked' = [parked EXCEPT ![r] = "checked"]
      BY <2>1 DEF EndChecks
    <3>3. hidden \subseteq Zones
      BY DEF ZonesListed
    <3>4. ASSUME NEW z \in ZonesListed \ hidden, p # Nil, listed
          PROVE  ~Forbids(z, p)
      <4>1. z \in Page(ZonesListed, Clamp(ZonesAsked), 0)
        BY <3>4, CheckListsNewest DEF IInv
      <4> QED BY <4>1, <3>1, <3>4
    <3> HIDE DEF hidden
    <3>5. TypeOK'
      BY <3>1, <3>2, <3>3, <1>1 DEF IInv, TypeOK, tables, walk
    <3>6. ASSUME NEW q \in Rides, parked'[q] = "checked", spot'[q] # Nil,
                 NEW z \in ZonesListed' \ unchecked'[q]
          PROVE  ~Forbids(z, spot[q])'
      <4>1. ZonesListed' = ZonesListed /\ zone' = zone
        BY <1>1 DEF ZonesListed, tables
      <4>2. CASE q = r
        <5>1. spot'[q] = p /\ listed /\ p # Nil /\ z \in ZonesListed \ hidden
          BY <4>1, <4>2, <3>1, <3>2, <3>6 DEF IInv, TypeOK
        <5> QED BY <5>1, <4>1, <3>4 DEF Forbids
      <4>3. CASE q # r
        <5>1. /\ spot'[q] = spot[q] /\ parked'[q] = parked[q]
              /\ unchecked'[q] = unchecked[q]
          BY <4>3, <3>1, <3>2 DEF IInv, TypeOK
        <5> QED BY <5>1, <4>1, <3>6 DEF IInv, EndsSound, Forbids
      <4> QED BY <4>2, <4>3
    <3> QED BY <3>5, <3>6 DEF EndsSound
  <2>2. CASE EndCommits(r) \/ EndFails(r)
    <3>1. /\ spot' = [spot EXCEPT ![r] = Nil]
          /\ unchecked' = [unchecked EXCEPT ![r] = {}]
          /\ \E x \in {"ended", "riding"} : parked' = [parked EXCEPT ![r] = x]
      BY <2>2 DEF EndCommits, EndFails, EndForgets
    <3>2. TypeOK'
      BY <3>1, <1>1 DEF IInv, TypeOK, tables, walk
    <3>3. EndsSound'
      BY <3>1, <1>1
         DEF IInv, TypeOK, EndsSound, tables, ZonesListed, Forbids
    <3> QED BY <3>2, <3>3
  <2> QED BY <2>1, <2>2
<1> QED BY <1>2, <1>3 DEF IInv

LEMMA ReadKeeps ==
  ASSUME IInv, UNCHANGED tables, UNCHANGED ends
  PROVE  /\ RowsSound' /\ EndsSound'
         /\ \A q \in Queries : Matching(q)' = Matching(q)
         /\ \A S, x : Ahead(S, x)' = Ahead(S, x)
<1>1. RowsSound' /\ EndsSound'
  BY DEF IInv, RowsSound, ZonesResolve, ZoneExists, ZonesListed, tables,
         EndsSound, ends, Forbids
<1>2. ASSUME NEW q \in Queries PROVE Matching(q)' = Matching(q)
  BY DEF tables, Matching, ZonesListed, ScootersListed, LogsListed
<1>3. ASSUME NEW S, NEW x PROVE Ahead(S, x)' = Ahead(S, x)
  BY DEF tables, Ahead, Before
<1> QED BY <1>1, <1>2, <1>3

LEMMA BeginWalkInv ==
  ASSUME IInv, NEW q \in Queries, BeginWalk(q)
  PROVE  IInv'
<1>1. /\ walking = "idle" /\ walking' = "count" /\ query' = q
      /\ must' = Matching(q) /\ step' \in Nat
      /\ UNCHANGED <<offset, total, seen, slipped, late>>
      /\ UNCHANGED tables /\ UNCHANGED ends
  BY ClampFacts DEF BeginWalk
<1>2. TypeOK'
  BY <1>1, MatchingItems DEF IInv, TypeOK, tables, ends
<1>3. /\ Matching(query)' = Matching(q)
      /\ \A x : Ahead(Matching(query), x)' = Ahead(Matching(q), x)
  BY <1>1 DEF tables, Matching, ZonesListed, ScootersListed, LogsListed,
              Ahead, Before
<1>4. ASSUME NEW x \in must'
      PROVE  Cardinality(Ahead(Matching(query), x))' >= offset'
  <2>1. Ahead(Matching(q), x) \subseteq Items
    BY MatchingItems DEF Ahead
  <2>2. Cardinality(Ahead(Matching(q), x)) \in Nat
    BY <2>1, SubsetFinite
  <2>3. Cardinality(Ahead(Matching(query), x))'
          = Cardinality(Ahead(Matching(q), x))
    BY <1>3
  <2>4. offset' = 0
    BY <1>1 DEF IInv, WalkSound
  <2> QED BY <2>2, <2>3, <2>4
<1>5. WalkSound'
  BY <1>1, <1>3, <1>4 DEF WalkSound, PageWalkSeesAll
<1> QED BY <1>1, <1>2, <1>5, ReadKeeps DEF IInv

LEMMA ListCountsInv ==
  ASSUME IInv, ListCounts
  PROVE  IInv'
<1>1. /\ walking = "count" /\ walking' = "rows" /\ late' = FALSE
      /\ total' = Cardinality(Matching(query))
      /\ UNCHANGED <<query, step, offset, seen, must, slipped>>
      /\ UNCHANGED tables /\ UNCHANGED ends
  BY DEF ListCounts
<1>2. query \in Queries
  BY DEF IInv, TypeOK
<1>3. Cardinality(Matching(query)) \in Nat
  BY <1>2, MatchingItems, SubsetFinite
<1>4. TypeOK'
  BY <1>1, <1>3 DEF IInv, TypeOK, tables, ends
<1>5. /\ Matching(query)' = Matching(query)
      /\ \A x : Ahead(Matching(query), x)' = Ahead(Matching(query), x)
  BY <1>1 DEF tables, Matching, ZonesListed, ScootersListed, LogsListed,
              Ahead, Before
<1>6. WalkSound'
  BY <1>1, <1>3, <1>5 DEF IInv, WalkSound, PageWalkSeesAll
<1> QED BY <1>1, <1>4, <1>6, ReadKeeps DEF IInv

LEMMA ListReadsInv ==
  ASSUME IInv, ListReads
  PROVE  IInv'
<1> DEFINE M == Matching(query)
<1>1. /\ walking = "rows"
      /\ seen' = seen \cup Page(M, step, offset)
      /\ offset' = offset + step
      /\ walking' = IF offset + step >= total THEN "done" ELSE "count"
      /\ UNCHANGED <<query, step, total, must, slipped, late>>
      /\ UNCHANGED tables /\ UNCHANGED ends
  BY DEF ListReads
<1>2. /\ query \in Queries /\ step \in Nat /\ offset \in Nat /\ total \in Nat
      /\ born \in [Items -> Nat]
  BY DEF IInv, TypeOK
<1>3. M \subseteq Items /\ Cardinality(M) \in Nat
  BY <1>2, MatchingItems, SubsetFinite
<1>4. M' = M /\ \A x : Ahead(M, x)' = Ahead(M, x)
  BY <1>1 DEF tables, Matching, ZonesListed, ScootersListed, LogsListed,
              Ahead, Before
<1>5. must \subseteq M
  BY <1>1 DEF IInv, WalkSound
<1>6. ~slipped => \A x \in must \ seen : Cardinality(Ahead(M, x)) >= offset
  BY <1>1 DEF IInv, WalkSound
<1>7. ~late => Cardinality(M) <= total
  BY <1>1 DEF IInv, WalkSound
<1> HIDE DEF M
<1>8. Page(M, step, offset) \subseteq Items
  BY <1>3 DEF Page
<1>9. TypeOK'
  BY <1>1, <1>2, <1>8 DEF IInv, TypeOK, tables, ends
<1>10. ASSUME ~slipped, NEW x \in must \ seen'
       PROVE  /\ Cardinality(Ahead(M, x)) \in Nat
              /\ Cardinality(Ahead(M, x)) >= offset + step
              /\ Cardinality(Ahead(M, x)) < Cardinality(M)
  <2>1. x \in M /\ x \in must \ seen /\ x \notin Page(M, step, offset)
    BY <1>1, <1>5, <1>10
  <2>2. Ahead(M, x) \subseteq Items
    BY <1>3 DEF Ahead
  <2>3. Cardinality(Ahead(M, x)) \in Nat
    BY <2>2, SubsetFinite
  <2>4. Cardinality(Ahead(M, x)) >= offset
    BY <2>1, <1>6, <1>10
  <2>5. Cardinality(Ahead(M, x)) >= offset + step
    BY <2>1, <2>3, <2>4, <1>2 DEF Page
  <2>6. Cardinality(Ahead(M, x)) < Cardinality(M)
    BY <2>1, <1>2, <1>3, AheadSmaller
  <2> QED BY <2>3, <2>5, <2>6
<1>11. ASSUME walking' = "done", ~slipped, ~late
       PROVE  must \subseteq seen'
  <2> SUFFICES ASSUME NEW x \in must \ seen' PROVE FALSE
    OBVIOUS
  <2>1. offset + step >= total
    BY <1>1, <1>11
  <2> QED BY <2>1, <1>2, <1>3, <1>7, <1>10, <1>11
<1>12. WalkSound'
  <2>1. PageWalkSeesAll'
    BY <1>1, <1>11 DEF PageWalkSeesAll
  <2>2. Matching(query)' = M
    BY <1>4 DEF M
  <2>3. \A x : Ahead(Matching(query), x)' = Ahead(M, x)
    BY <1>4 DEF M
  <2> QED BY <2>1, <2>2, <2>3, <1>1, <1>5, <1>10 DEF WalkSound
<1> QED BY <1>1, <1>9, <1>12, ReadKeeps DEF IInv
-----------------------------------------------------------------------------
LEMMA InitInv == Init => IInv
<1> SUFFICES ASSUME Init PROVE IInv
  OBVIOUS
<1>1. TypeOK
  BY DEF Init, TypeOK, Queries
<1>2. RowsSound /\ EndsSound
  BY DEF Init, RowsSound, ZonesResolve, EndsSound
<1>3. WalkSound
  BY DEF Init, WalkSound, PageWalkSeesAll
<1> QED BY <1>1, <1>2, <1>3 DEF IInv

LEMMA StutterInv ==
  ASSUME IInv, UNCHANGED vars
  PROVE  IInv'
<1>1. UNCHANGED tables /\ UNCHANGED ends /\ UNCHANGED walk
  BY DEF vars
<1>2. TypeOK'
  BY <1>1 DEF IInv, TypeOK, tables, ends, walk
<1>3. WalkSound'
  BY <1>1 DEF IInv, WalkSound, PageWalkSeesAll, walk, tables, Matching,
              ZonesListed, ScootersListed, LogsListed, Ahead, Before
<1> QED BY <1>1, <1>2, <1>3, ReadKeeps DEF IInv

LEMMA NextInv == IInv /\ [Next]_vars => IInv'
BY CreateZoneInv, UpdateZoneInv, DeleteZoneInv, CreateScooterInv,
   UpdateScooterInv, RetireScooterInv, OpenMaintenanceInv,
   CloseMaintenanceInv, EndInv, BeginWalkInv, ListCountsInv, ListReadsInv,
   StutterInv DEF Next

LEMMA InvHolds == Spec => []IInv
BY InitInv, NextInv, PTL DEF Spec

\* Zones have positive radii that fit int32 and known types, whatever the
\* requests carry.
THEOREM TypeCorrect == Spec => []TypeOK
<1>1. IInv => TypeOK
  BY DEF IInv
<1> QED BY <1>1, InvHolds, PTL

\* No scooter points to a zone that is gone.
THEOREM ZonesAlwaysResolve == Spec => []ZonesResolve
<1>1. IInv => ZonesResolve
  BY DEF IInv, RowsSound
<1> QED BY <1>1, InvHolds, PTL

\* A ride does not end in a no-park zone that its check could have seen.
THEOREM NoParkIsEnforced == Spec => NoParkEnforced
<1> DEFINE Enforced == \A r \in Rides :
             /\ parked[r] = "checked" /\ parked'[r] = "ended"
             /\ spot[r] # Nil
             => \A z \in ZonesListed \ unchecked[r] :
                  ~ /\ zone[z].type = "no_park"
                    /\ Distance[spot[r], zone[z].center] <= zone[z].radius
<1>1. IInv => [Enforced]_vars
  BY DEF IInv, EndsSound, Forbids, IsInsideZone
<1> QED BY <1>1, InvHolds, PTL DEF NoParkEnforced

\* A client that pages until the total is reached has been sent every row
\* that matched all the time, with the two exceptions that it states.
THEOREM PageWalksSeeAll == Spec => []PageWalkSeesAll
<1>1. IInv => PageWalkSeesAll
  BY DEF IInv, WalkSound
<1> QED BY <1>1, InvHolds, PTL
=============================================================================
