------------------------------- MODULE Fleet -------------------------------
(***************************************************************************)
(* Zones, scooters and maintenance logs as administrators keep them, and   *)
(* the two kinds of readers that see them change: a ride's End, which      *)
(* lists the zones before it closes the ride, and a client that walks      *)
(* through a list page by page.                                            *)
(*                                                                         *)
(* Every request of an administrator writes with one SQL statement.  Names,*)
(* QR codes, models, batteries and costs are data no property looks at; a  *)
(* position is an element of Places.  Who rents a scooter is module        *)
(* Rentals.                                                                *)
(***************************************************************************)
EXTENDS Integers, FiniteSets

CONSTANTS Zones, Scooters, Logs,  \* ids (never given out twice)
          Rides,
          Places,       \* positions
          Distance,     \* metres between two places
          Radii,        \* the radii a request may carry
          Types,        \* the zone types a request may carry
          Half,         \* 2^31: int32 is -Half..Half-1
          MaxPageLimit, \* largest page: 100
          DefaultPageLimit,
          ZonesAsked,   \* the limit End lists the zones with: 1000
          Limits,       \* the limits a client may ask for
          Nil,          \* SQL NULL, a nil pointer
          Absent,       \* a key that is not in the JSON object
          Junk,         \* a JSON value of the wrong type
          Odd,          \* a string that names nothing
          MaxWrites     \* bound: writes of administrators

(* Rows of the three tables. *)
ZoneTypes == {"service", "no_park", "reduced_speed"}

ZoneRow    == [center : Places, radius : 1..(Half - 1), type : ZoneTypes]
ScooterRow == [live : BOOLEAN, zone : Zones \cup {Nil}]
LogRow     == [scooter : Scooters, status : {"open", "closed"}]

ASSUME FleetAssumption ==
  /\ IsFiniteSet(Zones) /\ IsFiniteSet(Scooters) /\ IsFiniteSet(Logs)
  /\ Distance \in [Places \X Places -> Nat]
  /\ Radii \subseteq Int /\ Half \in Nat \ {0}
  /\ MaxPageLimit \in Nat \ {0} /\ DefaultPageLimit \in 1..MaxPageLimit
  /\ ZonesAsked \in Nat /\ ZonesAsked >= MaxPageLimit
  /\ Limits \subseteq Int
  /\ MaxWrites \in Nat
ASSUME NullAssumption ==
  /\ Nil \notin Zones \cup Scooters \cup Logs \cup Places \cup Int
  /\ {Absent, Junk, Odd} \cap (Places \cup Zones \cup {Nil}) = {}
  /\ Absent \notin Int /\ Junk \notin Int
  /\ Absent # Junk /\ Absent # Odd /\ Junk # Odd
  /\ Zones \cap Scooters = {} /\ Zones \cap Logs = {}
  /\ Scooters \cap Logs = {}
  /\ Nil \notin ZoneRow \cup ScooterRow \cup LogRow

Items == Zones \cup Scooters \cup Logs

VARIABLES zone,      \* table zones
          scooter,   \* table scooters
          log,       \* table maintenance
          born,      \* created_at or start_date of a row; 0: never inserted
          now        \* the time, in writes
tables == <<zone, scooter, log, born, now>>

VARIABLES parked,    \* a ride: "riding", "checked" by its End, or "ended"
          spot,      \* the position that End was checked for, if it was
          unchecked  \* history: zones that check has not seen as they are
ends == <<parked, spot, unchecked>>

VARIABLES walking,   \* "idle", "count", "rows" or "done"
          query, step, offset, total,   \* of the client's walk
          seen,      \* what the client has been sent
          must,      \* history: what has matched all the time
          slipped,   \* history: something it had passed has left the list
          late       \* history: something came between count and rows
walk == <<walking, query, step, offset, total, seen, must, slipped, late>>

vars == <<tables, ends, walk>>
-----------------------------------------------------------------------------
(* Pages.                                                                  *)

\* models.Page.Clamp, as far as the limit goes.
Clamp(limit) == IF limit <= 0 THEN DefaultPageLimit
                ELSE IF limit > MaxPageLimit THEN MaxPageLimit ELSE limit

\* The lists: all zones, the scooters of one zone (or all), the maintenance
\* logs of one scooter.
Queries == [of : {"zones"}, key : {Nil}]
           \cup [of : {"scooters"}, key : Zones \cup {Nil}]
           \cup [of : {"logs"}, key : Scooters]

ZonesListed == {z \in Zones : zone[z] # Nil}

ScootersListed(key) ==
  {s \in Scooters : /\ scooter[s] # Nil
                    /\ scooter[s].live
                    /\ key = Nil \/ scooter[s].zone = key}

LogsListed(key) == {l \in Logs : log[l] # Nil /\ log[l].scooter = key}

Matching(q) == CASE q.of = "zones"    -> ZonesListed
                 [] q.of = "scooters" -> ScootersListed(q.key)
                 [] q.of = "logs"     -> LogsListed(q.key)

\* Mutant: the oldest rows come first.
Before_OldestFirst(x, y) == born[x] < born[y]

\* ORDER BY created_at DESC (start_date DESC for logs).
Before(x, y) == born[x] > born[y]

Ahead(S, x) == {y \in S : Before(y, x)}

\* Mutant: LIMIT and OFFSET take each other's parameter.
Page_Swapped(S, lim, off) ==
  {x \in S : /\ lim <= Cardinality(Ahead(S, x))
             /\ Cardinality(Ahead(S, x)) < lim + off}

\* ... LIMIT lim OFFSET off
Page(S, lim, off) ==
  {x \in S : /\ off <= Cardinality(Ahead(S, x))
             /\ Cardinality(Ahead(S, x)) < off + lim}
-----------------------------------------------------------------------------
(* Requests, and what the handlers make of them.                           *)

\* int32(n)
Int32(n) == ((n + Half) % (2 * Half)) - Half

CreateZoneReq == [center : Places, radius : Radii,
                  type : Types \cup {Absent, Odd}]

\* validate:"required,gt=0"
ValidZoneReq(req) == req.radius > 0

\* The type defaults to "service".
NewZone(req) ==
  [center |-> req.center, radius |-> req.radius,
   type |-> IF req.type = Absent THEN "service" ELSE req.type]

\* The body of a PATCH is read key by key; what has the wrong type counts as
\* absent.
ZoneBody == [center : Places \cup {Absent, Junk},
             radius : Radii \cup {Absent, Junk},
             type   : Types \cup {Absent, Junk, Odd}]

Known(v) == IF v \in {Absent, Junk} THEN Nil ELSE v

ZonePatchFrom(raw) ==
  [center |-> Known(raw.center), radius |-> Known(raw.radius),
   type |-> Known(raw.type)]

ZonePatchAccepted(patch) ==
  /\ patch.type # Nil => patch.type \in ZoneTypes
  /\ patch.radius # Nil => patch.radius > 0

\* radius_meters passes through an int32 on its way to the column.
ToColumns(in) ==
  [in EXCEPT !.radius = IF @ = Nil THEN Nil ELSE Int32(@)]

\* COALESCE($n, column): a parameter that is NULL keeps the column.
Coalesce(v, column) == IF v = Nil THEN column ELSE v

PatchedZone(row, patch) ==
  [center |-> Coalesce(patch.center, row.center),
   radius |-> Coalesce(patch.radius, row.radius),
   type   |-> Coalesce(patch.type, row.type)]

\* The body of a scooter's PATCH: an empty string, null or another type
\* clears zone_id, a string that is no UUID is refused.
ZoneIdBody == Zones \cup {Absent, Junk, Odd}

ScooterPatchFrom(raw) ==
  [zoneSet |-> raw # Absent, zone |-> IF raw \in Zones THEN raw ELSE Nil]

PatchedScooter(row, patch) ==
  [row EXCEPT !.zone = IF patch.zoneSet THEN patch.zone ELSE @]

\* scooters.zone_id REFERENCES zones
ZoneExists(z) == z # Nil => z \in ZonesListed
-----------------------------------------------------------------------------
(* The readers' histories.                                                 *)

Init ==
  /\ zone = [z \in Zones |-> Nil]
  /\ scooter = [s \in Scooters |-> Nil]
  /\ log = [l \in Logs |-> Nil]
  /\ born = [x \in Items |-> 0] /\ now = 0
  /\ parked = [r \in Rides |-> "riding"]
  /\ spot = [r \in Rides |-> Nil]
  /\ unchecked = [r \in Rides |-> {}]
  /\ walking = "idle" /\ query = [of |-> "zones", key |-> Nil]
  /\ step = 0 /\ offset = 0 /\ total = 0
  /\ seen = {} /\ must = {} /\ slipped = FALSE /\ late = FALSE

\* What a write means to a walk in progress.
WalkerNotices ==
  LET old == Matching(query)
      new == Matching(query)'
  IN /\ UNCHANGED <<walking, query, step, offset, total, seen>>
     /\ IF walking \in {"count", "rows"}
        THEN /\ must' = must \cap new
             /\ slipped' = (slipped \/ \E x \in old \ new :
                              Cardinality(Ahead(old, x)) < offset)
             /\ late' = (late \/ (walking = "rows" /\ new \ old # {}))
        ELSE UNCHANGED <<must, slipped, late>>

\* What writing zone z means to an End under way.
EndsNotice(z) ==
  /\ unchecked' = [r \in Rides |-> IF parked[r] = "checked"
                                   THEN unchecked[r] \cup {z}
                                   ELSE unchecked[r]]
  /\ UNCHANGED <<parked, spot>>

\* The bound on writes; NOW() is different for each of them.
Write == now < MaxWrites /\ now' = now + 1

Insert(x) == born[x] = 0 /\ born' = [born EXCEPT ![x] = now + 1]
-----------------------------------------------------------------------------
(* Administrators.                                                         *)

\* INSERT INTO zones, with its CHECK constraints.
InsertZone(z, row) ==
  /\ row.radius > 0
  /\ Insert(z)
  /\ zone' = [zone EXCEPT ![z] = row]

CreateZone(z) ==
  /\ Write
  /\ \E req \in CreateZoneReq :
       LET in == NewZone(req)
       IN /\ ValidZoneReq(req)
          /\ in.type \in ZoneTypes
          /\ InsertZone(z, ToColumns(in))
  /\ UNCHANGED <<scooter, log>>
  /\ EndsNotice(z) /\ WalkerNotices

UpdateZone(z) ==
  /\ zone[z] # Nil
  /\ Write
  /\ \E raw \in ZoneBody :
       LET patch == ZonePatchFrom(raw)
           row   == PatchedZone(zone[z], ToColumns(patch))
       IN /\ ZonePatchAccepted(patch)
          /\ row.radius > 0
          /\ zone' = [zone EXCEPT ![z] = row]
  /\ UNCHANGED <<scooter, log, born>>
  /\ EndsNotice(z) /\ WalkerNotices

\* scooters.zone_id ... ON DELETE SET NULL, for retired scooters as well.
Unzoned(z) ==
  [s \in Scooters |->
     IF scooter[s] # Nil /\ scooter[s].zone = z
     THEN [scooter[s] EXCEPT !.zone = Nil] ELSE scooter[s]]

\* The foreign keys never refuse: the Conflict of the repository is not met.
DeleteZone(z) ==
  /\ zone[z] # Nil
  /\ Write
  /\ zone' = [zone EXCEPT ![z] = Nil]
  /\ scooter' = Unzoned(z)
  /\ UNCHANGED <<log, born>>
  /\ UNCHANGED ends /\ WalkerNotices

CreateScooter(s) ==
  /\ Write
  /\ \E z \in Zones \cup {Nil} :
       /\ ZoneExists(z)
       /\ scooter' = [scooter EXCEPT ![s] = [live |-> TRUE, zone |-> z]]
  /\ Insert(s)
  /\ UNCHANGED <<zone, log>>
  /\ UNCHANGED ends /\ WalkerNotices

IsLive(s) == scooter[s] # Nil /\ scooter[s].live

UpdateScooter(s) ==
  /\ IsLive(s)
  /\ Write
  /\ \E raw \in ZoneIdBody \ {Odd} :
       LET patch == ScooterPatchFrom(raw)
       IN /\ ZoneExists(patch.zone)
          /\ scooter' = [scooter EXCEPT ![s] = PatchedScooter(@, patch)]
  /\ UNCHANGED <<zone, log, born>>
  /\ UNCHANGED ends /\ WalkerNotices

RetireScooter(s) ==
  /\ IsLive(s)
  /\ Write
  /\ scooter' = [scooter EXCEPT ![s].live = FALSE]
  /\ UNCHANGED <<zone, log, born>>
  /\ UNCHANGED ends /\ WalkerNotices

\* A retired scooter still has its row, and may get a log.
OpenMaintenance(l, s) ==
  /\ scooter[s] # Nil
  /\ Write
  /\ Insert(l)
  /\ log' = [log EXCEPT ![l] = [scooter |-> s, status |-> "open"]]
  /\ UNCHANGED <<zone, scooter>>
  /\ UNCHANGED ends /\ WalkerNotices

CloseMaintenance(l) ==
  /\ log[l] # Nil
  /\ log[l].status = "open"
  /\ Write
  /\ log' = [log EXCEPT ![l].status = "closed"]
  /\ UNCHANGED <<zone, scooter, born>>
  /\ UNCHANGED ends /\ WalkerNotices
-----------------------------------------------------------------------------
(* Ending a ride.                                                          *)

\* geo.IsInsideZone: the boundary is inside.
IsInsideZone(p, row) == Distance[p, row.center] <= row.radius

Forbids(z, p) == zone[z].type = "no_park" /\ IsInsideZone(p, zone[z])

\* enforceNoParkZone, before the transaction of End: an error or a missing
\* coordinate lets the ride end.
EndChecks(r) ==
  /\ parked[r] = "riding"
  /\ \E p \in Places \cup {Nil}, listed \in BOOLEAN :
       LET page == Page(ZonesListed, Clamp(ZonesAsked), 0)
       IN /\ p # Nil /\ listed => \A z \in page : ~Forbids(z, p)
          /\ spot' = [spot EXCEPT ![r] = IF listed THEN p ELSE Nil]
  /\ unchecked' = [unchecked EXCEPT ![r] =
       {z \in ZonesListed :
          Cardinality({y \in ZonesListed : born[y] > born[z]})
            >= MaxPageLimit}]
  /\ parked' = [parked EXCEPT ![r] = "checked"]
  /\ UNCHANGED tables /\ UNCHANGED walk

EndForgets(r) == /\ spot' = [spot EXCEPT ![r] = Nil]
                 /\ unchecked' = [unchecked EXCEPT ![r] = {}]

EndCommits(r) ==
  /\ parked[r] = "checked"
  /\ parked' = [parked EXCEPT ![r] = "ended"]
  /\ EndForgets(r)
  /\ UNCHANGED tables /\ UNCHANGED walk

EndFails(r) ==
  /\ parked[r] = "checked"
  /\ parked' = [parked EXCEPT ![r] = "riding"]
  /\ EndForgets(r)
  /\ UNCHANGED tables /\ UNCHANGED walk
-----------------------------------------------------------------------------
(* Walking through a list.                                                 *)

BeginWalk(q) ==
  /\ walking = "idle"
  /\ \E lim \in Limits : step' = Clamp(lim)
  /\ walking' = "count" /\ query' = q
  /\ must' = Matching(q)
  /\ UNCHANGED <<offset, total, seen, slipped, late>>
  /\ UNCHANGED tables /\ UNCHANGED ends

\* A repository's List counts the rows ...
ListCounts ==
  /\ walking = "count"
  /\ total' = Cardinality(Matching(query))
  /\ walking' = "rows" /\ late' = FALSE
  /\ UNCHANGED <<query, step, offset, seen, must, slipped>>
  /\ UNCHANGED tables /\ UNCHANGED ends

\* ... and reads a page of them in another statement; the client asks for
\* the next page as long as the total says that there is one.
ListReads ==
  /\ walking = "rows"
  /\ seen' = seen \cup Page(Matching(query), step, offset)
  /\ offset' = offset + step
  /\ walking' = IF offset + step >= total THEN "done" ELSE "count"
  /\ UNCHANGED <<query, step, total, must, slipped, late>>
  /\ UNCHANGED tables /\ UNCHANGED ends

Next ==
  \/ \E z \in Zones : CreateZone(z) \/ UpdateZone(z) \/ DeleteZone(z)
  \/ \E s \in Scooters : \/ CreateScooter(s) \/ UpdateScooter(s)
                         \/ RetireScooter(s)
                         \/ \E l \in Logs : OpenMaintenance(l, s)
  \/ \E l \in Logs : CloseMaintenance(l)
  \/ \E r \in Rides : EndChecks(r) \/ EndCommits(r) \/ EndFails(r)
  \/ \E q \in Queries : BeginWalk(q)
  \/ ListCounts \/ ListReads

Spec == Init /\ [][Next]_vars
-----------------------------------------------------------------------------
(* Properties.                                                             *)

TypeOK ==
  /\ zone \in [Zones -> ZoneRow \cup {Nil}]
  /\ scooter \in [Scooters -> ScooterRow \cup {Nil}]
  /\ log \in [Logs -> LogRow \cup {Nil}]
  /\ born \in [Items -> Nat] /\ now \in Nat
  /\ parked \in [Rides -> {"riding", "checked", "ended"}]
  /\ spot \in [Rides -> Places \cup {Nil}]
  /\ unchecked \in [Rides -> SUBSET Zones]
  /\ walking \in {"idle", "count", "rows", "done"} /\ query \in Queries
  /\ step \in Nat /\ offset \in Nat /\ total \in Nat
  /\ seen \subseteq Items /\ must \subseteq Items
  /\ slipped \in BOOLEAN /\ late \in BOOLEAN

\* enforceNoParkZone: a ride does not end inside a no-park zone, except that
\* the zone was written after the list was read, that MaxPageLimit newer zones
\* hid it, or that there was no position or no list to check.
NoParkEnforced ==
  [][\A r \in Rides :
       /\ parked[r] = "checked" /\ parked'[r] = "ended"
       /\ spot[r] # Nil
       => \A z \in ZonesListed \ unchecked[r] :
            ~ /\ zone[z].type = "no_park"
              /\ Distance[spot[r], zone[z].center] <= zone[z].radius]_vars

\* Paging by limit and offset over a table that changes: a client that asks
\* for pages until the total is reached has been sent every row that matched
\* all the time, unless a row it had already passed left the list, or one
\* came in between the count and the rows of the last page.
PageWalkSeesAll ==
  walking = "done" /\ ~slipped /\ ~late => must \subseteq seen

\* No scooter is in a zone that is gone (foreign key and ON DELETE SET NULL).
ZonesResolve ==
  \A s \in Scooters : scooter[s] # Nil => ZoneExists(scooter[s].zone)
=============================================================================
