------------------------------ MODULE Rentals ------------------------------
(***************************************************************************)
(* The life of a rental: rentals.Service (Start, End, AdminCancel), the    *)
(* scooter rows it locks and the administrators' edits of those rows.      *)
(*                                                                         *)
(* The database runs READ COMMITTED.  One action is one SQL statement (or  *)
(* one commit), so the actions of several HTTP requests interleave as the  *)
(* statements do.  A transaction's own writes become visible at its commit *)
(* action; until then the row locks it holds are visible through the       *)
(* position (pc) of the request, which is how HoldsScooter, HoldsRental    *)
(* and WaitsFor are defined.                                               *)
(***************************************************************************)
EXTENDS Naturals, FiniteSets

CONSTANTS Users,       \* registered riders
          Scooters,    \* scooter ids
          Rentals,     \* rental ids the INSERT may draw (bounds the rides)
          Requests,    \* HTTP requests that can be in flight together
          None,        \* no user, scooter or rental
          AdminEdits,  \* may administrators edit or retire scooters?
          Faults       \* may a request be cut short (DB error, crash)?

ASSUME NoneAssumption == None \notin Users \cup Scooters \cup Rentals
ASSUME SwitchAssumption == AdminEdits \in BOOLEAN /\ Faults \in BOOLEAN

VARIABLES scooter,   \* table scooters: id -> status and soft-delete mark
          row,       \* table rentals: id -> committed row
          req,       \* the requests in flight and their local variables
          charges,   \* how often ChargeRental was called for a rental
          events,    \* rental events handed to the broker
          orphaned   \* scooters whose AdminCancel died before its release
vars == <<scooter, row, req, charges, events, orphaned>>

-----------------------------------------------------------------------------
ScooterStatus == {"absent", "available", "rented", "maintenance", "retired"}
RentalStatus  == {"absent", "active", "completed", "cancelled"}
Debts         == {"none", "owed", "settled"}

StartPC  == {"start_lock", "start_insert", "start_commit", "start_emit"}
EndPC    == {"end_lock", "end_update", "end_scooter", "end_commit",
             "end_emit", "end_charge"}
CancelPC == {"cancel_update", "cancel_release", "cancel_commit"}
PCs      == {"idle"} \cup StartPC \cup EndPC \cup CancelPC

ScooterRow == [status: ScooterStatus, deleted: BOOLEAN]
RentalRow  == [status: RentalStatus, user: Users \cup {None},
               scooter: Scooters \cup {None}, debt: Debts]
Request    == [pc: PCs, user: Users \cup {None},
               scooter: Scooters \cup {None}, rental: Rentals \cup {None}]

AbsentRow == [status |-> "absent", user |-> None, scooter |-> None,
              debt |-> "none"]
IdleReq   == [pc |-> "idle", user |-> None, scooter |-> None, rental |-> None]

Goto(q, pc) == req' = [req EXCEPT ![q].pc = pc]
Return(q)   == req' = [req EXCEPT ![q] = IdleReq]

-----------------------------------------------------------------------------
(* Locks and waiting. *)

\* q's open transaction has written (so locked) the row of scooter s.
HoldsScooter(q, s) ==
  /\ req[q].pc \in {"start_insert", "start_commit", "end_commit", "cancel_commit"}
  /\ req[q].scooter = s

\* Mutant: End reads its row without FOR UPDATE, only EndTx locks it.
HoldsRental_PlainRead(q, r) ==
  /\ req[q].pc \in {"end_scooter", "end_commit"}
  /\ req[q].rental = r

\* q's open transaction has locked the row of rental r FOR UPDATE.
HoldsRental(q, r) ==
  /\ req[q].pc \in {"end_update", "end_scooter", "end_commit"}
  /\ req[q].rental = r

\* q's open transaction has already moved rental r out of 'active'.
HasEnded(q, r) ==
  /\ req[q].pc \in {"end_scooter", "end_commit"}
  /\ req[q].rental = r

\* Mutant: rentals_one_active_per_scooter is missing.
Conflicts_UserIndexOnly(q) ==
  {r \in Rentals : row[r].status = "active" /\ row[r].user = req[q].user}

\* Rental rows in the two partial unique indexes that q's INSERT collides with.
Conflicts(q) ==
  {r \in Rentals : /\ row[r].status = "active"
                   /\ \/ row[r].user = req[q].user
                      \/ row[r].scooter = req[q].scooter}

\* The statement q is about to run blocks on the transaction of p.
WaitsFor(q, p) ==
  /\ p # q
  /\ \/ /\ req[q].pc \in {"start_lock", "end_scooter", "cancel_release"}
        /\ HoldsScooter(p, req[q].scooter)
     \/ /\ req[q].pc \in {"end_lock", "cancel_update"}
        /\ HoldsRental(p, req[q].rental)
     \/ /\ req[q].pc = "start_insert"
        /\ \/ /\ req[p].pc = "start_commit"
              /\ \/ req[p].user = req[q].user
                 \/ req[p].scooter = req[q].scooter
           \/ \E r \in Conflicts(q) : HasEnded(p, r)

Unblocked(q) == \A p \in Requests : ~WaitsFor(q, p)

\* A set of requests each of which waits for, and is waited for by, another
\* one of the set: what the database's deadlock detector looks for.
Deadlocked(S) ==
  /\ S # {}
  /\ \A q \in S : /\ \E p \in S : WaitsFor(q, p)
                  /\ \E p \in S : WaitsFor(p, q)

\* HasUnpaidRentals, seen through the abstract debt of each rental.
Owes(u) == \E r \in Rentals : /\ row[r].status = "completed"
                              /\ row[r].user = u
                              /\ row[r].debt = "owed"

-----------------------------------------------------------------------------
(* Start *)

\* Bound: a Start is only received while the pool of rental ids can serve it.
RoomForRental ==
  Cardinality({r \in Rentals : row[r].status = "absent"}) >
  Cardinality({q \in Requests :
                 req[q].pc \in {"start_lock", "start_insert", "start_commit"}})

\* Price model and payment preconditions, read before the transaction opens.
BeginStart(q, u, s) ==
  /\ req[q].pc = "idle"
  /\ RoomForRental
  /\ ~Owes(u)
  /\ req' = [req EXCEPT ![q] = [pc |-> "start_lock", user |-> u,
                                scooter |-> s, rental |-> None]]
  /\ UNCHANGED <<scooter, row, charges, events, orphaned>>

\* Mutant: the from-status is not checked.
StartLock_AnyStatus(q) ==
  /\ req[q].pc = "start_lock"
  /\ Unblocked(q)
  /\ Goto(q, "start_insert")
  /\ UNCHANGED <<scooter, row, charges, events, orphaned>>

\* Mutant: the scooter is set to 'rented' outside the transaction.
StartLock_OwnCommit(q) ==
  /\ req[q].pc = "start_lock"
  /\ Unblocked(q)
  /\ IF scooter[req[q].scooter] = [status |-> "available", deleted |-> FALSE]
       THEN /\ scooter' = [scooter EXCEPT ![req[q].scooter].status = "rented"]
            /\ Goto(q, "start_insert")
       ELSE Return(q) /\ UNCHANGED scooter
  /\ UNCHANGED <<row, charges, events, orphaned>>

\* SetStatusTx available -> rented; no matching row means ScooterUnavailable.
StartLock(q) ==
  /\ req[q].pc = "start_lock"
  /\ Unblocked(q)
  /\ IF scooter[req[q].scooter] = [status |-> "available", deleted |-> FALSE]
       THEN Goto(q, "start_insert")
       ELSE Return(q)
  /\ UNCHANGED <<scooter, row, charges, events, orphaned>>

\* CreateTx succeeds: no live or in-progress entry in either unique index.
StartInsert(q) ==
  /\ req[q].pc = "start_insert"
  /\ Unblocked(q)
  /\ Conflicts(q) = {}
  /\ \E r \in Rentals :
       /\ row[r].status = "absent"
       /\ \A p \in Requests : req[p].rental # r
       /\ req' = [req EXCEPT ![q].pc = "start_commit", ![q].rental = r]
  /\ UNCHANGED <<scooter, row, charges, events, orphaned>>

\* CreateTx meets a unique violation: ScooterUnavailable or Conflict, rollback.
StartConflict(q) ==
  /\ req[q].pc = "start_insert"
  /\ \E r \in Conflicts(q) : \A p \in Requests : ~HasEnded(p, r)
  /\ Return(q)
  /\ UNCHANGED <<scooter, row, charges, events, orphaned>>

StartCommit(q) ==
  /\ req[q].pc = "start_commit"
  /\ scooter' = [scooter EXCEPT ![req[q].scooter].status = "rented"]
  /\ row' = [row EXCEPT ![req[q].rental] =
               [status |-> "active", user |-> req[q].user,
                scooter |-> req[q].scooter, debt |-> "none"]]
  /\ Goto(q, "start_emit")
  /\ UNCHANGED <<charges, events, orphaned>>

\* emitRentalStarted: best effort, a failed publish is only logged.
StartEmit(q) ==
  /\ req[q].pc = "start_emit"
  /\ events' \in {events, events \cup {<<"started", req[q].rental>>}}
  /\ Return(q)
  /\ UNCHANGED <<scooter, row, charges, orphaned>>

-----------------------------------------------------------------------------
(* End *)

\* The unlocked read of the rental, the price model and the no-park check.
BeginEnd(q, r, u) ==
  /\ req[q].pc = "idle"
  /\ row[r].status # "absent"
  /\ req' = [req EXCEPT ![q] = [pc |-> "end_lock", user |-> u,
                                scooter |-> row[r].scooter, rental |-> r]]
  /\ UNCHANGED <<scooter, row, charges, events, orphaned>>

\* Mutant: the status is not checked again on the locked row.
EndLock_OwnerOnly(q) ==
  /\ req[q].pc = "end_lock"
  /\ Unblocked(q)
  /\ IF row[req[q].rental].user = req[q].user
       THEN Goto(q, "end_update")
       ELSE Return(q)
  /\ UNCHANGED <<scooter, row, charges, events, orphaned>>

\* GetForUpdateTx, then the owner and status checks on the locked row.
EndLock(q) ==
  /\ req[q].pc = "end_lock"
  /\ Unblocked(q)
  /\ IF /\ row[req[q].rental].user = req[q].user
        /\ row[req[q].rental].status = "active"
       THEN Goto(q, "end_update")
       ELSE Return(q)
  /\ UNCHANGED <<scooter, row, charges, events, orphaned>>

\* Mutant: rental.completed is published before the commit.
EndUpdate_EmitsEarly(q) ==
  /\ req[q].pc = "end_update"
  /\ Goto(q, "end_scooter")
  /\ events' = events \cup {<<"completed", req[q].rental>>}
  /\ UNCHANGED <<scooter, row, charges, orphaned>>

\* EndTx: the row is 'completed' inside the transaction.
EndUpdate(q) ==
  /\ req[q].pc = "end_update"
  /\ Goto(q, "end_scooter")
  /\ UNCHANGED <<scooter, row, charges, events, orphaned>>

\* Mutant: a miss is retried until the scooter is 'rented' again.
EndScooter_Retries(q) ==
  /\ req[q].pc = "end_scooter"
  /\ Unblocked(q)
  /\ scooter[req[q].scooter] = [status |-> "rented", deleted |-> FALSE]
  /\ Goto(q, "end_commit")
  /\ UNCHANGED <<scooter, row, charges, events, orphaned>>

\* SetStatusTx rented -> available; a miss rolls the whole End back.
EndScooter(q) ==
  /\ req[q].pc = "end_scooter"
  /\ Unblocked(q)
  /\ IF scooter[req[q].scooter] = [status |-> "rented", deleted |-> FALSE]
       THEN Goto(q, "end_commit")
       ELSE Return(q)
  /\ UNCHANGED <<scooter, row, charges, events, orphaned>>

\* The computed cost is zero (debt none) or positive (owed until paid).
EndCommit(q) ==
  /\ req[q].pc = "end_commit"
  /\ scooter' = [scooter EXCEPT ![req[q].scooter].status = "available"]
  /\ \E d \in {"none", "owed"} :
       row' = [row EXCEPT ![req[q].rental] =
                 [@ EXCEPT !.status = "completed", !.debt = d]]
  /\ Goto(q, "end_emit")
  /\ UNCHANGED <<charges, events, orphaned>>

\* emitRentalCompleted whether or not the user row loads; without the user
\* the request returns 'failed' and nothing is charged.
EndEmit(q) ==
  /\ req[q].pc = "end_emit"
  /\ events' \in {events, events \cup {<<"completed", req[q].rental>>}}
  /\ Goto(q, "end_charge") \/ Return(q)
  /\ UNCHANGED <<scooter, row, charges, orphaned>>

\* ChargeRental, whose own steps are module Payments: afterwards a rental
\* with a cost is paid or still owed.
EndCharge(q) ==
  LET r == req[q].rental IN
  /\ req[q].pc = "end_charge"
  /\ charges' = [charges EXCEPT ![r] = @ + 1]
  /\ \E d \in Debts : /\ (d = "none") <=> (row[r].debt = "none")
                      /\ row' = [row EXCEPT ![r].debt = d]
  /\ Return(q)
  /\ UNCHANGED <<scooter, events, orphaned>>

\* A webhook or an offline approval settles a completed rental later.
Settle(r) ==
  /\ row[r].debt = "owed"
  /\ row' = [row EXCEPT ![r].debt = "settled"]
  /\ UNCHANGED <<scooter, req, charges, events, orphaned>>

-----------------------------------------------------------------------------
(* AdminCancel: two transactions, the rental first and then its scooter. *)

\* Get: anything but an active rental is a Conflict and changes nothing.
BeginCancel(q, r) ==
  /\ req[q].pc = "idle"
  /\ row[r].status = "active"
  /\ req' = [req EXCEPT ![q] = [pc |-> "cancel_update", user |-> None,
                                scooter |-> row[r].scooter, rental |-> r]]
  /\ UNCHANGED <<scooter, row, charges, events, orphaned>>

\* Mutant: the UPDATE has no status condition.
CancelUpdate_AnyStatus(q) ==
  /\ req[q].pc = "cancel_update"
  /\ Unblocked(q)
  /\ row' = [row EXCEPT ![req[q].rental].status = "cancelled"]
  /\ Goto(q, "cancel_release")
  /\ UNCHANGED <<scooter, charges, events, orphaned>>

\* Cancel: UPDATE ... WHERE status = 'active', committed on its own.
CancelUpdate(q) ==
  /\ req[q].pc = "cancel_update"
  /\ Unblocked(q)
  /\ IF row[req[q].rental].status = "active"
       THEN /\ row' = [row EXCEPT ![req[q].rental].status = "cancelled"]
            /\ Goto(q, "cancel_release")
       ELSE /\ Return(q)
            /\ UNCHANGED row
  /\ UNCHANGED <<scooter, charges, events, orphaned>>

\* SetStatusTx rented -> available; ScooterUnavailable counts as success.
CancelRelease(q) ==
  /\ req[q].pc = "cancel_release"
  /\ Unblocked(q)
  /\ IF scooter[req[q].scooter] = [status |-> "rented", deleted |-> FALSE]
       THEN Goto(q, "cancel_commit")
       ELSE Return(q)
  /\ UNCHANGED <<scooter, row, charges, events, orphaned>>

CancelCommit(q) ==
  /\ req[q].pc = "cancel_commit"
  /\ scooter' = [scooter EXCEPT ![req[q].scooter].status = "available"]
  /\ Return(q)
  /\ UNCHANGED <<row, charges, events, orphaned>>

-----------------------------------------------------------------------------
(* Failures *)

Rollback(q) ==
  /\ Return(q)
  /\ orphaned' = orphaned \cup
        {s \in Scooters : /\ req[q].pc \in {"cancel_release", "cancel_commit"}
                          /\ s = req[q].scooter}
  /\ UNCHANGED <<scooter, row, charges, events>>

\* A statement or commit fails, the client's context is cancelled or the
\* process dies: the deferred Rollback (or the database) undoes the open
\* transaction and the rest of the handler never runs.
Abort(q) ==
  /\ Faults
  /\ req[q].pc # "idle"
  /\ Rollback(q)

\* The database aborts one transaction of a cycle of waiting ones.
DeadlockVictim(q) ==
  /\ \E S \in SUBSET Requests : q \in S /\ Deadlocked(S)
  /\ Rollback(q)

-----------------------------------------------------------------------------
(* Administrators: single statements, each waiting for the scooter's row. *)

ScooterUnlocked(s) == \A q \in Requests : ~HoldsScooter(q, s)

\* Mutant: Create leaves the status to Go's zero value.
AddScooter_NoStatus(s) ==
  /\ scooter[s].status = "absent"
  /\ scooter' = [scooter EXCEPT ![s].status = ""]
  /\ UNCHANGED <<row, req, charges, events, orphaned>>

AddScooter(s) ==
  /\ scooter[s].status = "absent"
  /\ scooter' = [scooter EXCEPT ![s].status = "available"]
  /\ UNCHANGED <<row, req, charges, events, orphaned>>

\* UpdateScooter accepts any of the four statuses, whatever the present one.
UpdateScooter(s, status) ==
  /\ AdminEdits
  /\ scooter[s].status # "absent"
  /\ ~scooter[s].deleted
  /\ ScooterUnlocked(s)
  /\ scooter' = [scooter EXCEPT ![s].status = status]
  /\ UNCHANGED <<row, req, charges, events, orphaned>>

\* RetireScooter soft-deletes without looking for an active rental.
RetireScooter(s) ==
  /\ AdminEdits
  /\ scooter[s].status # "absent"
  /\ ~scooter[s].deleted
  /\ ScooterUnlocked(s)
  /\ scooter' = [scooter EXCEPT ![s] = [status |-> "retired", deleted |-> TRUE]]
  /\ UNCHANGED <<row, req, charges, events, orphaned>>

-----------------------------------------------------------------------------
Init ==
  /\ scooter  = [s \in Scooters |-> [status |-> "absent", deleted |-> FALSE]]
  /\ row      = [r \in Rentals |-> AbsentRow]
  /\ req      = [q \in Requests |-> IdleReq]
  /\ charges  = [r \in Rentals |-> 0]
  /\ events   = {}
  /\ orphaned = {}

Begin(q) ==
  \/ \E u \in Users, s \in Scooters : BeginStart(q, u, s)
  \/ \E u \in Users, r \in Rentals : BeginEnd(q, r, u)
  \/ \E r \in Rentals : BeginCancel(q, r)

Step(q) ==
  \/ StartLock(q)    \/ StartInsert(q)   \/ StartConflict(q)
  \/ StartCommit(q)  \/ StartEmit(q)
  \/ EndLock(q)      \/ EndUpdate(q)     \/ EndScooter(q)
  \/ EndCommit(q)    \/ EndEmit(q)       \/ EndCharge(q)
  \/ CancelUpdate(q) \/ CancelRelease(q) \/ CancelCommit(q)

Admin(s) ==
  \/ AddScooter(s)
  \/ \E status \in ScooterStatus \ {"absent"} : UpdateScooter(s, status)
  \/ RetireScooter(s)

Next ==
  \/ \E q \in Requests : Begin(q) \/ Step(q) \/ Abort(q) \/ DeadlockVictim(q)
  \/ \E s \in Scooters : Admin(s)
  \/ \E r \in Rentals : Settle(r)

Spec == Init /\ [][Next]_vars

\* A handler runs until it returns.  Strong fairness: a statement that waits
\* for a row lock is served in the order of arrival, so it is not passed over
\* for ever; the deadlock detector eventually breaks a cycle.
Fairness == \A q \in Requests : SF_vars(Step(q)) /\ WF_vars(DeadlockVictim(q))
FairSpec == Spec /\ Fairness

-----------------------------------------------------------------------------
(* Properties *)

TypeOK ==
  /\ scooter \in [Scooters -> ScooterRow]
  /\ row \in [Rentals -> RentalRow]
  /\ req \in [Requests -> Request]
  /\ charges \in [Rentals -> Nat]
  /\ events \subseteq {"started", "completed"} \X (Rentals \cup {None})
  /\ orphaned \subseteq Scooters

Active(r)      == row[r].status = "active"
ActiveOn(s)    == {r \in Rentals : Active(r) /\ row[r].scooter = s}
Releasing(q, s) == /\ req[q].pc \in {"cancel_release", "cancel_commit"}
                   /\ req[q].scooter = s

\* No interleaving of Starts gives a rider two rides at once, or two riders
\* the same scooter, even while administrators flip scooters to 'available'
\* under an active rental (rentals_one_active_per_user / _per_scooter).
OneActiveRide ==
  \A r1, r2 \in Rentals :
    (Active(r1) /\ Active(r2) /\ r1 # r2) =>
      row[r1].user # row[r2].user /\ row[r1].scooter # row[r2].scooter

\* However many End requests race for a rental, ChargeRental runs at most once
\* for it, and never for a ride that was cancelled or is still going on.
ChargedAtMostOnce ==
  \A r \in Rentals : /\ charges[r] <= 1
                     /\ charges[r] = 1 => row[r].status = "completed"

\* What the broker is told agrees with the committed rows: no event for a
\* Start that rolled back, no rental.completed for a cancelled ride.
EventsMatchRows ==
  \A r \in Rentals :
    /\ <<"started", r>> \in events => row[r].status # "absent"
    /\ <<"completed", r>> \in events => row[r].status = "completed"

\* A rental that left 'active' never changes status, rider or scooter again,
\* whichever of End, End and AdminCancel race for it.
ClosedStaysClosed ==
  [][\A r \in Rentals :
       row[r].status \in {"completed", "cancelled"} =>
         /\ row'[r].status = row[r].status
         /\ row'[r].user = row[r].user
         /\ row'[r].scooter = row[r].scooter]_vars

\* What is left of a handler, in statements.
StatementsLeft ==
  [start_lock |-> 4, start_insert |-> 3, start_commit |-> 2, start_emit |-> 1,
   end_lock |-> 6, end_update |-> 5, end_scooter |-> 4, end_commit |-> 3,
   end_emit |-> 2, end_charge |-> 1, cancel_update |-> 3,
   cancel_release |-> 2, cancel_commit |-> 1, idle |-> 0]

\* Whatever administrators do and whatever fails, a handler that started only
\* gets closer to its return, and nobody else moves it: it runs six statements
\* at most and retries none (the safety half of RequestsReturn).
RequestsAdvance ==
  [][\A q \in Requests :
       req[q].pc # "idle" /\ req'[q] # req[q] =>
         StatementsLeft[req'[q].pc] < StatementsLeft[req[q].pc]]_vars

(* The next five hold while administrators leave the statuses alone, and are *)
(* checked and proved for AdminEdits = FALSE.                                *)

\* A scooter with an active rental is 'rented' and not deleted: it is not
\* offered to others, and the rider's End finds it in the state it can release
\* it from.
ActiveHoldsScooter ==
  \A r \in Rentals : Active(r) =>
    scooter[row[r].scooter] = [status |-> "rented", deleted |-> FALSE]

\* A scooter is off the market for a reason: someone rides it, an AdminCancel
\* is about to release it, or an AdminCancel died between its transactions.
RentedIsExplained ==
  \A s \in Scooters : scooter[s].status = "rented" =>
    \/ ActiveOn(s) # {}
    \/ \E q \in Requests : Releasing(q, s)
    \/ s \in orphaned

\* Start locks scooter then rental index, End rental then scooter: still no
\* cycle of waiting transactions arises.
NoLockCycle == \A S \in SUBSET Requests : ~Deadlocked(S)

\* A statement waits for a transaction that runs, or for one whose own wait is
\* for a transaction that runs: queues of blocked transactions never get longer,
\* so no lock timeout and no deadlock detector is needed to keep them moving.
WaitsAreShort ==
  \A p, q, r \in Requests : WaitsFor(p, q) /\ WaitsFor(q, r) => Unblocked(r)

\* As long as a request is being served, one that is being served is not
\* blocked: the service never stands still.
SomeoneRuns ==
  (\E q \in Requests : req[q].pc # "idle") =>
     \E q \in Requests : req[q].pc # "idle" /\ Unblocked(q)

(* The next two need, moreover, that no request is cut short (Faults is      *)
(* FALSE), and are proved for that case.                                     *)

\* Nothing but a failure half way through AdminCancel keeps a scooter that
\* nobody rides off the market.
RentedIsRidden ==
  \A s \in Scooters : scooter[s].status = "rented" =>
    ActiveOn(s) # {} \/ \E q \in Requests : Releasing(q, s)

\* An End that passed its checks completes the ride: it is never refused at the
\* scooter's row and never the victim of a deadlock.
EndsGoThrough ==
  [][\A q \in Requests :
       req[q].pc \in {"end_update", "end_scooter", "end_commit"} =>
         req'[q].pc # "idle"]_vars

-----------------------------------------------------------------------------
(* The inductive invariant behind the safety properties. *)

\* A row that exists names a rider and a scooter.
RowsOK ==
  \A r \in Rentals :
    IF row[r].status = "absent" THEN row[r] = AbsentRow
    ELSE row[r].user \in Users /\ row[r].scooter \in Scooters

\* What each request's locals say about the tables, by its position.
RequestsOK ==
  \A q \in Requests : LET r == req[q].rental IN
    /\ req[q].pc = "idle" => req[q] = IdleReq
    /\ req[q].pc \in {"start_lock", "start_insert", "start_commit"} =>
         req[q].user \in Users /\ req[q].scooter \in Scooters
    /\ req[q].pc \in {"start_lock", "start_insert"} => r = None
    /\ req[q].pc = "start_commit" => r \in Rentals /\ row[r].status = "absent"
    /\ req[q].pc = "start_emit" => r \in Rentals /\ row[r].status # "absent"
    /\ req[q].pc \in EndPC \cup CancelPC =>
         /\ r \in Rentals
         /\ row[r].status # "absent"
         /\ req[q].scooter = row[r].scooter
    /\ req[q].pc \in {"end_update", "end_scooter", "end_commit"} => Active(r)
    /\ req[q].pc \in {"end_emit", "end_charge"} =>
         row[r].status = "completed" /\ charges[r] = 0

\* Row locks are exclusive, one End at most is past its commit for a rental,
\* and the INSERTs in progress collide with nothing.
Exclusive ==
  \A p, q \in Requests : p # q =>
    /\ \A s \in Scooters : ~(HoldsScooter(p, s) /\ HoldsScooter(q, s))
    /\ \A r \in Rentals : ~(HoldsRental(p, r) /\ HoldsRental(q, r))
    /\ (req[p].pc \in {"end_emit", "end_charge"} /\
        req[q].pc \in {"end_emit", "end_charge"}) => req[p].rental # req[q].rental
    /\ (req[p].pc = "start_commit" /\ req[q].pc = "start_commit") =>
         req[p].user # req[q].user /\ req[p].rental # req[q].rental

InsertsOK == \A q \in Requests : req[q].pc = "start_commit" => Conflicts(q) = {}

\* Holds whatever administrators do.
RideInv ==
  /\ TypeOK
  /\ RowsOK
  /\ RequestsOK
  /\ Exclusive
  /\ InsertsOK
  /\ OneActiveRide
  /\ ChargedAtMostOnce
  /\ EventsMatchRows

MarketStatuses ==
  \A s \in Scooters : /\ ~scooter[s].deleted
                      /\ scooter[s].status \in {"absent", "available", "rented"}

\* One AdminCancel at most owes a scooter its release, and nobody rides it.
ReleaseOwed ==
  \A q \in Requests, s \in Scooters : Releasing(q, s) =>
    /\ scooter[s].status = "rented"
    /\ ActiveOn(s) = {}
    /\ \A p \in Requests : Releasing(p, s) => p = q

\* The row a Start has locked is still 'available'.
LockedAvailable ==
  \A q \in Requests : req[q].pc \in {"start_insert", "start_commit"} =>
    scooter[req[q].scooter].status = "available"

\* Holds while no administrator edits a scooter.
MarketInv ==
  /\ MarketStatuses
  /\ ActiveHoldsScooter
  /\ ReleaseOwed
  /\ LockedAvailable
  /\ RentedIsExplained

\* RideInv is inductive, and so is Inv when AdminEdits is FALSE.
Inv == RideInv /\ MarketInv

-----------------------------------------------------------------------------
\* The abstract view of the tables: who rides a scooter, what is on offer.
riderOf == [s \in Scooters |->
              IF ActiveOn(s) = {} THEN None
              ELSE row[CHOOSE r \in ActiveOn(s) : TRUE].user]
onOffer == {s \in Scooters : scooter[s].status = "available"}

Market == INSTANCE RideMarket WITH rider <- riderOf, offered <- onOffer

\* Rentals implements RideMarket while administrators leave the statuses
\* alone: although Start, End and AdminCancel take
\* several statements, each looks like one indivisible step on the market, and
\* a scooter is never on offer while it is ridden.
ImplementsMarket == Market!Spec

\* The abstract view of what rides cost.
debtOf == [r \in Rentals |->
             IF row[r].status = "completed" THEN row[r].debt ELSE "open"]
wasCharged == [r \in Rentals |-> charges[r] > 0]

Contract == INSTANCE RideDebt WITH Rides <- Rentals, debt <- debtOf,
                                   charged <- wasCharged

\* Rentals stays within the contract that Payments provides: End opens a debt
\* once, charges it once, after the commit, and never touches it again.
KeepsContract == Contract!Spec

\* The abstract view of the life of a ride.
statusOf == [r \in Rentals |-> row[r].status]
termsOf  == [r \in Rentals |-> <<row[r].user, row[r].scooter>>]
billOf   == [r \in Rentals |-> IF row[r].status # "completed" THEN "none"
                               ELSE IF row[r].debt = "none" THEN "free"
                                    ELSE "priced"]

Life == INSTANCE RideLife WITH Rides <- Rentals,
          Terms <- Users \X Scooters, NoTerms <- <<None, None>>,
          Bills <- {"free", "priced"}, NoBill <- "none",
          status <- statusOf, terms <- termsOf, bill <- billOf

\* Rentals implements RideLife, even while administrators edit scooters and
\* requests fail: whichever of Start, End and AdminCancel race for a ride, its
\* rider, its scooter, how it ended and whether it costs anything are each
\* decided once, in one step, and for good.
ImplementsRideLife == Life!Spec

\* Every request returns: row locks are always released again.
RequestsReturn ==
  \A q \in Requests : req[q].pc # "idle" ~> req[q].pc = "idle"
=============================================================================
