--------------------------- MODULE RentalsProofs ---------------------------
(***************************************************************************)
(* Proofs about module Rentals, for all values of its constants: the       *)
(* invariant of the rides, what happens to a closed ride and to its debt,  *)
(* and what holds while administrators leave the statuses of the scooters  *)
(* alone, the implementation of RideMarket included.                       *)
(***************************************************************************)
EXTENDS Rentals, TLAPS

-----------------------------------------------------------------------------
(* What the two ways of moving a request do to the table of requests. *)

\* Goto moves one request to another position and leaves its locals alone.
LEMMA GotoStep ==
  ASSUME req \in [Requests -> Request], NEW q \in Requests, NEW pc \in PCs,
         Goto(q, pc)
  PROVE  /\ req' \in [Requests -> Request]
         /\ req'[q].pc = pc
         /\ req'[q].user = req[q].user
         /\ req'[q].scooter = req[q].scooter
         /\ req'[q].rental = req[q].rental
         /\ \A p \in Requests : p # q => req'[p] = req[p]
  BY DEF Goto, Request

\* Return leaves the request idle.
LEMMA ReturnStep ==
  ASSUME req \in [Requests -> Request], NEW q \in Requests, Return(q)
  PROVE  /\ req' \in [Requests -> Request]
         /\ req'[q] = IdleReq
         /\ \A p \in Requests : p # q => req'[p] = req[p]
<1>1. IdleReq \in Request
  BY DEF IdleReq, Request, PCs
<1> QED
  BY <1>1 DEF Return

\* The positions an action moves a request to are positions.
LEMMA Positions ==
  /\ "start_lock" \in PCs /\ "start_insert" \in PCs /\ "start_commit" \in PCs
  /\ "start_emit" \in PCs /\ "end_lock" \in PCs /\ "end_update" \in PCs
  /\ "end_scooter" \in PCs /\ "end_commit" \in PCs /\ "end_emit" \in PCs
  /\ "end_charge" \in PCs /\ "cancel_update" \in PCs
  /\ "cancel_release" \in PCs /\ "cancel_commit" \in PCs
  BY DEF PCs, StartPC, EndPC, CancelPC

-----------------------------------------------------------------------------
(* Type correctness *)

LEMMA InitTypeOK == Init => TypeOK
  BY DEF Init, TypeOK, ScooterRow, RentalRow, Request, ScooterStatus,
         RentalStatus, Debts, PCs, AbsentRow, IdleReq

\* The request table stays well typed, whichever request moves.
LEMMA StepReqType ==
  ASSUME TypeOK, NEW q \in Requests, Begin(q) \/ Step(q) \/ Rollback(q)
  PROVE  req' \in [Requests -> Request]
<1> USE Positions DEF TypeOK
<1>1. CASE Begin(q)
  BY <1>1 DEF Begin, BeginStart, BeginEnd, BeginCancel, Request, RentalRow
<1>2. CASE StartInsert(q)
  BY <1>2 DEF StartInsert, Request
<1>3. CASE \E pc \in PCs : Goto(q, pc)
  BY <1>3, GotoStep
<1>4. CASE Return(q)
  BY <1>4, ReturnStep
<1>5. Step(q) => StartInsert(q) \/ (\E pc \in PCs : Goto(q, pc)) \/ Return(q)
  BY DEF Step, StartLock, StartConflict, StartCommit, StartEmit, EndLock,
         EndUpdate, EndScooter, EndCommit, EndEmit, EndCharge, CancelUpdate,
         CancelRelease, CancelCommit
<1> QED
  BY <1>1, <1>2, <1>3, <1>4, <1>5 DEF Rollback

\* Every action keeps the tables and the requests' locals well typed.
LEMMA NextTypeOK == TypeOK /\ [Next]_vars => TypeOK'
<1> SUFFICES ASSUME TypeOK, [Next]_vars PROVE TypeOK'
  OBVIOUS
<1> USE DEF TypeOK
<1>1. ASSUME NEW q \in Requests, Begin(q) PROVE TypeOK'
  BY <1>1, StepReqType DEF Begin, BeginStart, BeginEnd, BeginCancel
<1>2. ASSUME NEW q \in Requests, Step(q) PROVE TypeOK'
  <2> req' \in [Requests -> Request]
    BY <1>2, StepReqType
  <2>1. CASE StartLock(q) \/ StartConflict(q) \/ StartInsert(q)
    BY <2>1 DEF StartLock, StartConflict, StartInsert
  <2>3. CASE StartCommit(q)
    BY <2>3 DEF StartCommit, RentalRow, ScooterRow, ScooterStatus,
                RentalStatus, Debts, Request
  <2>4. CASE StartEmit(q) \/ EndEmit(q)
    <3>1. req[q].rental \in Rentals \cup {None}
      BY DEF Request
    <3>2. events' \subseteq {"started", "completed"} \X (Rentals \cup {None})
      BY <2>4, <3>1 DEF StartEmit, EndEmit
    <3> QED
      BY <2>4, <3>2 DEF StartEmit, EndEmit
  <2>5. CASE EndLock(q) \/ EndUpdate(q) \/ EndScooter(q)
    BY <2>5 DEF EndLock, EndUpdate, EndScooter
  <2>6. CASE EndCommit(q)
    <3>1. scooter' \in [Scooters -> ScooterRow]
      BY <2>6 DEF EndCommit, ScooterRow, ScooterStatus
    <3>2. row' \in [Rentals -> RentalRow]
      <4>1. ASSUME NEW o \in RentalRow, NEW d \in {"none", "owed"}
            PROVE  [o EXCEPT !.status = "completed", !.debt = d] \in RentalRow
        BY <4>1 DEF RentalRow, RentalStatus, Debts
      <4>2. PICK d \in {"none", "owed"} :
              row' = [row EXCEPT ![req[q].rental] =
                        [@ EXCEPT !.status = "completed", !.debt = d]]
        BY <2>6 DEF EndCommit
      <4>3. CASE req[q].rental \in Rentals
        <5> DEFINE new == [row[req[q].rental] EXCEPT !.status = "completed",
                                                     !.debt = d]
        <5>1. new \in RentalRow
          BY <4>1, <4>3
        <5>2. row' = [row EXCEPT ![req[q].rental] = new]
          BY <4>2
        <5> HIDE DEF new
        <5> QED
          BY <5>1, <5>2
      <4>4. CASE req[q].rental \notin Rentals
        BY <4>2, <4>4
      <4> QED
        BY <4>3, <4>4
    <3> QED
      BY <2>6, <3>1, <3>2 DEF EndCommit
  <2>7. CASE EndCharge(q)
    <3> DEFINE r == req[q].rental
    <3>1. charges' = [charges EXCEPT ![r] = charges[r] + 1]
      BY <2>7 DEF EndCharge
    <3>2. charges' \in [Rentals -> Nat]
      <4>1. CASE r \in Rentals
        BY <3>1, <4>1
      <4>2. CASE r \notin Rentals
        BY <3>1, <4>2
      <4> QED
        BY <4>1, <4>2
    <3>3. row' \in [Rentals -> RentalRow]
      BY <2>7 DEF EndCharge, RentalRow
    <3> QED
      BY <2>7, <3>2, <3>3 DEF EndCharge
  <2>8. CASE CancelUpdate(q)
    BY <2>8 DEF CancelUpdate, RentalRow, RentalStatus
  <2>9. CASE CancelRelease(q) \/ CancelCommit(q)
    BY <2>9 DEF CancelRelease, CancelCommit, ScooterRow, ScooterStatus
  <2> QED
    BY <1>2, <2>1, <2>3, <2>4, <2>5, <2>6, <2>7, <2>8, <2>9 DEF Step
<1>3. ASSUME NEW q \in Requests, Rollback(q) PROVE TypeOK'
  BY <1>3, StepReqType DEF Rollback
<1>4. ASSUME NEW s \in Scooters, Admin(s) PROVE TypeOK'
  <2>1. scooter' \in [Scooters -> ScooterRow]
    <3>1. CASE AddScooter(s)
      BY <3>1 DEF AddScooter, ScooterRow, ScooterStatus
    <3>2. ASSUME NEW st \in ScooterStatus, UpdateScooter(s, st)
          PROVE  scooter' \in [Scooters -> ScooterRow]
      BY <3>2 DEF UpdateScooter, ScooterRow
    <3>3. CASE RetireScooter(s)
      BY <3>3 DEF RetireScooter, ScooterRow, ScooterStatus
    <3> QED
      BY <1>4, <3>1, <3>2, <3>3 DEF Admin
  <2> QED
    BY <1>4, <2>1 DEF Admin, AddScooter, UpdateScooter, RetireScooter
<1>5. ASSUME NEW r \in Rentals, Settle(r) PROVE TypeOK'
  BY <1>5 DEF Settle, RentalRow, Debts
<1>6. CASE UNCHANGED vars
  BY <1>6 DEF vars
<1> QED
  BY <1>1, <1>2, <1>3, <1>4, <1>5, <1>6 DEF Next, Abort, DeadlockVictim

\* The tables of the database and the locals of the requests always have the
\* shape the schema and the handlers give them.
THEOREM TypeCorrect == Spec => []TypeOK
  BY InitTypeOK, NextTypeOK, PTL DEF Spec

-----------------------------------------------------------------------------
(* RideInv, which holds whatever administrators do *)

\* The tables RideInv speaks of.
Tables == <<row, charges, events>>

LEMMA InitRideInv == Init => RideInv
<1> SUFFICES ASSUME Init PROVE RideInv
  OBVIOUS
<1> QED
  BY InitTypeOK DEF Init, RideInv, RowsOK, RequestsOK, Exclusive, InsertsOK,
       OneActiveRide, ChargedAtMostOnce, EventsMatchRows, AbsentRow, IdleReq,
       Active, HoldsScooter, HoldsRental, EndPC, CancelPC

\* What RideInv says of the tables alone survives a step that leaves them.
LEMMA TablesKept ==
  ASSUME RideInv, UNCHANGED Tables
  PROVE  RowsOK' /\ OneActiveRide' /\ ChargedAtMostOnce' /\ EventsMatchRows'
  BY DEF RideInv, Tables, RowsOK, OneActiveRide, ChargedAtMostOnce,
         EventsMatchRows, Active

\* A request that returns gives up its locks and claims nothing.
LEMMA ReturnKeepsRideInv ==
  ASSUME RideInv, TypeOK', NEW q \in Requests, Return(q), UNCHANGED Tables
  PROVE  RideInv'
<1> USE DEF RideInv
<1>1. /\ req' \in [Requests -> Request]
      /\ req'[q] = IdleReq
      /\ \A p \in Requests : p # q => req'[p] = req[p]
  BY ReturnStep DEF TypeOK
<1>2. RequestsOK'
  BY <1>1 DEF RequestsOK, IdleReq, EndPC, CancelPC, Tables, Active
<1>3. Exclusive'
  BY <1>1 DEF Exclusive, IdleReq, HoldsScooter, HoldsRental
<1>4. InsertsOK'
  BY <1>1 DEF InsertsOK, IdleReq, Conflicts, Tables
<1> QED
  BY <1>2, <1>3, <1>4, TablesKept

\* A new request holds no lock and takes its rental from a committed row.
LEMMA BeginKeepsRideInv ==
  ASSUME RideInv, TypeOK', NEW q \in Requests, Begin(q)
  PROVE  RideInv'
<1> USE DEF RideInv
<1>1. UNCHANGED Tables
  BY DEF Begin, BeginStart, BeginEnd, BeginCancel, Tables
<1>2. /\ \A p \in Requests : p # q => req'[p] = req[p]
      /\ \/ /\ req'[q].pc = "start_lock"
            /\ req'[q].user \in Users /\ req'[q].scooter \in Scooters
            /\ req'[q].rental = None
         \/ /\ req'[q].pc \in {"end_lock", "cancel_update"}
            /\ req'[q].rental \in Rentals
            /\ row[req'[q].rental].status # "absent"
            /\ req'[q].scooter = row[req'[q].rental].scooter
  BY DEF Begin, BeginStart, BeginEnd, BeginCancel, TypeOK
<1>3. RequestsOK'
  BY <1>1, <1>2 DEF RequestsOK, EndPC, CancelPC, Tables, Active, IdleReq
<1>4. Exclusive'
  BY <1>2 DEF Exclusive, HoldsScooter, HoldsRental
<1>5. InsertsOK'
  BY <1>1, <1>2 DEF InsertsOK, Conflicts, Tables
<1> QED
  BY <1>1, <1>3, <1>4, <1>5, TablesKept

\* The statements of a transaction that change no committed row: each takes
\* a lock only when no other request holds it.
LEMMA StatementKeepsRideInv ==
  ASSUME RideInv, TypeOK', NEW q \in Requests,
         \/ StartLock(q) \/ StartInsert(q) \/ StartConflict(q)
         \/ EndLock(q) \/ EndUpdate(q) \/ EndScooter(q) \/ CancelRelease(q)
  PROVE  RideInv'
<1> USE DEF RideInv
<1>1. UNCHANGED Tables
  BY DEF StartLock, StartInsert, StartConflict, EndLock, EndUpdate,
         EndScooter, CancelRelease, Tables
<1>2. CASE Return(q)
  BY <1>1, <1>2, ReturnKeepsRideInv
<1>3. CASE StartLock(q) /\ Goto(q, "start_insert")
  <2>1. /\ req'[q].pc = "start_insert"
        /\ req'[q].user = req[q].user
        /\ req'[q].scooter = req[q].scooter
        /\ req'[q].rental = req[q].rental
        /\ \A p \in Requests : p # q => req'[p] = req[p]
    BY <1>3, GotoStep, Positions DEF TypeOK
  <2>2. RequestsOK'
    BY <1>1, <1>3, <2>1 DEF RequestsOK, EndPC, CancelPC, Tables, Active,
                            StartLock, IdleReq
  <2>3. Exclusive'
    BY <1>3, <2>1 DEF Exclusive, HoldsScooter, HoldsRental, StartLock,
                      Unblocked, WaitsFor
  <2>4. InsertsOK'
    BY <1>1, <2>1 DEF InsertsOK, Conflicts, Tables
  <2> QED
    BY <1>1, <2>2, <2>3, <2>4, TablesKept
<1>4. CASE StartInsert(q)
  <2>1. /\ req'[q].pc = "start_commit"
        /\ req'[q].user = req[q].user
        /\ req'[q].scooter = req[q].scooter
        /\ req'[q].rental \in Rentals
        /\ row[req'[q].rental].status = "absent"
        /\ \A p \in Requests : req[p].rental # req'[q].rental
        /\ \A p \in Requests : p # q => req'[p] = req[p]
    BY <1>4 DEF StartInsert, TypeOK, Request
  <2>2. RequestsOK'
    BY <1>1, <1>4, <2>1 DEF RequestsOK, EndPC, CancelPC, Tables, Active,
                            StartInsert, IdleReq
  <2>3. \A p \in Requests : (p # q /\ req[p].pc = "start_commit") =>
          req[p].user # req[q].user
    BY <1>4 DEF StartInsert, Unblocked, WaitsFor
  <2>4. Exclusive'
    <3>1. req[q].pc = "start_insert"
      BY <1>4 DEF StartInsert
    <3> QED
      BY <2>1, <2>3, <3>1 DEF Exclusive, HoldsScooter, HoldsRental
  <2>5. InsertsOK'
    <3>1. \A p \in Requests : Conflicts(p)' = Conflicts(p)
      BY <1>1, <2>1 DEF Conflicts, Tables
    <3>2. Conflicts(q) = {}
      BY <1>4 DEF StartInsert
    <3> QED
      BY <2>1, <3>1, <3>2 DEF InsertsOK
  <2> QED
    BY <1>1, <2>2, <2>4, <2>5, TablesKept
<1>5. CASE EndLock(q) /\ Goto(q, "end_update")
  <2>1. /\ req'[q].pc = "end_update"
        /\ req'[q].user = req[q].user
        /\ req'[q].scooter = req[q].scooter
        /\ req'[q].rental = req[q].rental
        /\ \A p \in Requests : p # q => req'[p] = req[p]
    BY <1>5, GotoStep, Positions DEF TypeOK
  <2>2. RequestsOK'
    <3>1. req[q].pc = "end_lock"
      BY <1>5 DEF EndLock
    <3>2. ~Return(q)
      BY <2>1, ReturnStep DEF TypeOK, IdleReq
    <3>3. row[req[q].rental].status = "active"
      BY <1>5, <3>2 DEF EndLock
    <3> QED
      BY <1>1, <2>1, <3>1, <3>3 DEF RequestsOK, EndPC, CancelPC, Tables,
                                    Active, IdleReq
  <2>3. Exclusive'
    BY <1>5, <2>1 DEF Exclusive, HoldsScooter, HoldsRental, EndLock,
                      Unblocked, WaitsFor
  <2>4. InsertsOK'
    BY <1>1, <2>1 DEF InsertsOK, Conflicts, Tables
  <2> QED
    BY <1>1, <2>2, <2>3, <2>4, TablesKept
<1>6. CASE EndUpdate(q) /\ Goto(q, "end_scooter")
  <2>1. /\ req'[q].pc = "end_scooter"
        /\ req'[q].user = req[q].user
        /\ req'[q].scooter = req[q].scooter
        /\ req'[q].rental = req[q].rental
        /\ \A p \in Requests : p # q => req'[p] = req[p]
    BY <1>6, GotoStep, Positions DEF TypeOK
  <2>2. RequestsOK'
    BY <1>1, <1>6, <2>1 DEF RequestsOK, EndPC, CancelPC, Tables, Active,
                            EndUpdate, IdleReq
  <2>3. Exclusive'
    BY <1>6, <2>1 DEF Exclusive, HoldsScooter, HoldsRental, EndUpdate
  <2>4. InsertsOK'
    BY <1>1, <2>1 DEF InsertsOK, Conflicts, Tables
  <2> QED
    BY <1>1, <2>2, <2>3, <2>4, TablesKept
<1>7. CASE EndScooter(q) /\ Goto(q, "end_commit")
  <2>1. /\ req'[q].pc = "end_commit"
        /\ req'[q].user = req[q].user
        /\ req'[q].scooter = req[q].scooter
        /\ req'[q].rental = req[q].rental
        /\ \A p \in Requests : p # q => req'[p] = req[p]
    BY <1>7, GotoStep, Positions DEF TypeOK
  <2>2. RequestsOK'
    BY <1>1, <1>7, <2>1 DEF RequestsOK, EndPC, CancelPC, Tables, Active,
                            EndScooter, IdleReq
  <2>3. Exclusive'
    BY <1>7, <2>1 DEF Exclusive, HoldsScooter, HoldsRental, EndScooter,
                      Unblocked, WaitsFor
  <2>4. InsertsOK'
    BY <1>1, <2>1 DEF InsertsOK, Conflicts, Tables
  <2> QED
    BY <1>1, <2>2, <2>3, <2>4, TablesKept
<1>8. CASE CancelRelease(q) /\ Goto(q, "cancel_commit")
  <2>1. /\ req'[q].pc = "cancel_commit"
        /\ req'[q].user = req[q].user
        /\ req'[q].scooter = req[q].scooter
        /\ req'[q].rental = req[q].rental
        /\ \A p \in Requests : p # q => req'[p] = req[p]
    BY <1>8, GotoStep, Positions DEF TypeOK
  <2>2. RequestsOK'
    BY <1>1, <1>8, <2>1 DEF RequestsOK, EndPC, CancelPC, Tables, Active,
                            CancelRelease, IdleReq
  <2>3. Exclusive'
    BY <1>8, <2>1 DEF Exclusive, HoldsScooter, HoldsRental, CancelRelease,
                      Unblocked, WaitsFor
  <2>4. InsertsOK'
    BY <1>1, <2>1 DEF InsertsOK, Conflicts, Tables
  <2> QED
    BY <1>1, <2>2, <2>3, <2>4, TablesKept
<1> QED
  BY <1>2, <1>3, <1>4, <1>5, <1>6, <1>7, <1>8 DEF StartLock, StartConflict,
     EndLock, EndUpdate, EndScooter, CancelRelease

\* The commit of a Start: its INSERT collided with no active rental and the
\* others in progress are of other riders and other scooters.
LEMMA StartCommitKeepsRideInv ==
  ASSUME RideInv, TypeOK', NEW q \in Requests, StartCommit(q)
  PROVE  RideInv'
<1> USE DEF RideInv
<1> DEFINE n == req[q].rental
<1>1. /\ req[q].pc = "start_commit"
      /\ n \in Rentals /\ row[n].status = "absent"
      /\ req[q].user \in Users /\ req[q].scooter \in Scooters
  BY DEF StartCommit, RequestsOK
<1>2. /\ req'[q].pc = "start_emit" /\ req'[q].rental = n
      /\ req'[q].user = req[q].user /\ req'[q].scooter = req[q].scooter
      /\ \A p \in Requests : p # q => req'[p] = req[p]
  BY GotoStep, Positions DEF StartCommit, TypeOK
<1>3. /\ row'[n].status = "active"
      /\ row'[n].user = req[q].user
      /\ row'[n].scooter = req[q].scooter
      /\ \A r \in Rentals : r # n => row'[r] = row[r]
      /\ UNCHANGED <<charges, events>>
  BY <1>1 DEF StartCommit, TypeOK
<1> HIDE DEF n
<1>4. RowsOK'
  BY <1>1, <1>3 DEF RowsOK
<1>5. \A p \in Requests : (p # q /\ req[p].pc = "start_commit") =>
        /\ req[p].user # req[q].user
        /\ req[p].rental # n
        /\ req[p].scooter # req[q].scooter
  BY <1>1 DEF Exclusive, HoldsScooter, n
<1>6. RequestsOK'
  BY <1>1, <1>2, <1>3, <1>5 DEF RequestsOK, EndPC, CancelPC, Active, IdleReq
<1>7. Exclusive'
  BY <1>1, <1>2 DEF Exclusive, HoldsScooter, HoldsRental
<1>8. InsertsOK'
  <2> SUFFICES ASSUME NEW p \in Requests, req'[p].pc = "start_commit",
                      NEW r \in Rentals, row'[r].status = "active"
               PROVE  row'[r].user # req'[p].user /\ row'[r].scooter # req'[p].scooter
    BY DEF InsertsOK, Conflicts
  <2>1. p # q /\ req'[p] = req[p]
    BY <1>2
  <2>2. CASE r = n
    BY <1>3, <1>5, <2>1, <2>2
  <2>3. CASE r # n
    BY <1>3, <2>1, <2>3 DEF InsertsOK, Conflicts
  <2> QED
    BY <2>2, <2>3
<1>9. \A r \in Rentals : row[r].status = "active" =>
        row[r].user # req[q].user /\ row[r].scooter # req[q].scooter
  BY <1>1 DEF InsertsOK, Conflicts
<1>10. OneActiveRide'
  BY <1>3, <1>9 DEF OneActiveRide, Active
<1>11. ChargedAtMostOnce' /\ EventsMatchRows'
  BY <1>1, <1>3 DEF ChargedAtMostOnce, EventsMatchRows
<1> QED
  BY <1>4, <1>6, <1>7, <1>8, <1>10, <1>11

\* A step that moves one active rental to 'completed' or 'cancelled' and whose
\* request is the only one that may do so.
LEMMA CloseKeepsRideInv ==
  ASSUME RideInv, TypeOK', NEW q \in Requests, EndCommit(q) \/ CancelUpdate(q),
         ~Return(q)
  PROVE  RideInv'
<1> USE DEF RideInv
<1> DEFINE n == req[q].rental
<1>1. /\ req[q].pc \in {"end_commit", "cancel_update"}
      /\ n \in Rentals /\ row[n].status = "active"
      /\ req[q].scooter = row[n].scooter
  BY DEF EndCommit, CancelUpdate, RequestsOK, Active, EndPC, CancelPC
<1>2. /\ req'[q].pc = IF req[q].pc = "end_commit" THEN "end_emit"
                                                 ELSE "cancel_release"
      /\ req'[q].rental = n
      /\ req'[q].user = req[q].user /\ req'[q].scooter = req[q].scooter
      /\ \A p \in Requests : p # q => req'[p] = req[p]
  BY GotoStep, Positions DEF EndCommit, CancelUpdate, TypeOK
<1>3. /\ row'[n].status = IF req[q].pc = "end_commit" THEN "completed"
                                                     ELSE "cancelled"
      /\ row'[n].user = row[n].user
      /\ row'[n].scooter = row[n].scooter
      /\ \A r \in Rentals : r # n => row'[r] = row[r]
      /\ UNCHANGED <<charges, events>>
  <2>1. row[n] \in RentalRow /\ row[n].status = "active"
    BY <1>1 DEF TypeOK
  <2>2. CASE EndCommit(q)
    <3>1. PICK d \in {"none", "owed"} :
            row' = [row EXCEPT ![n] = [@ EXCEPT !.status = "completed",
                                                !.debt = d]]
      BY <2>2 DEF EndCommit
    <3>2. row'[n] = [row[n] EXCEPT !.status = "completed", !.debt = d]
      BY <1>1, <3>1 DEF TypeOK
    <3>3. row'[n].status = "completed" /\ row'[n].user = row[n].user
          /\ row'[n].scooter = row[n].scooter
      BY <2>1, <3>2 DEF RentalRow
    <3> QED
      BY <2>2, <3>1, <3>3 DEF EndCommit, TypeOK
  <2>3. CASE CancelUpdate(q)
    BY <1>1, <2>1, <2>3 DEF CancelUpdate, TypeOK, RentalRow
  <2> QED
    BY <2>2, <2>3
<1>4. \A p \in Requests : p # q => ~HoldsRental(p, n)
  <2>1. CASE req[q].pc = "end_commit"
    BY <1>1, <2>1 DEF Exclusive, HoldsRental
  <2>2. CASE req[q].pc = "cancel_update"
    <3>1. Unblocked(q)
      BY <2>2 DEF EndCommit, CancelUpdate
    <3> QED
      BY <2>2, <3>1 DEF Unblocked, WaitsFor
  <2> QED
    BY <1>1, <2>1, <2>2
<1>5. charges[n] = 0
  <2>1. charges[n] \in Nat
    BY <1>1 DEF TypeOK
  <2>2. charges[n] <= 1 /\ (charges[n] = 1 => row[n].status = "completed")
    BY <1>1 DEF ChargedAtMostOnce
  <2>3. charges[n] # 1
    BY <1>1, <2>2
  <2> QED
    BY <2>1, <2>2, <2>3
<1> HIDE DEF n
<1>6. RowsOK'
  BY <1>1, <1>3 DEF RowsOK, AbsentRow
<1>7. RequestsOK'
  BY <1>1, <1>2, <1>3, <1>4, <1>5 DEF RequestsOK, HoldsRental, EndPC, CancelPC,
                                      Active, IdleReq
<1>8. Exclusive'
  <2>1. \A p \in Requests : req[p].pc \in {"end_emit", "end_charge"} =>
          req[p].rental # n
    BY <1>1 DEF RequestsOK
  <2> QED
    BY <1>1, <1>2, <2>1 DEF Exclusive, HoldsScooter, HoldsRental
<1>9. InsertsOK'
  BY <1>1, <1>2, <1>3 DEF InsertsOK, Conflicts
<1>10. OneActiveRide'
  BY <1>3 DEF OneActiveRide, Active
<1>11. ChargedAtMostOnce' /\ EventsMatchRows'
  BY <1>1, <1>3, <1>5 DEF ChargedAtMostOnce, EventsMatchRows
<1> QED
  BY <1>6, <1>7, <1>8, <1>9, <1>10, <1>11

\* Publishing an event of a committed rental, and charging a completed one.
LEMMA AfterCommitKeepsRideInv ==
  ASSUME RideInv, TypeOK', NEW q \in Requests,
         StartEmit(q) \/ EndEmit(q) \/ EndCharge(q)
  PROVE  RideInv'
<1> USE DEF RideInv
<1> DEFINE n == req[q].rental
<1>1. \/ /\ req[q].pc = "start_emit"
         /\ n \in Rentals /\ row[n].status # "absent"
      \/ /\ req[q].pc \in {"end_emit", "end_charge"}
         /\ n \in Rentals /\ row[n].status = "completed" /\ charges[n] = 0
  BY DEF StartEmit, EndEmit, EndCharge, RequestsOK, EndPC
<1>2. /\ \A p \in Requests : p # q => req'[p] = req[p]
      /\ \/ req'[q] = IdleReq
         \/ /\ EndEmit(q)
            /\ req'[q].pc = "end_charge" /\ req'[q].rental = n
            /\ req'[q].scooter = req[q].scooter
  BY GotoStep, ReturnStep, Positions DEF StartEmit, EndEmit, EndCharge, TypeOK
<1>3. CASE StartEmit(q) \/ EndEmit(q)
  <2>1. UNCHANGED <<row, charges>>
    BY <1>3 DEF StartEmit, EndEmit
  <2>2. RowsOK' /\ OneActiveRide' /\ ChargedAtMostOnce'
    BY <2>1 DEF RowsOK, OneActiveRide, ChargedAtMostOnce, Active
  <2>3. RequestsOK'
    BY <1>1, <1>2, <2>1 DEF RequestsOK, EndPC, CancelPC, Active, IdleReq,
                            EndEmit
  <2>4. Exclusive'
    BY <1>1, <1>2 DEF Exclusive, HoldsScooter, HoldsRental, IdleReq, EndEmit
  <2>5. InsertsOK'
    BY <1>2, <2>1 DEF InsertsOK, Conflicts, IdleReq
  <2>6. EventsMatchRows'
    <3>1. CASE StartEmit(q)
      <4>1. events' \subseteq events \cup {<<"started", n>>}
        BY <3>1 DEF StartEmit
      <4>2. row[n].status # "absent"
        BY <1>1
      <4> QED
        BY <2>1, <4>1, <4>2 DEF EventsMatchRows
    <3>2. CASE EndEmit(q)
      <4>1. events' \subseteq events \cup {<<"completed", n>>}
        BY <3>2 DEF EndEmit
      <4>2. row[n].status = "completed"
        BY <1>1, <3>2 DEF EndEmit
      <4> QED
        BY <2>1, <4>1, <4>2 DEF EventsMatchRows
    <3> QED
      BY <1>3, <3>1, <3>2
  <2> QED
    BY <2>2, <2>3, <2>4, <2>5, <2>6
<1>4. CASE EndCharge(q)
  <2>1. /\ req[q].pc = "end_charge" /\ req'[q] = IdleReq
        /\ UNCHANGED events
    BY <1>4, ReturnStep DEF EndCharge, TypeOK
  <2>2. /\ charges'[n] = 1
        /\ \A r \in Rentals : r # n => charges'[r] = charges[r]
    BY <1>1, <1>4, <2>1 DEF EndCharge, TypeOK
  <2>3. \A r \in Rentals : /\ row'[r].status = row[r].status
                           /\ row'[r].user = row[r].user
                           /\ row'[r].scooter = row[r].scooter
    BY <1>4 DEF EndCharge, TypeOK, RentalRow
  <2>4. \A r \in Rentals : r # n => row'[r] = row[r]
    BY <1>4 DEF EndCharge, TypeOK
  <2>5. \A p \in Requests : (p # q /\ req[p].pc \in {"end_emit", "end_charge"})
          => req[p].rental # n
    BY <2>1 DEF Exclusive
  <2> HIDE DEF n
  <2>6. RowsOK'
    BY <1>1, <2>1, <2>3, <2>4 DEF RowsOK
  <2>7. OneActiveRide'
    BY <2>3 DEF OneActiveRide, Active
  <2>8. ChargedAtMostOnce'
    BY <1>1, <2>1, <2>2, <2>3 DEF ChargedAtMostOnce
  <2>9. EventsMatchRows'
    BY <2>1, <2>3 DEF EventsMatchRows
  <2>10. RequestsOK'
    BY <1>2, <2>1, <2>2, <2>3, <2>5 DEF RequestsOK, EndPC, CancelPC, Active,
                                        IdleReq
  <2>11. Exclusive'
    BY <1>2, <2>1 DEF Exclusive, HoldsScooter, HoldsRental, IdleReq
  <2>12. InsertsOK'
    BY <1>2, <2>1, <2>3 DEF InsertsOK, Conflicts, IdleReq
  <2> QED
    BY <2>6, <2>7, <2>8, <2>9, <2>10, <2>11, <2>12
<1> QED
  BY <1>3, <1>4

LEMMA NextRideInv == RideInv /\ [Next]_vars => RideInv'
<1> SUFFICES ASSUME RideInv, [Next]_vars PROVE RideInv'
  OBVIOUS
<1>1. TypeOK'
  BY NextTypeOK DEF RideInv
<1>2. ASSUME NEW q \in Requests, Begin(q) PROVE RideInv'
  BY <1>1, <1>2, BeginKeepsRideInv
<1>3. ASSUME NEW q \in Requests, Return(q), UNCHANGED Tables PROVE RideInv'
  BY <1>1, <1>3, ReturnKeepsRideInv
<1>4. ASSUME NEW q \in Requests, Step(q) PROVE RideInv'
  <2>1. CASE \/ StartLock(q) \/ StartInsert(q) \/ StartConflict(q)
             \/ EndLock(q) \/ EndUpdate(q) \/ EndScooter(q) \/ CancelRelease(q)
    BY <1>1, <2>1, StatementKeepsRideInv
  <2>2. CASE StartCommit(q)
    BY <1>1, <2>2, StartCommitKeepsRideInv
  <2>3. CASE EndCommit(q) \/ CancelUpdate(q)
    <3>1. CASE Return(q)
      <4>1. UNCHANGED Tables
        <5>1. req'[q].pc = "idle"
          BY <3>1, ReturnStep DEF RideInv, TypeOK, IdleReq
        <5>2. ~EndCommit(q) /\ ~Goto(q, "cancel_release")
          BY <5>1, GotoStep, Positions DEF EndCommit, RideInv, TypeOK
        <5> QED
          BY <2>3, <5>2 DEF CancelUpdate, Tables
      <4> QED
        BY <1>3, <3>1, <4>1
    <3> QED
      BY <1>1, <2>3, <3>1, CloseKeepsRideInv
  <2>4. CASE StartEmit(q) \/ EndEmit(q) \/ EndCharge(q)
    BY <1>1, <2>4, AfterCommitKeepsRideInv
  <2>5. CASE CancelCommit(q)
    BY <1>3, <2>5 DEF CancelCommit, Tables
  <2> QED
    BY <1>4, <2>1, <2>2, <2>3, <2>4, <2>5 DEF Step
<1>5. ASSUME NEW q \in Requests, Rollback(q) PROVE RideInv'
  BY <1>3, <1>5 DEF Rollback, Tables
<1>6. CASE UNCHANGED <<row, req, charges, events>>
  BY <1>1, <1>6 DEF RideInv, RowsOK, RequestsOK, Exclusive, InsertsOK, Active,
     OneActiveRide, ChargedAtMostOnce, EventsMatchRows, Conflicts, HoldsScooter,
     HoldsRental
<1>7. ASSUME NEW r \in Rentals, Settle(r) PROVE RideInv'
  <2>1. /\ UNCHANGED <<req, charges, events>>
        /\ \A x \in Rentals : /\ row'[x].status = row[x].status
                              /\ row'[x].user = row[x].user
                              /\ row'[x].scooter = row[x].scooter
    BY <1>7 DEF Settle, RideInv, TypeOK, RentalRow
  <2>2. RowsOK'
    <3>1. row[r].status # "absent"
      BY <1>7 DEF Settle, RideInv, RowsOK, AbsentRow
    <3>2. \A x \in Rentals : x # r => row'[x] = row[x]
      BY <1>7 DEF Settle, RideInv, TypeOK
    <3> QED
      BY <2>1, <3>1, <3>2 DEF RideInv, RowsOK
  <2>3. RequestsOK'
    BY <2>1 DEF RideInv, RequestsOK, Active, EndPC, CancelPC
  <2>4. Exclusive' /\ InsertsOK'
    BY <2>1 DEF RideInv, Exclusive, HoldsScooter, HoldsRental, InsertsOK,
                Conflicts
  <2>5. OneActiveRide' /\ ChargedAtMostOnce' /\ EventsMatchRows'
    BY <2>1 DEF RideInv, OneActiveRide, ChargedAtMostOnce, EventsMatchRows,
                Active
  <2> QED
    BY <1>1, <2>2, <2>3, <2>4, <2>5 DEF RideInv
<1>8. ASSUME NEW s \in Scooters, Admin(s) PROVE RideInv'
  BY <1>6, <1>8 DEF Admin, AddScooter, UpdateScooter, RetireScooter
<1>9. CASE UNCHANGED vars
  BY <1>6, <1>9 DEF vars
<1> QED
  BY <1>2, <1>4, <1>5, <1>7, <1>8, <1>9 DEF Next, Abort, DeadlockVictim

THEOREM RideInvariant == Spec => []RideInv
  BY InitRideInv, NextRideInv, PTL DEF Spec

\* Whatever administrators do and whenever requests fail, no rider has two
\* active rentals and no scooter is in two of them.
THEOREM OneRide == Spec => []OneActiveRide
<1>1. RideInv => OneActiveRide
  BY DEF RideInv
<1> QED
  BY <1>1, RideInvariant, PTL

\* However End, End and AdminCancel race, a rental is charged at most once and
\* only after it completed.
THEOREM ChargedOnce == Spec => []ChargedAtMostOnce
<1>1. RideInv => ChargedAtMostOnce
  BY DEF RideInv
<1> QED
  BY <1>1, RideInvariant, PTL

\* The broker never hears of a ride that was rolled back or cancelled.
THEOREM EventsTrue == Spec => []EventsMatchRows
<1>1. RideInv => EventsMatchRows
  BY DEF RideInv
<1> QED
  BY <1>1, RideInvariant, PTL

-----------------------------------------------------------------------------
(* What each action does to the row and the charges of one rental. *)

\* The one statement of the service that moves a ride to 'completed'.
LEMMA EndCommitRow ==
  ASSUME RideInv, NEW q \in Requests, EndCommit(q)
  PROVE  LET n == req[q].rental IN
         /\ n \in Rentals /\ row[n].status = "active"
         /\ row'[n].status = "completed" /\ row'[n].debt \in {"none", "owed"}
         /\ row'[n].user = row[n].user /\ row'[n].scooter = row[n].scooter
         /\ \A r \in Rentals : r # n => row'[r] = row[r]
         /\ UNCHANGED charges
<1> DEFINE n == req[q].rental
<1>1. n \in Rentals /\ row[n].status = "active" /\ row[n] \in RentalRow
  BY DEF EndCommit, RideInv, RequestsOK, Active, EndPC, TypeOK
<1>2. PICK d \in {"none", "owed"} :
        row' = [row EXCEPT ![n] = [@ EXCEPT !.status = "completed", !.debt = d]]
  BY DEF EndCommit
<1>3. row'[n] = [row[n] EXCEPT !.status = "completed", !.debt = d]
  BY <1>1, <1>2 DEF RideInv, TypeOK
<1>4. /\ row'[n].status = "completed" /\ row'[n].debt = d
      /\ row'[n].user = row[n].user /\ row'[n].scooter = row[n].scooter
  BY <1>1, <1>3 DEF RentalRow
<1>5. \A r \in Rentals : r # n => row'[r] = row[r]
  BY <1>2 DEF RideInv, TypeOK
<1> QED
  BY <1>1, <1>4, <1>5 DEF EndCommit

\* ChargeRental is called for a completed ride that was not charged before.
LEMMA EndChargeRow ==
  ASSUME RideInv, NEW q \in Requests, EndCharge(q)
  PROVE  LET n == req[q].rental IN
         /\ n \in Rentals /\ row[n].status = "completed" /\ charges[n] = 0
         /\ row'[n].status = "completed" /\ row'[n].debt \in Debts
         /\ row'[n].debt = "none" <=> row[n].debt = "none"
         /\ row'[n].user = row[n].user /\ row'[n].scooter = row[n].scooter
         /\ charges'[n] = 1
         /\ \A r \in Rentals :
              r # n => row'[r] = row[r] /\ charges'[r] = charges[r]
<1> DEFINE n == req[q].rental
<1>1. /\ n \in Rentals /\ row[n].status = "completed" /\ charges[n] = 0
      /\ row[n] \in RentalRow
  BY DEF EndCharge, RideInv, RequestsOK, EndPC, TypeOK
<1>2. PICK d \in Debts : /\ (d = "none") <=> (row[n].debt = "none")
                         /\ row' = [row EXCEPT ![n].debt = d]
  BY DEF EndCharge
<1>3. row'[n] = [row[n] EXCEPT !.debt = d]
  BY <1>1, <1>2 DEF RideInv, TypeOK
<1>4. /\ row'[n].status = "completed" /\ row'[n].debt = d
      /\ row'[n].user = row[n].user /\ row'[n].scooter = row[n].scooter
  BY <1>1, <1>3 DEF RentalRow
<1>5. charges'[n] = 1
  BY <1>1 DEF EndCharge, RideInv, TypeOK
<1>6. \A r \in Rentals : r # n => row'[r] = row[r] /\ charges'[r] = charges[r]
  BY <1>2 DEF EndCharge, RideInv, TypeOK
<1> QED
  BY <1>1, <1>2, <1>4, <1>5, <1>6

\* Paying later changes nothing but the debt.
LEMMA SettleRow ==
  ASSUME RideInv, NEW n \in Rentals, Settle(n)
  PROVE  /\ row[n].debt = "owed" /\ row'[n].debt = "settled"
         /\ row'[n].status = row[n].status
         /\ row'[n].user = row[n].user /\ row'[n].scooter = row[n].scooter
         /\ \A r \in Rentals : r # n => row'[r] = row[r]
         /\ UNCHANGED charges
<1>1. row[n] \in RentalRow /\ row' = [row EXCEPT ![n].debt = "settled"]
  BY DEF Settle, RideInv, TypeOK
<1>2. row'[n] = [row[n] EXCEPT !.debt = "settled"]
  BY <1>1 DEF RideInv, TypeOK
<1>3. /\ row'[n].debt = "settled" /\ row'[n].status = row[n].status
      /\ row'[n].user = row[n].user /\ row'[n].scooter = row[n].scooter
  BY <1>1, <1>2 DEF RentalRow
<1> QED
  BY <1>1, <1>3 DEF Settle, RideInv, TypeOK

\* A row that is inserted or cancelled was not, and is not, a closed ride
\* with a debt.
LEMMA OpenRows ==
  ASSUME RideInv, NEW q \in Requests, StartCommit(q) \/ CancelUpdate(q)
  PROVE  /\ \A r \in Rentals : row'[r] # row[r] =>
              /\ row[r].status \in {"absent", "active"}
              /\ row'[r].status \in {"active", "cancelled"}
         /\ UNCHANGED charges
<1>1. CASE StartCommit(q)
  <2>1. req[q].rental \in Rentals /\ row[req[q].rental].status = "absent"
    BY <1>1 DEF StartCommit, RideInv, RequestsOK
  <2> QED
    BY <1>1, <2>1 DEF StartCommit, RideInv, TypeOK
<1>2. CASE CancelUpdate(q)
  <2>1. CASE UNCHANGED row
    BY <1>2, <2>1 DEF CancelUpdate
  <2>2. CASE /\ row[req[q].rental].status = "active"
             /\ row' = [row EXCEPT ![req[q].rental].status = "cancelled"]
    BY <1>2, <2>2 DEF CancelUpdate, RideInv, TypeOK, RentalRow
  <2> QED
    BY <1>2, <2>1, <2>2 DEF CancelUpdate
<1> QED
  BY <1>1, <1>2

\* No other action touches a row or a count.
LEMMA OtherSteps ==
  ASSUME [Next]_vars
  PROVE  \/ \E q \in Requests : EndCommit(q) \/ EndCharge(q) \/ StartCommit(q)
                                \/ CancelUpdate(q)
         \/ \E r \in Rentals : Settle(r)
         \/ UNCHANGED <<row, charges>>
<1>1. ASSUME NEW q \in Requests, Begin(q) \/ Rollback(q)
      PROVE  UNCHANGED <<row, charges>>
  BY <1>1 DEF Begin, BeginStart, BeginEnd, BeginCancel, Rollback
<1>2. ASSUME NEW q \in Requests, Step(q)
      PROVE  \/ EndCommit(q) \/ EndCharge(q) \/ StartCommit(q) \/ CancelUpdate(q)
             \/ UNCHANGED <<row, charges>>
  BY <1>2 DEF Step, StartLock, StartInsert, StartConflict, StartEmit, EndLock,
     EndUpdate, EndScooter, EndEmit, CancelRelease, CancelCommit
<1>3. ASSUME NEW s \in Scooters, Admin(s) PROVE UNCHANGED <<row, charges>>
  BY <1>3 DEF Admin, AddScooter, UpdateScooter, RetireScooter
<1> QED
  BY <1>1, <1>2, <1>3 DEF Next, Abort, DeadlockVictim, vars

-----------------------------------------------------------------------------
(* A closed ride stays as it was closed. *)

LEMMA ClosedRowKept ==
  ASSUME RideInv, [Next]_vars, NEW r \in Rentals,
         row[r].status \in {"completed", "cancelled"}
  PROVE  /\ row'[r].status = row[r].status
         /\ row'[r].user = row[r].user
         /\ row'[r].scooter = row[r].scooter
<1>1. ASSUME NEW q \in Requests, StartCommit(q) \/ CancelUpdate(q)
      PROVE  row'[r] = row[r]
  BY <1>1, OpenRows
<1>2. ASSUME NEW q \in Requests, EndCommit(q)
      PROVE  row'[r] = row[r]
  BY <1>2, EndCommitRow
<1>3. ASSUME NEW q \in Requests, EndCharge(q)
      PROVE  /\ row'[r].status = row[r].status
             /\ row'[r].user = row[r].user
             /\ row'[r].scooter = row[r].scooter
  BY <1>3, EndChargeRow
<1>4. ASSUME NEW n \in Rentals, Settle(n)
      PROVE  /\ row'[r].status = row[r].status
             /\ row'[r].user = row[r].user
             /\ row'[r].scooter = row[r].scooter
  BY <1>4, SettleRow
<1> QED
  BY <1>1, <1>2, <1>3, <1>4, OtherSteps

\* Whichever of End, End and AdminCancel race for a ride, and whatever fails,
\* the first to close it decides what it is from then on.
THEOREM ClosedIsFinal == Spec => ClosedStaysClosed
<1>1. RideInv /\ [Next]_vars =>
        [\A r \in Rentals :
           row[r].status \in {"completed", "cancelled"} =>
             /\ row'[r].status = row[r].status
             /\ row'[r].user = row[r].user
             /\ row'[r].scooter = row[r].scooter]_vars
  BY ClosedRowKept
<1> QED
  BY <1>1, RideInvariant, PTL DEF Spec, ClosedStaysClosed

-----------------------------------------------------------------------------
(* Rentals implements RideLife *)

\* Two functions that differ at one argument at most.
LEMMA ExceptAt ==
  ASSUME NEW S, NEW f, NEW g, NEW r \in S,
         f = [x \in S |-> f[x]], g = [x \in S |-> g[x]],
         \A x \in S : x # r => g[x] = f[x]
  PROVE  g = [f EXCEPT ![r] = g[r]]
<1>1. [f EXCEPT ![r] = g[r]] = [x \in S |-> IF x = r THEN g[r] ELSE f[x]]
  OBVIOUS
<1>2. \A x \in S : g[x] = IF x = r THEN g[r] ELSE f[x]
  OBVIOUS
<1> QED
  BY <1>1, <1>2

LEMMA LifeViews ==
  /\ statusOf = [x \in Rentals |-> statusOf[x]]
  /\ statusOf' = [x \in Rentals |-> statusOf'[x]]
  /\ termsOf = [x \in Rentals |-> termsOf[x]]
  /\ termsOf' = [x \in Rentals |-> termsOf'[x]]
  /\ billOf = [x \in Rentals |-> billOf[x]]
  /\ billOf' = [x \in Rentals |-> billOf'[x]]
  BY DEF statusOf, termsOf, billOf

\* The views of one rental depend on its own row only.
LEMMA LifeOfOne ==
  ASSUME NEW r \in Rentals, row'[r] = row[r]
  PROVE  statusOf'[r] = statusOf[r] /\ termsOf'[r] = termsOf[r]
         /\ billOf'[r] = billOf[r]
  BY DEF statusOf, termsOf, billOf

\* A step that leaves the views of every rental alone is a stutter.
LEMMA LifeKept ==
  ASSUME \A x \in Rentals : /\ statusOf'[x] = statusOf[x]
                            /\ termsOf'[x] = termsOf[x]
                            /\ billOf'[x] = billOf[x]
  PROVE  UNCHANGED Life!vars
<1>1. statusOf' = statusOf /\ termsOf' = termsOf /\ billOf' = billOf
  BY LifeViews
<1> QED
  BY <1>1 DEF Life!vars

\* A step that changes the row of one rental changes the views there only.
LEMMA LifeAtOne ==
  ASSUME NEW n \in Rentals, \A x \in Rentals : x # n => row'[x] = row[x]
  PROVE  /\ statusOf' = [statusOf EXCEPT ![n] = statusOf'[n]]
         /\ termsOf' = [termsOf EXCEPT ![n] = termsOf'[n]]
         /\ billOf' = [billOf EXCEPT ![n] = billOf'[n]]
         /\ termsOf'[n] = termsOf[n] => termsOf' = termsOf
         /\ billOf'[n] = billOf[n] => billOf' = billOf
<1>1. \A x \in Rentals : x # n => /\ statusOf'[x] = statusOf[x]
                                  /\ termsOf'[x] = termsOf[x]
                                  /\ billOf'[x] = billOf[x]
  BY LifeOfOne
<1>2. statusOf' = [statusOf EXCEPT ![n] = statusOf'[n]]
  BY <1>1, LifeViews, ExceptAt
<1>3. termsOf' = [termsOf EXCEPT ![n] = termsOf'[n]]
  BY <1>1, LifeViews, ExceptAt
<1>4. billOf' = [billOf EXCEPT ![n] = billOf'[n]]
  BY <1>1, LifeViews, ExceptAt
<1>5. termsOf'[n] = termsOf[n] => termsOf' = termsOf
  BY <1>1, LifeViews
<1>6. billOf'[n] = billOf[n] => billOf' = billOf
  BY <1>1, LifeViews
<1> QED
  BY <1>2, <1>3, <1>4, <1>5, <1>6

\* The commit of a Start is the moment a ride starts.
LEMMA StartIsStart ==
  ASSUME RideInv, NEW q \in Requests, StartCommit(q)
  PROVE  Life!Next
<1> DEFINE n == req[q].rental
<1>1. /\ n \in Rentals /\ row[n].status = "absent"
      /\ req[q].user \in Users /\ req[q].scooter \in Scooters
  BY DEF StartCommit, RideInv, RequestsOK
<1>2. /\ row'[n] = [status |-> "active", user |-> req[q].user,
                    scooter |-> req[q].scooter, debt |-> "none"]
      /\ \A x \in Rentals : x # n => row'[x] = row[x]
  BY <1>1 DEF StartCommit, RideInv, TypeOK
<1> HIDE DEF n
<1>3. statusOf[n] = "absent" /\ statusOf'[n] = "active"
  BY <1>1, <1>2 DEF statusOf
<1>4. termsOf'[n] \in Users \X Scooters
  BY <1>1, <1>2 DEF termsOf
<1>5. billOf'[n] = billOf[n]
  BY <1>1, <1>2 DEF billOf
<1> QED
  BY <1>1, <1>2, <1>3, <1>4, <1>5, LifeAtOne
     DEF Life!Next, Life!Start, Life!Move

\* The commit of an End is the moment a ride is completed.
LEMMA EndIsComplete ==
  ASSUME RideInv, NEW q \in Requests, EndCommit(q)
  PROVE  Life!Next
<1> DEFINE n == req[q].rental
<1>1. /\ n \in Rentals /\ row[n].status = "active"
      /\ row'[n].status = "completed" /\ row'[n].debt \in {"none", "owed"}
      /\ row'[n].user = row[n].user /\ row'[n].scooter = row[n].scooter
      /\ \A x \in Rentals : x # n => row'[x] = row[x]
  BY EndCommitRow
<1> HIDE DEF n
<1>2. statusOf[n] = "active" /\ statusOf'[n] = "completed"
  BY <1>1 DEF statusOf
<1>3. termsOf'[n] = termsOf[n]
  BY <1>1 DEF termsOf
<1>4. billOf'[n] \in {"free", "priced"}
  BY <1>1 DEF billOf
<1> QED
  BY <1>1, <1>2, <1>3, <1>4, LifeAtOne
     DEF Life!Next, Life!Complete, Life!Move

\* The UPDATE of an AdminCancel cancels the ride or touches nothing.
LEMMA CancelIsCancel ==
  ASSUME RideInv, NEW q \in Requests, CancelUpdate(q)
  PROVE  [Life!Next]_(Life!vars)
<1>1. CASE UNCHANGED row
  BY <1>1, LifeKept, LifeOfOne
<1>2. CASE row[req[q].rental].status = "active"
  <2> DEFINE n == req[q].rental
  <2>1. n \in Rentals /\ row[n] \in RentalRow
    BY DEF CancelUpdate, RideInv, RequestsOK, CancelPC, TypeOK
  <2>2. /\ row'[n] = [row[n] EXCEPT !.status = "cancelled"]
        /\ \A x \in Rentals : x # n => row'[x] = row[x]
    BY <1>2, <2>1 DEF CancelUpdate, RideInv, TypeOK
  <2>3. /\ row'[n].status = "cancelled" /\ row'[n].user = row[n].user
        /\ row'[n].scooter = row[n].scooter
    BY <2>1, <2>2 DEF RentalRow
  <2> HIDE DEF n
  <2>4. statusOf[n] = "active" /\ statusOf'[n] = "cancelled"
    BY <1>2, <2>1, <2>3 DEF statusOf, n
  <2>5. termsOf'[n] = termsOf[n]
    BY <2>1, <2>3 DEF termsOf
  <2>6. billOf'[n] = billOf[n]
    BY <1>2, <2>1, <2>3 DEF billOf, n
  <2> QED
    BY <2>1, <2>2, <2>4, <2>5, <2>6, LifeAtOne
       DEF Life!Next, Life!Cancel, Life!Move
<1> QED
  BY <1>1, <1>2 DEF CancelUpdate

\* Charging and settling keep a bill a bill and no bill no bill.
LEMMA PaymentIsStutter ==
  ASSUME RideInv,
         \/ \E q \in Requests : EndCharge(q)
         \/ \E n \in Rentals : Settle(n)
  PROVE  UNCHANGED Life!vars
<1>1. ASSUME NEW q \in Requests, EndCharge(q) PROVE UNCHANGED Life!vars
  <2> DEFINE n == req[q].rental
  <2>1. /\ n \in Rentals /\ row[n].status = "completed"
        /\ row'[n].status = "completed"
        /\ row'[n].debt = "none" <=> row[n].debt = "none"
        /\ row'[n].user = row[n].user /\ row'[n].scooter = row[n].scooter
        /\ \A r \in Rentals : r # n => row'[r] = row[r]
    BY <1>1, EndChargeRow
  <2> HIDE DEF n
  <2>2. /\ statusOf'[n] = statusOf[n] /\ termsOf'[n] = termsOf[n]
        /\ billOf'[n] = billOf[n]
    BY <2>1 DEF statusOf, termsOf, billOf
  <2> QED
    BY <2>1, <2>2, LifeKept, LifeOfOne
<1>2. ASSUME NEW n \in Rentals, Settle(n) PROVE UNCHANGED Life!vars
  <2>1. /\ row[n].debt = "owed" /\ row'[n].debt = "settled"
        /\ row'[n].status = row[n].status
        /\ row'[n].user = row[n].user /\ row'[n].scooter = row[n].scooter
        /\ \A r \in Rentals : r # n => row'[r] = row[r]
    BY <1>2, SettleRow
  <2>2. /\ statusOf'[n] = statusOf[n] /\ termsOf'[n] = termsOf[n]
        /\ billOf'[n] = billOf[n]
    BY <2>1 DEF statusOf, termsOf, billOf
  <2> QED
    BY <2>1, <2>2, LifeKept, LifeOfOne
<1> QED
  BY <1>1, <1>2

LEMMA LifeInit == Init => Life!Init
  BY DEF Init, AbsentRow, Life!Init, statusOf, termsOf, billOf

LEMMA LifeNext == RideInv /\ [Next]_vars => [Life!Next]_(Life!vars)
<1> SUFFICES ASSUME RideInv, [Next]_vars PROVE [Life!Next]_(Life!vars)
  OBVIOUS
<1>1. CASE UNCHANGED <<row, charges>>
  BY <1>1, LifeKept, LifeOfOne
<1> QED
  BY <1>1, StartIsStart, EndIsComplete, CancelIsCancel, PaymentIsStutter,
     OtherSteps

\* To a reader of the table a ride starts in one step, ends in one step and is
\* immutable in between and afterwards, for any number of requests racing for
\* it, with administrators at work and requests failing anywhere.
THEOREM ImplementsLife == Spec => ImplementsRideLife
  BY LifeInit, LifeNext, RideInvariant, PTL
     DEF Spec, ImplementsRideLife, Life!Spec

-----------------------------------------------------------------------------
(* Rentals keeps the contract about the debt of a ride. *)

\* The two views, changed at one rental.
LEMMA ViewChanges ==
  ASSUME NEW r \in Rentals,
         \A x \in Rentals : x # r => /\ debtOf'[x] = debtOf[x]
                                     /\ wasCharged'[x] = wasCharged[x]
  PROVE  /\ debtOf' = [debtOf EXCEPT ![r] = debtOf'[r]]
         /\ wasCharged' = [wasCharged EXCEPT ![r] = wasCharged'[r]]
<1>1. /\ debtOf = [x \in Rentals |-> debtOf[x]]
      /\ debtOf' = [x \in Rentals |-> debtOf'[x]]
      /\ wasCharged = [x \in Rentals |-> wasCharged[x]]
      /\ wasCharged' = [x \in Rentals |-> wasCharged'[x]]
  BY DEF debtOf, wasCharged
<1>2. /\ [debtOf EXCEPT ![r] = debtOf'[r]] =
           [x \in Rentals |-> IF x = r THEN debtOf'[r] ELSE debtOf[x]]
      /\ [wasCharged EXCEPT ![r] = wasCharged'[r]] =
           [x \in Rentals |-> IF x = r THEN wasCharged'[r] ELSE wasCharged[x]]
  BY <1>1
<1>3. /\ \A x \in Rentals : debtOf'[x] = IF x = r THEN debtOf'[r] ELSE debtOf[x]
      /\ \A x \in Rentals :
           wasCharged'[x] = IF x = r THEN wasCharged'[r] ELSE wasCharged[x]
  OBVIOUS
<1> QED
  BY <1>1, <1>2, <1>3

\* The views of one rental depend on its own row and count only.
LEMMA ViewOfOne ==
  ASSUME NEW r \in Rentals, row'[r] = row[r], charges'[r] = charges[r]
  PROVE  debtOf'[r] = debtOf[r] /\ wasCharged'[r] = wasCharged[r]
  BY DEF debtOf, wasCharged

\* A step that leaves both views alone is a stutter of the contract.
LEMMA ViewsKept ==
  ASSUME \A x \in Rentals : debtOf'[x] = debtOf[x] /\ wasCharged'[x] = wasCharged[x]
  PROVE  UNCHANGED Contract!vars
<1>1. /\ debtOf = [x \in Rentals |-> debtOf[x]]
      /\ debtOf' = [x \in Rentals |-> debtOf'[x]]
      /\ wasCharged = [x \in Rentals |-> wasCharged[x]]
      /\ wasCharged' = [x \in Rentals |-> wasCharged'[x]]
  BY DEF debtOf, wasCharged
<1>2. debtOf' = debtOf /\ wasCharged' = wasCharged
  BY <1>1
<1> QED
  BY <1>2 DEF Contract!vars

LEMMA CloseIsClose ==
  ASSUME RideInv, NEW q \in Requests, EndCommit(q)
  PROVE  Contract!Next
<1> DEFINE n == req[q].rental
<1>1. /\ n \in Rentals /\ row[n].status = "active"
      /\ row'[n].status = "completed" /\ row'[n].debt \in {"none", "owed"}
      /\ \A r \in Rentals : r # n => row'[r] = row[r]
      /\ \A r \in Rentals : charges'[r] = charges[r]
  BY EndCommitRow
<1> HIDE DEF n
<1>2. \A x \in Rentals : x # n => /\ debtOf'[x] = debtOf[x]
                                  /\ wasCharged'[x] = wasCharged[x]
  BY <1>1, ViewOfOne
<1>3. /\ debtOf' = [debtOf EXCEPT ![n] = debtOf'[n]]
      /\ wasCharged' = [wasCharged EXCEPT ![n] = wasCharged'[n]]
  BY <1>1, <1>2, ViewChanges
<1>4. debtOf[n] = "open" /\ debtOf'[n] \in {"none", "owed"}
  BY <1>1 DEF debtOf
<1>5. wasCharged'[n] \in BOOLEAN
  BY <1>1 DEF wasCharged
<1> QED
  BY <1>1, <1>3, <1>4, <1>5 DEF Contract!Next, Contract!Close

LEMMA ChargeIsCharge ==
  ASSUME RideInv, NEW q \in Requests, EndCharge(q)
  PROVE  Contract!Next
<1> DEFINE n == req[q].rental
<1>1. /\ n \in Rentals /\ row[n].status = "completed" /\ charges[n] = 0
      /\ row'[n].status = "completed" /\ row'[n].debt \in Debts
      /\ row'[n].debt = "none" <=> row[n].debt = "none"
      /\ charges'[n] = 1
      /\ \A r \in Rentals : r # n => row'[r] = row[r] /\ charges'[r] = charges[r]
  BY EndChargeRow
<1>2. row[n].debt \in Debts
  BY <1>1 DEF RideInv, TypeOK, RentalRow
<1> HIDE DEF n
<1>3. \A x \in Rentals : x # n => /\ debtOf'[x] = debtOf[x]
                                  /\ wasCharged'[x] = wasCharged[x]
  BY <1>1, ViewOfOne
<1>4. /\ debtOf' = [debtOf EXCEPT ![n] = debtOf'[n]]
      /\ wasCharged' = [wasCharged EXCEPT ![n] = wasCharged'[n]]
  BY <1>1, <1>3, ViewChanges
<1>5. /\ debtOf[n] # "open" /\ debtOf'[n] \in {"none", "owed", "settled"}
      /\ (debtOf'[n] = "none") <=> (debtOf[n] = "none")
  BY <1>1, <1>2 DEF debtOf, Debts
<1>6. wasCharged[n] = FALSE /\ wasCharged'[n] = TRUE
  <2>1. (charges[n] > 0) = FALSE /\ (charges'[n] > 0) = TRUE
    BY <1>1
  <2> QED
    BY <1>1, <2>1, Zenon DEF wasCharged
<1>7. wasCharged' = [wasCharged EXCEPT ![n] = TRUE]
  BY <1>4, <1>6
<1> QED
  BY <1>1, <1>4, <1>5, <1>6, <1>7 DEF Contract!Next, Contract!Charge

LEMMA SettleIsSettle ==
  ASSUME RideInv, NEW n \in Rentals, Settle(n)
  PROVE  [Contract!Next]_(Contract!vars)
<1>1. /\ row[n].debt = "owed" /\ row'[n].debt = "settled"
      /\ row'[n].status = row[n].status
      /\ \A r \in Rentals : r # n => row'[r] = row[r]
      /\ \A r \in Rentals : charges'[r] = charges[r]
  BY SettleRow
<1>2. \A x \in Rentals : x # n => /\ debtOf'[x] = debtOf[x]
                                  /\ wasCharged'[x] = wasCharged[x]
  BY <1>1, ViewOfOne
<1>3. wasCharged'[n] = wasCharged[n]
  BY <1>1 DEF wasCharged
<1>4. CASE row[n].status = "completed"
  <2>1. debtOf' = [debtOf EXCEPT ![n] = debtOf'[n]]
    BY <1>2, ViewChanges
  <2>2. debtOf[n] = "owed" /\ debtOf'[n] = "settled"
    BY <1>1, <1>4 DEF debtOf
  <2>3. wasCharged' = wasCharged
    <3>1. \A x \in Rentals : wasCharged'[x] = wasCharged[x]
      BY <1>2, <1>3
    <3>2. /\ wasCharged = [x \in Rentals |-> wasCharged[x]]
          /\ wasCharged' = [x \in Rentals |-> wasCharged'[x]]
      BY DEF wasCharged
    <3> QED
      BY <3>1, <3>2
  <2> QED
    BY <2>1, <2>2, <2>3 DEF Contract!Next, Contract!Settle
<1>5. CASE row[n].status # "completed"
  <2>1. debtOf'[n] = debtOf[n]
    BY <1>1, <1>5 DEF debtOf
  <2> QED
    BY <1>2, <1>3, <2>1, ViewsKept
<1> QED
  BY <1>4, <1>5

LEMMA ContractInit == Init => Contract!Init
<1> SUFFICES ASSUME Init PROVE Contract!Init
  OBVIOUS
<1>1. \A r \in Rentals : row[r].status = "absent" /\ charges[r] = 0
  BY DEF Init, AbsentRow
<1>2. debtOf = [r \in Rentals |-> "open"]
  BY <1>1 DEF debtOf
<1>3. \A r \in Rentals : (charges[r] > 0) = FALSE
  BY <1>1
<1>4. wasCharged = [r \in Rentals |-> FALSE]
  BY <1>3, Zenon DEF wasCharged
<1> QED
  BY <1>2, <1>4 DEF Contract!Init

LEMMA ContractNext == RideInv /\ [Next]_vars => [Contract!Next]_(Contract!vars)
<1> SUFFICES ASSUME RideInv, [Next]_vars PROVE [Contract!Next]_(Contract!vars)
  OBVIOUS
<1>1. ASSUME NEW q \in Requests, StartCommit(q) \/ CancelUpdate(q)
      PROVE  UNCHANGED Contract!vars
  <2> SUFFICES ASSUME NEW x \in Rentals
               PROVE  debtOf'[x] = debtOf[x] /\ wasCharged'[x] = wasCharged[x]
    BY ViewsKept
  <2>1. charges'[x] = charges[x] /\ (row'[x] = row[x] \/
          (row[x].status # "completed" /\ row'[x].status # "completed"))
    BY <1>1, OpenRows
  <2> QED
    BY <2>1 DEF debtOf, wasCharged
<1>2. CASE UNCHANGED <<row, charges>>
  BY <1>2 DEF Contract!vars, debtOf, wasCharged
<1> QED
  BY <1>1, <1>2, CloseIsClose, ChargeIsCharge, SettleIsSettle, OtherSteps

\* Through every interleaving and every failure the rental service does to a
\* ride's debt only what RideDebt allows: it opens it when the ride is
\* completed, hands it over for charging at most once, and leaves it alone.
THEOREM StaysInContract == Spec => KeepsContract
  BY ContractInit, ContractNext, RideInvariant, PTL
     DEF Spec, KeepsContract, Contract!Spec

-----------------------------------------------------------------------------
\* A request that returns without touching the tables: only one that owed a
\* release loses it, and then its scooter is counted as orphaned.
LEMMA ReturnKeepsMarketInv ==
  ASSUME RideInv, MarketInv, NEW q \in Requests, Return(q),
         UNCHANGED <<scooter, row>>, orphaned \subseteq orphaned',
         \A s \in Scooters : Releasing(q, s) => s \in orphaned'
  PROVE  MarketInv'
<1> USE DEF MarketInv
<1>1. /\ req'[q] = IdleReq
      /\ \A p \in Requests : p # q => req'[p] = req[p]
  BY ReturnStep DEF RideInv, TypeOK
<1>2. MarketStatuses' /\ ActiveHoldsScooter'
  BY DEF MarketStatuses, ActiveHoldsScooter, Active
<1>3. \A p \in Requests, s \in Scooters :
        Releasing(p, s)' <=> (p # q /\ Releasing(p, s))
  BY <1>1 DEF Releasing, IdleReq
<1>4. \A s \in Scooters : ActiveOn(s)' = ActiveOn(s)
  BY DEF ActiveOn, Active
<1>5. ReleaseOwed'
  BY <1>3, <1>4 DEF ReleaseOwed
<1>6. LockedAvailable'
  BY <1>1 DEF LockedAvailable, IdleReq
<1>7. RentedIsExplained'
  BY <1>3, <1>4 DEF RentedIsExplained
<1> QED
  BY <1>2, <1>5, <1>6, <1>7

\* A request moves on without touching the tables and without taking up or
\* dropping the duty to release a scooter.
LEMMA QuietKeepsMarketInv ==
  ASSUME RideInv, MarketInv, NEW q \in Requests,
         UNCHANGED <<scooter, row, orphaned>>,
         \A p \in Requests : p # q => req'[p] = req[p],
         \A s \in Scooters : Releasing(q, s)' <=> Releasing(q, s),
         req'[q].pc \in {"start_insert", "start_commit"} =>
           scooter[req'[q].scooter].status = "available"
  PROVE  MarketInv'
<1> USE DEF MarketInv
<1>1. MarketStatuses' /\ ActiveHoldsScooter'
  BY DEF MarketStatuses, ActiveHoldsScooter, Active
<1>2. \A p \in Requests, s \in Scooters : Releasing(p, s)' <=> Releasing(p, s)
  BY DEF Releasing
<1>3. \A s \in Scooters : ActiveOn(s)' = ActiveOn(s)
  BY DEF ActiveOn, Active
<1>4. ReleaseOwed'
  BY <1>2, <1>3 DEF ReleaseOwed
<1>5. LockedAvailable'
  BY DEF LockedAvailable
<1>6. RentedIsExplained'
  BY <1>2, <1>3 DEF RentedIsExplained
<1> QED
  BY <1>1, <1>4, <1>5, <1>6

\* Only the debt of a rental changes, and no request takes on a duty.
LEMMA DebtKeepsMarketInv ==
  ASSUME RideInv, MarketInv,
         UNCHANGED <<scooter, orphaned>>,
         \A r \in Rentals : /\ row'[r].status = row[r].status
                            /\ row'[r].scooter = row[r].scooter,
         \A p \in Requests : req'[p] = req[p] \/
           (req[p].pc = "end_charge" /\ req'[p] = IdleReq)
  PROVE  MarketInv'
<1> USE DEF MarketInv
<1>1. MarketStatuses' /\ ActiveHoldsScooter'
  BY DEF MarketStatuses, ActiveHoldsScooter, Active
<1>2. \A p \in Requests, s \in Scooters : Releasing(p, s)' <=> Releasing(p, s)
  BY DEF Releasing, IdleReq
<1>3. \A s \in Scooters : ActiveOn(s)' = ActiveOn(s)
  BY DEF ActiveOn, Active
<1>4. ReleaseOwed'
  BY <1>2, <1>3 DEF ReleaseOwed
<1>5. LockedAvailable'
  BY DEF LockedAvailable, IdleReq
<1>6. RentedIsExplained'
  BY <1>2, <1>3 DEF RentedIsExplained
<1> QED
  BY <1>1, <1>4, <1>5, <1>6

LEMMA StartCommitKeepsMarketInv ==
  ASSUME RideInv, MarketInv, NEW q \in Requests, StartCommit(q)
  PROVE  MarketInv'
<1> USE DEF MarketInv
<1>0. PICK n, t : n = req[q].rental /\ t = req[q].scooter
  OBVIOUS
<1>1. /\ req[q].pc = "start_commit"
      /\ n \in Rentals /\ row[n].status = "absent"
      /\ t \in Scooters
      /\ scooter[t].status = "available" /\ ~scooter[t].deleted
  BY <1>0 DEF StartCommit, RideInv, RequestsOK, LockedAvailable, MarketStatuses
<1>2. /\ req'[q].pc = "start_emit"
      /\ \A p \in Requests : p # q => req'[p] = req[p]
  BY <1>0, GotoStep, Positions DEF StartCommit, RideInv, TypeOK
<1>3. /\ row'[n].status = "active" /\ row'[n].scooter = t
      /\ \A r \in Rentals : r # n => row'[r] = row[r]
  BY <1>0, <1>1 DEF StartCommit, RideInv, TypeOK
<1>4. /\ scooter'[t] = [status |-> "rented", deleted |-> FALSE]
      /\ \A s \in Scooters : s # t => scooter'[s] = scooter[s]
      /\ UNCHANGED orphaned
  BY <1>0, <1>1 DEF StartCommit, RideInv, TypeOK, ScooterRow
<1>5. \A p \in Requests :
        (p # q /\ req[p].pc \in {"start_insert", "start_commit"}) => req[p].scooter # t
  BY <1>0, <1>1 DEF RideInv, Exclusive, HoldsScooter
<1>6. MarketStatuses'
  BY <1>1, <1>4 DEF MarketStatuses
<1>7. ActiveHoldsScooter'
  <2> SUFFICES ASSUME NEW r \in Rentals, Active(r)'
               PROVE  scooter'[row'[r].scooter] = [status |-> "rented", deleted |-> FALSE]
    BY DEF ActiveHoldsScooter
  <2>1. CASE r = n
    BY <1>3, <1>4, <2>1
  <2>2. CASE r # n
    <3>1. row'[r] = row[r] /\ Active(r)
      BY <1>3, <2>2 DEF Active
    <3>2. row[r].scooter \in Scooters
      BY <3>1 DEF RideInv, RowsOK, Active
    <3>3. scooter[row[r].scooter] = [status |-> "rented", deleted |-> FALSE]
      BY <3>1 DEF ActiveHoldsScooter
    <3> QED
      BY <1>1, <1>4, <3>1, <3>2, <3>3
  <2> QED
    BY <2>1, <2>2
<1>8. \A p \in Requests, s \in Scooters : Releasing(p, s)' <=> Releasing(p, s)
  BY <1>0, <1>1, <1>2 DEF Releasing
<1>9. /\ ActiveOn(t)' # {}
      /\ \A s \in Scooters : s # t => ActiveOn(s)' = ActiveOn(s)
  <2>1. n \in ActiveOn(t)'
    BY <1>1, <1>3 DEF ActiveOn, Active
  <2>2. ASSUME NEW s \in Scooters, s # t PROVE ActiveOn(s)' = ActiveOn(s)
    <3>1. \A r \in Rentals : (Active(r)' /\ row'[r].scooter = s)
                               <=> (Active(r) /\ row[r].scooter = s)
      BY <1>1, <1>3, <2>2 DEF Active
    <3> QED
      BY <3>1 DEF ActiveOn
  <2> QED
    BY <2>1, <2>2
<1>10. ReleaseOwed'
  BY <1>1, <1>4, <1>8, <1>9 DEF ReleaseOwed
<1>11. LockedAvailable'
  BY <1>2, <1>4, <1>5 DEF LockedAvailable, RideInv, RequestsOK
<1>12. RentedIsExplained'
  <2> SUFFICES ASSUME NEW s \in Scooters, scooter'[s].status = "rented"
               PROVE  \/ ActiveOn(s)' # {}
                      \/ \E p \in Requests : Releasing(p, s)'
                      \/ s \in orphaned'
    BY DEF RentedIsExplained
  <2>1. CASE s # t
    BY <1>4, <1>8, <1>9, <2>1 DEF RentedIsExplained
  <2> QED
    BY <1>9, <2>1
<1> QED
  BY <1>6, <1>7, <1>10, <1>11, <1>12

\* EndCommit and CancelUpdate: the only active rental on its scooter closes.
LEMMA CloseKeepsMarketInv ==
  ASSUME RideInv, MarketInv, NEW q \in Requests, EndCommit(q) \/ CancelUpdate(q),
         ~Return(q)
  PROVE  MarketInv'
<1> USE DEF MarketInv
<1>0. PICK n, t : n = req[q].rental /\ t = req[q].scooter
  OBVIOUS
<1>1. /\ req[q].pc \in {"end_commit", "cancel_update"}
      /\ n \in Rentals /\ row[n].status = "active"
      /\ t = row[n].scooter /\ t \in Scooters
  BY <1>0 DEF EndCommit, CancelUpdate, RideInv, RequestsOK, RowsOK, Active, EndPC, CancelPC
<1>2. /\ \A p \in Requests : p # q => req'[p] = req[p]
      /\ req'[q].scooter = t
      /\ req[q].pc = "end_commit" => req'[q].pc = "end_emit"
      /\ req[q].pc = "cancel_update" => req'[q].pc = "cancel_release"
  BY <1>0, GotoStep, Positions DEF EndCommit, CancelUpdate, RideInv, TypeOK
<1>3. /\ row'[n].status # "active"
      /\ \A r \in Rentals : r # n => row'[r] = row[r]
      /\ UNCHANGED orphaned
  <2>1. CASE EndCommit(q)
    <3>1. PICK d \in {"none", "owed"} :
            row' = [row EXCEPT ![n] = [@ EXCEPT !.status = "completed",
                                                !.debt = d]]
      BY <1>0, <2>1 DEF EndCommit
    <3>2. row'[n] = [row[n] EXCEPT !.status = "completed", !.debt = d]
      BY <1>1, <3>1 DEF RideInv, TypeOK
    <3>3. row'[n].status = "completed"
      BY <1>1, <3>2 DEF RideInv, TypeOK, RentalRow
    <3> QED
      BY <2>1, <3>1, <3>3 DEF EndCommit, RideInv, TypeOK
  <2>2. CASE CancelUpdate(q)
    BY <1>0, <1>1, <2>2 DEF CancelUpdate, RideInv, TypeOK, RentalRow
  <2> QED
    BY <2>1, <2>2
<1>4. /\ scooter[t] = [status |-> "rented", deleted |-> FALSE]
      /\ \A s \in Scooters : s # t => scooter'[s] = scooter[s]
      /\ req[q].pc = "end_commit" =>
           scooter'[t].status = "available" /\ ~scooter'[t].deleted
      /\ req[q].pc = "cancel_update" => scooter'[t] = scooter[t]
  <2>1. scooter[t] = [status |-> "rented", deleted |-> FALSE]
    BY <1>0, <1>1 DEF ActiveHoldsScooter, Active
  <2>2. CASE EndCommit(q)
    <3>1. scooter' = [scooter EXCEPT ![t].status = "available"]
      BY <1>0, <2>2 DEF EndCommit
    <3>2. scooter \in [Scooters -> ScooterRow]
      BY DEF RideInv, TypeOK
    <3>3. scooter'[t] = [scooter[t] EXCEPT !.status = "available"]
      BY <1>1, <3>1, <3>2
    <3>4. scooter'[t].status = "available" /\ ~scooter'[t].deleted
      BY <1>1, <2>1, <3>2, <3>3 DEF ScooterRow
    <3>5. \A s \in Scooters : s # t => scooter'[s] = scooter[s]
      BY <1>1, <3>1, <3>2
    <3>6. req[q].pc = "end_commit"
      BY <2>2 DEF EndCommit
    <3> QED
      BY <2>1, <3>4, <3>5, <3>6
  <2>3. CASE CancelUpdate(q)
    BY <2>1, <2>3 DEF CancelUpdate
  <2> QED
    BY <2>2, <2>3
<1>5. MarketStatuses'
  BY <1>1, <1>4 DEF MarketStatuses
<1>6. \A r \in Rentals : (r # n /\ Active(r)) => row[r].scooter # t
  BY <1>0, <1>1 DEF RideInv, OneActiveRide, Active
<1>7. ActiveHoldsScooter'
  <2> SUFFICES ASSUME NEW r \in Rentals, Active(r)'
               PROVE  scooter'[row'[r].scooter] = [status |-> "rented", deleted |-> FALSE]
    BY DEF ActiveHoldsScooter
  <2>1. r # n /\ row'[r] = row[r] /\ Active(r)
    BY <1>3 DEF Active
  <2>2. row[r].scooter \in Scooters
    BY <2>1 DEF RideInv, RowsOK, Active
  <2> QED
    BY <1>4, <1>6, <2>1, <2>2 DEF ActiveHoldsScooter
<1>8. /\ n \in ActiveOn(t) /\ ActiveOn(t)' = {}
      /\ \A s \in Scooters : s # t => ActiveOn(s)' = ActiveOn(s)
  <2>1. n \in ActiveOn(t)
    BY <1>0, <1>1 DEF ActiveOn, Active
  <2>2. ActiveOn(t)' = {}
    <3>1. \A r \in Rentals : ~(Active(r)' /\ row'[r].scooter = t)
      BY <1>3, <1>6 DEF Active
    <3> QED
      BY <3>1 DEF ActiveOn
  <2>3. ASSUME NEW s \in Scooters, s # t PROVE ActiveOn(s)' = ActiveOn(s)
    <3>1. \A r \in Rentals : (Active(r)' /\ row'[r].scooter = s)
                               <=> (Active(r) /\ row[r].scooter = s)
      BY <1>1, <1>3, <2>3 DEF Active
    <3> QED
      BY <3>1 DEF ActiveOn
  <2> QED
    BY <2>1, <2>2, <2>3
<1>9. \A p \in Requests : ~Releasing(p, t)
  BY <1>1, <1>8 DEF ReleaseOwed
<1>10. \A p \in Requests, s \in Scooters :
         Releasing(p, s)' <=> \/ Releasing(p, s)
                              \/ p = q /\ s = t /\ req[q].pc = "cancel_update"
  BY <1>0, <1>1, <1>2 DEF Releasing
<1>11. ReleaseOwed'
  <2> SUFFICES ASSUME NEW p \in Requests, NEW s \in Scooters, Releasing(p, s)'
               PROVE  /\ scooter'[s].status = "rented"
                      /\ ActiveOn(s)' = {}
                      /\ \A x \in Requests : Releasing(x, s)' => x = p
    BY DEF ReleaseOwed
  <2>1. CASE s = t
    BY <1>4, <1>8, <1>9, <1>10, <2>1
  <2>2. CASE s # t
    BY <1>4, <1>8, <1>10, <2>2 DEF ReleaseOwed
  <2> QED
    BY <2>1, <2>2
<1>12. LockedAvailable'
  BY <1>1, <1>2, <1>4 DEF LockedAvailable, RideInv, RequestsOK
<1>13. RentedIsExplained'
  <2> SUFFICES ASSUME NEW s \in Scooters, scooter'[s].status = "rented"
               PROVE  \/ ActiveOn(s)' # {}
                      \/ \E p \in Requests : Releasing(p, s)'
                      \/ s \in orphaned'
    BY DEF RentedIsExplained
  <2>1. CASE s = t
    BY <1>1, <1>4, <1>10, <2>1
  <2>2. CASE s # t
    BY <1>3, <1>4, <1>8, <1>10, <2>2 DEF RentedIsExplained
  <2> QED
    BY <2>1, <2>2
<1> QED
  BY <1>5, <1>7, <1>11, <1>12, <1>13

LEMMA CancelCommitKeepsMarketInv ==
  ASSUME RideInv, MarketInv, NEW q \in Requests, CancelCommit(q)
  PROVE  MarketInv'
<1> USE DEF MarketInv
<1>0. PICK t : t = req[q].scooter
  OBVIOUS
<1>1. /\ req[q].pc = "cancel_commit" /\ t \in Scooters /\ Releasing(q, t)
  BY <1>0 DEF CancelCommit, RideInv, RequestsOK, RowsOK, CancelPC, Releasing
<1>2. /\ req'[q] = IdleReq
      /\ \A p \in Requests : p # q => req'[p] = req[p]
      /\ UNCHANGED <<row, orphaned>>
  BY ReturnStep DEF CancelCommit, RideInv, TypeOK
<1>3. /\ scooter'[t].status = "available" /\ scooter'[t].deleted = scooter[t].deleted
      /\ \A s \in Scooters : s # t => scooter'[s] = scooter[s]
  BY <1>0, <1>1 DEF CancelCommit, RideInv, TypeOK, ScooterRow
<1>4. \A p \in Requests, s \in Scooters : Releasing(p, s)' => p # q /\ Releasing(p, s)
  BY <1>2 DEF Releasing, IdleReq
<1>5. \A p \in Requests, s \in Scooters : (p # q /\ Releasing(p, s)) => Releasing(p, s)'
  BY <1>2 DEF Releasing
<1>6. \A s \in Scooters : ActiveOn(s)' = ActiveOn(s)
  BY <1>2 DEF ActiveOn, Active
<1>7. ActiveOn(t) = {} /\ \A p \in Requests : Releasing(p, t) => p = q
  BY <1>0, <1>1 DEF ReleaseOwed
<1>8. \A s \in Scooters : Releasing(q, s) => s = t
  BY <1>0 DEF Releasing
<1>9. MarketStatuses'
  BY <1>1, <1>3 DEF MarketStatuses
<1>10. ActiveHoldsScooter'
  <2>1. \A r \in Rentals : Active(r) => row[r].scooter \in Scooters \ {t}
    BY <1>7 DEF ActiveOn, RideInv, RowsOK, Active
  <2> QED
    BY <1>2, <1>3, <2>1 DEF ActiveHoldsScooter, Active
<1>11. ReleaseOwed'
  BY <1>3, <1>4, <1>5, <1>6, <1>7 DEF ReleaseOwed
<1>12. LockedAvailable'
  BY <1>1, <1>2, <1>3 DEF LockedAvailable, IdleReq, RideInv, RequestsOK
<1>13. RentedIsExplained'
  BY <1>1, <1>2, <1>3, <1>5, <1>6, <1>8 DEF RentedIsExplained
<1> QED
  BY <1>9, <1>10, <1>11, <1>12, <1>13

LEMMA AddKeepsMarketInv ==
  ASSUME RideInv, MarketInv, NEW t \in Scooters, AddScooter(t)
  PROVE  MarketInv'
<1> USE DEF MarketInv
<1>1. /\ scooter[t].status = "absent" /\ UNCHANGED <<row, req, orphaned>>
      /\ scooter'[t].status = "available"
      /\ scooter'[t].deleted = scooter[t].deleted
      /\ \A s \in Scooters : s # t => scooter'[s] = scooter[s]
  BY DEF AddScooter, RideInv, TypeOK, ScooterRow
<1>2. MarketStatuses'
  BY <1>1 DEF MarketStatuses
<1>3. ActiveHoldsScooter'
  <2> SUFFICES ASSUME NEW r \in Rentals, Active(r)
               PROVE  scooter'[row[r].scooter] = [status |-> "rented", deleted |-> FALSE]
    BY <1>1 DEF ActiveHoldsScooter, Active
  <2>1. row[r].scooter \in Scooters
    BY DEF RideInv, RowsOK, Active
  <2> QED
    BY <1>1, <2>1 DEF ActiveHoldsScooter
<1>4. ReleaseOwed' /\ RentedIsExplained'
  BY <1>1 DEF ReleaseOwed, RentedIsExplained, Releasing, ActiveOn, Active
<1>5. LockedAvailable'
  BY <1>1 DEF LockedAvailable, RideInv, RequestsOK
<1> QED
  BY <1>2, <1>3, <1>4, <1>5

LEMMA InitMarketInv == Init => MarketInv
  BY DEF Init, MarketInv, MarketStatuses, ActiveHoldsScooter, ReleaseOwed,
         LockedAvailable, RentedIsExplained, Active, Releasing, AbsentRow, IdleReq

\* A request that is not releasing a scooter returns.
LEMMA PlainReturnKeepsMarketInv ==
  ASSUME RideInv, MarketInv, NEW q \in Requests, Return(q),
         UNCHANGED <<scooter, row, orphaned>>,
         req[q].pc \notin {"cancel_release", "cancel_commit"}
  PROVE  MarketInv'
  BY ReturnKeepsMarketInv DEF Releasing

LEMMA StepKeepsMarketInv ==
  ASSUME RideInv, MarketInv, NEW q \in Requests, Step(q)
  PROVE  MarketInv'
<1> USE Positions
<1>0. req \in [Requests -> Request]
  BY DEF RideInv, TypeOK
<1>1. CASE StartLock(q) /\ Goto(q, "start_insert") /\ ~Return(q)
  <2>1. scooter[req[q].scooter].status = "available"
    BY <1>1 DEF StartLock
  <2> QED
    BY <1>0, <1>1, <2>1, GotoStep, QuietKeepsMarketInv DEF StartLock, Releasing
<1>2. CASE StartInsert(q)
  <2>1. /\ req[q].pc = "start_insert" /\ req'[q].pc = "start_commit"
        /\ req'[q].scooter = req[q].scooter
        /\ \A p \in Requests : p # q => req'[p] = req[p]
        /\ UNCHANGED <<scooter, row, orphaned>>
    BY <1>0, <1>2 DEF StartInsert, Request
  <2> QED
    BY <2>1, QuietKeepsMarketInv DEF Releasing, MarketInv, LockedAvailable
<1>3. CASE StartCommit(q)
  BY <1>3, StartCommitKeepsMarketInv
<1>4. CASE /\ Return(q)
           /\ \/ StartLock(q) \/ StartConflict(q) \/ StartEmit(q) \/ EndLock(q)
              \/ EndScooter(q) \/ EndEmit(q)
  BY <1>4, PlainReturnKeepsMarketInv DEF StartLock, StartConflict, StartEmit,
     EndLock, EndScooter, EndEmit
<1>5. ASSUME NEW pc \in {"end_update", "end_scooter", "end_commit", "end_charge"},
             Goto(q, pc), EndLock(q) \/ EndUpdate(q) \/ EndScooter(q) \/ EndEmit(q)
      PROVE  MarketInv'
  <2>1. /\ req[q].pc \notin {"cancel_release", "cancel_commit"}
        /\ UNCHANGED <<scooter, row, orphaned>>
    BY <1>5 DEF EndLock, EndUpdate, EndScooter, EndEmit
  <2>2. req'[q].pc = pc /\ \A p \in Requests : p # q => req'[p] = req[p]
    BY <1>0, <1>5, GotoStep
  <2> QED
    BY <1>5, <2>1, <2>2, QuietKeepsMarketInv DEF Releasing
<1>6. CASE (EndCommit(q) \/ CancelUpdate(q)) /\ ~Return(q)
  BY <1>6, CloseKeepsMarketInv
<1>7. CASE CancelUpdate(q) /\ Return(q)
  <2>1. ~Goto(q, "cancel_release")
    BY <1>0, <1>7, ReturnStep, GotoStep DEF IdleReq
  <2> QED
    BY <1>7, <2>1, PlainReturnKeepsMarketInv DEF CancelUpdate
<1>8. ~(EndCommit(q) /\ Return(q))
  BY <1>0, ReturnStep, GotoStep DEF IdleReq, EndCommit
<1>9. CASE EndCharge(q)
  <2>1. /\ \A r \in Rentals : /\ row'[r].status = row[r].status
                              /\ row'[r].scooter = row[r].scooter
        /\ UNCHANGED <<scooter, orphaned>>
    BY <1>9 DEF EndCharge, RideInv, TypeOK, RentalRow
  <2>2. req[q].pc = "end_charge" /\ req'[q] = IdleReq
        /\ \A p \in Requests : p # q => req'[p] = req[p]
    BY <1>0, <1>9, ReturnStep DEF EndCharge
  <2> QED
    BY <2>1, <2>2, DebtKeepsMarketInv
<1>10. CASE CancelRelease(q)
  <2>1. /\ req[q].pc = "cancel_release" /\ req[q].scooter \in Scooters
        /\ Releasing(q, req[q].scooter)
    BY <1>10 DEF CancelRelease, RideInv, RequestsOK, RowsOK, CancelPC, Releasing
  <2>2. scooter[req[q].scooter] = [status |-> "rented", deleted |-> FALSE]
    BY <2>1 DEF MarketInv, ReleaseOwed, MarketStatuses, RideInv, TypeOK, ScooterRow
  <2>3. Goto(q, "cancel_commit") /\ UNCHANGED <<scooter, row, orphaned>>
    BY <1>10, <2>2 DEF CancelRelease
  <2>4. /\ req'[q].pc = "cancel_commit" /\ req'[q].scooter = req[q].scooter
        /\ \A p \in Requests : p # q => req'[p] = req[p]
    BY <1>0, <2>3, GotoStep
  <2> QED
    BY <2>1, <2>3, <2>4, QuietKeepsMarketInv DEF Releasing
<1>11. CASE CancelCommit(q)
  BY <1>11, CancelCommitKeepsMarketInv
<1> QED
  BY <1>1, <1>2, <1>3, <1>4, <1>5, <1>6, <1>7, <1>8, <1>9, <1>10, <1>11
     DEF Step, StartLock, StartConflict, StartEmit, EndLock, EndUpdate,
         EndScooter, EndEmit

\* Inductive together with RideInv as long as no administrator edits.
LEMMA NextMarketInv ==
  ASSUME ~AdminEdits
  PROVE  RideInv /\ MarketInv /\ [Next]_vars => MarketInv'
<1> SUFFICES ASSUME RideInv, MarketInv, [Next]_vars PROVE MarketInv'
  OBVIOUS
<1>1. ASSUME NEW q \in Requests, Begin(q) PROVE MarketInv'
  <2>1. /\ req[q].pc = "idle"
        /\ req'[q].pc \in {"start_lock", "end_lock", "cancel_update"}
        /\ \A p \in Requests : p # q => req'[p] = req[p]
        /\ UNCHANGED <<scooter, row, orphaned>>
    BY <1>1 DEF Begin, BeginStart, BeginEnd, BeginCancel, RideInv, TypeOK
  <2> QED
    BY <2>1, QuietKeepsMarketInv DEF Releasing
<1>2. ASSUME NEW q \in Requests, Step(q) PROVE MarketInv'
  BY <1>2, StepKeepsMarketInv
<1>3. ASSUME NEW q \in Requests, Rollback(q) PROVE MarketInv'
  BY <1>3, ReturnKeepsMarketInv DEF Rollback, Releasing
<1>4. ASSUME NEW s \in Scooters, Admin(s) PROVE MarketInv'
  BY <1>4, AddKeepsMarketInv DEF Admin, UpdateScooter, RetireScooter
<1>5. ASSUME NEW r \in Rentals, Settle(r) PROVE MarketInv'
  <2>1. \A x \in Rentals : /\ row'[x].status = row[x].status
                           /\ row'[x].scooter = row[x].scooter
    BY <1>5 DEF Settle, RideInv, TypeOK, RentalRow
  <2> QED
    BY <1>5, <2>1, DebtKeepsMarketInv DEF Settle
<1>6. CASE UNCHANGED vars
  BY <1>6 DEF vars, MarketInv, MarketStatuses, ActiveHoldsScooter, ReleaseOwed,
     LockedAvailable, RentedIsExplained, Active, Releasing, ActiveOn
<1> QED
  BY <1>1, <1>2, <1>3, <1>4, <1>5, <1>6 DEF Next, Abort, DeadlockVictim

THEOREM MarketInvariant ==
  ASSUME ~AdminEdits
  PROVE  Spec => [](RideInv /\ MarketInv)
<1>1. Init => RideInv /\ MarketInv
  BY InitRideInv, InitMarketInv
<1>2. RideInv /\ MarketInv /\ [Next]_vars => (RideInv /\ MarketInv)'
  BY NextRideInv, NextMarketInv
<1> QED
  BY <1>1, <1>2, PTL DEF Spec

\* Without edits by administrators, the scooter of an active rental is 'rented'
\* throughout the ride, so that End always finds the row it has to release.
THEOREM ActiveScooterHeld ==
  ASSUME ~AdminEdits
  PROVE  Spec => []ActiveHoldsScooter
<1>1. MarketInv => ActiveHoldsScooter
  BY DEF MarketInv
<1> QED
  BY <1>1, MarketInvariant, PTL

\* Without edits by administrators, a 'rented' scooter is ridden, about to be
\* released, or was left behind by an AdminCancel that failed half way.
THEOREM RentedExplained ==
  ASSUME ~AdminEdits
  PROVE  Spec => []RentedIsExplained
<1>1. MarketInv => RentedIsExplained
  BY DEF MarketInv
<1> QED
  BY <1>1, MarketInvariant, PTL

-----------------------------------------------------------------------------
(* No deadlock among the transactions *)

\* The scooter an End is about to release is locked by nobody.
LEMMA EndNeverWaits ==
  ASSUME RideInv, MarketInv, NEW q \in Requests, NEW p \in Requests,
         req[q].pc = "end_scooter"
  PROVE  ~WaitsFor(q, p)
<1> SUFFICES ASSUME p # q, HoldsScooter(p, req[q].scooter) PROVE FALSE
  BY DEF WaitsFor
<1>1. PICK r, s : /\ r = req[q].rental /\ s = req[q].scooter /\ r \in Rentals
                  /\ Active(r) /\ s = row[r].scooter /\ s \in Scooters
  BY DEF RideInv, RequestsOK, RowsOK, EndPC, Active
<1>2. scooter[s].status = "rented" /\ ActiveOn(s) # {}
  BY <1>1 DEF MarketInv, ActiveHoldsScooter, ActiveOn
<1>3. req[p].scooter = s
  BY <1>1 DEF HoldsScooter
<1>4. CASE req[p].pc \in {"start_insert", "start_commit"}
  BY <1>2, <1>3, <1>4 DEF MarketInv, LockedAvailable
<1>5. CASE req[p].pc = "cancel_commit"
  BY <1>1, <1>2, <1>3, <1>5 DEF MarketInv, ReleaseOwed, Releasing
<1>6. CASE req[p].pc = "end_commit"
  <2>1. /\ req[p].rental \in Rentals /\ Active(req[p].rental)
        /\ row[req[p].rental].scooter = s
    BY <1>3, <1>6 DEF RideInv, RequestsOK, EndPC
  <2>2. req[p].rental = r
    BY <1>1, <2>1 DEF RideInv, OneActiveRide
  <2>3. HoldsRental(p, r) /\ HoldsRental(q, r)
    BY <1>1, <1>6, <2>2 DEF HoldsRental
  <2> QED
    BY <1>1, <2>3 DEF RideInv, Exclusive
<1> QED
  BY <1>4, <1>5, <1>6 DEF HoldsScooter

LEMMA InvNoLockCycle == RideInv /\ MarketInv => NoLockCycle
<1> SUFFICES ASSUME RideInv, MarketInv, NEW S \in SUBSET Requests, Deadlocked(S)
             PROVE  FALSE
  BY DEF NoLockCycle
<1>1. ASSUME NEW q \in S, NEW p \in S, WaitsFor(q, p)
      PROVE  req[p].pc = "start_insert"
  <2>1. PICK z \in S : WaitsFor(p, z)
    BY DEF Deadlocked
  <2>2. req[p].pc # "end_scooter"
    BY <2>1, EndNeverWaits
  <2>3. req[p].pc \in {"start_lock", "cancel_release", "end_lock",
                       "cancel_update", "start_insert"}
    BY <2>1, <2>2 DEF WaitsFor
  <2>4. req[p].pc \in {"start_insert", "start_commit", "end_commit",
                       "cancel_commit", "end_update", "end_scooter"}
    BY <1>1 DEF WaitsFor, HoldsScooter, HoldsRental, HasEnded
  <2> QED
    BY <2>3, <2>4
<1>2. PICK q \in S : TRUE
  BY DEF Deadlocked
<1>3. PICK p \in S : WaitsFor(q, p)
  BY DEF Deadlocked
<1>4. PICK z \in S : WaitsFor(p, z)
  BY DEF Deadlocked
<1>5. req[p].pc = "start_insert" /\ req[z].pc = "start_insert"
  BY <1>1, <1>3, <1>4
<1> QED
  BY <1>4, <1>5 DEF WaitsFor, HasEnded

\* Without edits by administrators, the transactions of Start, End and
\* AdminCancel never wait for each other in a cycle, however many there are.
THEOREM DeadlockFree ==
  ASSUME ~AdminEdits
  PROVE  Spec => []NoLockCycle
  BY MarketInvariant, InvNoLockCycle, PTL

\* The scooter an AdminCancel is about to release is locked by nobody.
LEMMA ReleaseNeverWaits ==
  ASSUME RideInv, MarketInv, NEW q \in Requests, NEW p \in Requests,
         req[q].pc = "cancel_release"
  PROVE  ~WaitsFor(q, p)
<1> SUFFICES ASSUME p # q, HoldsScooter(p, req[q].scooter) PROVE FALSE
  BY DEF WaitsFor
<1>1. PICK s \in Scooters : s = req[q].scooter
  BY DEF RideInv, RequestsOK, RowsOK, CancelPC
<1>2. Releasing(q, s) /\ scooter[s].status = "rented" /\ ActiveOn(s) = {}
  BY <1>1 DEF MarketInv, ReleaseOwed, Releasing
<1>3. req[p].scooter = s
  BY <1>1 DEF HoldsScooter
<1>4. CASE req[p].pc \in {"start_insert", "start_commit"}
  BY <1>2, <1>3, <1>4 DEF MarketInv, LockedAvailable
<1>5. CASE req[p].pc = "cancel_commit"
  BY <1>1, <1>2, <1>3, <1>5 DEF MarketInv, ReleaseOwed, Releasing
<1>6. CASE req[p].pc = "end_commit"
  <2>1. /\ req[p].rental \in Rentals /\ Active(req[p].rental)
        /\ row[req[p].rental].scooter = s
    BY <1>3, <1>6 DEF RideInv, RequestsOK, EndPC
  <2> QED
    BY <1>2, <2>1 DEF ActiveOn
<1> QED
  BY <1>4, <1>5, <1>6 DEF HoldsScooter

\* Of the transactions that hold a lock, only one at its INSERT can be blocked.
LEMMA OnlyInsertsBlock ==
  ASSUME RideInv, MarketInv, NEW p \in Requests, NEW q \in Requests,
         WaitsFor(p, q), req[q].pc # "start_insert"
  PROVE  Unblocked(q)
<1>1. req[q].pc \in {"start_commit", "end_commit", "cancel_commit",
                     "end_update", "end_scooter"}
  BY DEF WaitsFor, HoldsScooter, HoldsRental, HasEnded
<1>2. CASE req[q].pc = "end_scooter"
  BY <1>2, EndNeverWaits DEF Unblocked
<1>3. CASE req[q].pc # "end_scooter"
  BY <1>1, <1>3 DEF Unblocked, WaitsFor
<1> QED
  BY <1>2, <1>3

LEMMA InvWaitsAreShort == RideInv /\ MarketInv => WaitsAreShort
<1> SUFFICES ASSUME RideInv, MarketInv, NEW p \in Requests, NEW q \in Requests,
                    NEW r \in Requests, WaitsFor(p, q), WaitsFor(q, r)
             PROVE  Unblocked(r)
  BY DEF WaitsAreShort
<1>1. req[q].pc = "start_insert"
  BY OnlyInsertsBlock DEF Unblocked
<1>2. req[r].pc # "start_insert"
  BY <1>1 DEF WaitsFor, HasEnded
<1> QED
  BY <1>2, OnlyInsertsBlock

\* Without edits by administrators, a blocked statement is at most two
\* transactions away from one that runs, however many requests there are.
THEOREM ShortWaits ==
  ASSUME ~AdminEdits
  PROVE  Spec => []WaitsAreShort
  BY MarketInvariant, InvWaitsAreShort, PTL

\* Without edits by administrators, some request can run as long as there is
\* one, for any number of riders, scooters and requests.
THEOREM NeverStandsStill ==
  ASSUME ~AdminEdits
  PROVE  Spec => []SomeoneRuns
<1>1. ASSUME WaitsAreShort PROVE SomeoneRuns
  <2> SUFFICES ASSUME NEW q \in Requests, req[q].pc # "idle"
               PROVE  \E p \in Requests : req[p].pc # "idle" /\ Unblocked(p)
    BY DEF SomeoneRuns
  <2>1. ASSUME NEW x \in Requests, NEW y \in Requests, WaitsFor(x, y)
        PROVE  req[y].pc # "idle"
    BY <2>1 DEF WaitsFor, HoldsScooter, HoldsRental, HasEnded
  <2>2. CASE Unblocked(q)
    BY <2>2
  <2>3. ASSUME NEW p \in Requests, WaitsFor(q, p)
        PROVE  \E x \in Requests : req[x].pc # "idle" /\ Unblocked(x)
    <3>1. CASE Unblocked(p)
      BY <2>1, <2>3, <3>1
    <3>2. ASSUME NEW r \in Requests, WaitsFor(p, r)
          PROVE  req[r].pc # "idle" /\ Unblocked(r)
      BY <1>1, <2>1, <2>3, <3>2 DEF WaitsAreShort
    <3> QED
      BY <3>1, <3>2 DEF Unblocked
  <2> QED
    BY <2>2, <2>3 DEF Unblocked
<1> QED
  BY <1>1, ShortWaits, PTL

-----------------------------------------------------------------------------
(* What holds while no request is cut short. *)

\* A request returns from the middle of a statement only when it is cut short
\* or chosen as the victim of a deadlock.
LEMMA NoVictims ==
  ASSUME ~Faults, RideInv, MarketInv, NEW q \in Requests
  PROVE  ~Abort(q) /\ ~DeadlockVictim(q)
<1>1. ~Abort(q)
  BY DEF Abort
<1>2. NoLockCycle
  BY InvNoLockCycle
<1> QED
  BY <1>1, <1>2 DEF DeadlockVictim, NoLockCycle

LEMMA NextNoOrphans ==
  ASSUME ~Faults, RideInv, MarketInv, [Next]_vars
  PROVE  UNCHANGED orphaned
<1>1. ASSUME NEW q \in Requests, Begin(q) PROVE UNCHANGED orphaned
  BY <1>1 DEF Begin, BeginStart, BeginEnd, BeginCancel
<1>2. ASSUME NEW q \in Requests, Step(q) PROVE UNCHANGED orphaned
  BY <1>2 DEF Step, StartLock, StartInsert, StartConflict, StartCommit,
     StartEmit, EndLock, EndUpdate, EndScooter, EndCommit, EndEmit, EndCharge,
     CancelUpdate, CancelRelease, CancelCommit
<1>3. ASSUME NEW s \in Scooters, Admin(s) PROVE UNCHANGED orphaned
  BY <1>3 DEF Admin, AddScooter, UpdateScooter, RetireScooter
<1>4. ASSUME NEW r \in Rentals, Settle(r) PROVE UNCHANGED orphaned
  BY <1>4 DEF Settle
<1> QED
  BY <1>1, <1>2, <1>3, <1>4, NoVictims DEF Next, vars

\* Without edits and failures, a scooter that is off the market is ridden or is
\* being released: only a failed AdminCancel ever loses one.
THEOREM NothingIsLost ==
  ASSUME ~AdminEdits, ~Faults
  PROVE  Spec => []RentedIsRidden
<1> DEFINE NoOrphans == orphaned = {}
<1>1. Init => NoOrphans
  BY DEF Init
<1>2. RideInv /\ MarketInv /\ NoOrphans /\ [Next]_vars => NoOrphans'
  BY NextNoOrphans
<1>3. MarketInv /\ NoOrphans => RentedIsRidden
  BY DEF MarketInv, RentedIsExplained, RentedIsRidden
<1> HIDE DEF NoOrphans
<1> QED
  BY <1>1, <1>2, <1>3, MarketInvariant, PTL DEF Spec

\* A step of another request leaves q where it is.
LEMMA OwnSteps ==
  ASSUME RideInv, [Next]_vars, NEW q \in Requests, req'[q] # req[q]
  PROVE  Begin(q) \/ Step(q) \/ Abort(q) \/ DeadlockVictim(q)
<1>1. ASSUME NEW p \in Requests, p # q, Begin(p) PROVE req'[q] = req[q]
  BY <1>1 DEF Begin, BeginStart, BeginEnd, BeginCancel, RideInv, TypeOK
<1>2. ASSUME NEW p \in Requests, p # q, Step(p) PROVE req'[q] = req[q]
  <2>1. ASSUME NEW pc, Goto(p, pc) PROVE req'[q] = req[q]
    BY <1>2, <2>1 DEF Goto, RideInv, TypeOK
  <2>2. ASSUME Return(p) PROVE req'[q] = req[q]
    BY <1>2, <2>2 DEF Return, RideInv, TypeOK
  <2>3. ASSUME StartInsert(p) PROVE req'[q] = req[q]
    BY <1>2, <2>3 DEF StartInsert, RideInv, TypeOK
  <2> QED
    BY <1>2, <2>1, <2>2, <2>3 DEF Step, StartLock, StartConflict, StartCommit,
       StartEmit, EndLock, EndUpdate, EndScooter, EndCommit, EndEmit, EndCharge,
       CancelUpdate, CancelRelease, CancelCommit
<1>3. ASSUME NEW p \in Requests, p # q, Rollback(p) PROVE req'[q] = req[q]
  BY <1>3 DEF Rollback, Return, RideInv, TypeOK
<1>4. ASSUME NEW s \in Scooters, Admin(s) PROVE req'[q] = req[q]
  BY <1>4 DEF Admin, AddScooter, UpdateScooter, RetireScooter
<1>5. ASSUME NEW r \in Rentals, Settle(r) PROVE req'[q] = req[q]
  BY <1>5 DEF Settle
<1> QED
  BY <1>1, <1>2, <1>3, <1>4, <1>5 DEF Next, vars, Abort, DeadlockVictim

\* Without edits and failures, an End that passed its checks completes: the
\* scooter is there to be released and no deadlock undoes it.
THEOREM EndGoesThrough ==
  ASSUME ~AdminEdits, ~Faults
  PROVE  Spec => EndsGoThrough
<1> DEFINE Past(q) == req[q].pc \in {"end_update", "end_scooter", "end_commit"}
<1>1. ASSUME RideInv, MarketInv, [Next]_vars, NEW q \in Requests, Past(q)
      PROVE  req'[q].pc # "idle"
  <2> req \in [Requests -> Request] /\ req[q] # IdleReq
    BY <1>1 DEF RideInv, TypeOK, IdleReq
  <2>1. CASE req'[q] = req[q]
    BY <1>1, <2>1
  <2>2. CASE EndUpdate(q) \/ EndCommit(q)
    BY <2>2, GotoStep, Positions DEF EndUpdate, EndCommit
  <2>3. CASE EndScooter(q)
    <3>1. /\ req[q].rental \in Rentals /\ Active(req[q].rental)
          /\ req[q].scooter = row[req[q].rental].scooter
      BY <1>1 DEF RideInv, RequestsOK, EndPC
    <3>2. scooter[req[q].scooter] = [status |-> "rented", deleted |-> FALSE]
      BY <1>1, <3>1 DEF MarketInv, ActiveHoldsScooter
    <3> QED
      BY <2>3, <3>2, GotoStep, Positions DEF EndScooter
  <2>4. req'[q] # req[q] => Begin(q) \/ Step(q)
    BY <1>1, OwnSteps, NoVictims
  <2>5. ~Begin(q)
    BY <1>1 DEF Begin, BeginStart, BeginEnd, BeginCancel
  <2>6. Step(q) => EndUpdate(q) \/ EndScooter(q) \/ EndCommit(q)
    BY <1>1 DEF Step, StartLock, StartInsert, StartConflict, StartCommit,
       StartEmit, EndLock, EndEmit, EndCharge, CancelUpdate, CancelRelease,
       CancelCommit
  <2> QED
    BY <2>1, <2>2, <2>3, <2>4, <2>5, <2>6
<1>2. RideInv /\ MarketInv /\ [Next]_vars =>
        [\A q \in Requests : Past(q) => req'[q].pc # "idle"]_vars
  BY <1>1
<1> QED
  BY <1>2, MarketInvariant, PTL DEF Spec, EndsGoThrough

\* Whatever administrators do and whatever fails, a handler goes through its
\* statements in order and retries none.
THEOREM HandlersAdvance == Spec => RequestsAdvance
<1>1. ASSUME RideInv, [Next]_vars, NEW q \in Requests,
             req[q].pc # "idle", req'[q] # req[q]
      PROVE  StatementsLeft[req'[q].pc] < StatementsLeft[req[q].pc]
  <2> req \in [Requests -> Request] /\ req[q].pc \in PCs
    BY <1>1 DEF RideInv, TypeOK, Request
  <2>1. ASSUME NEW pc \in PCs, Goto(q, pc) PROVE req'[q].pc = pc
    BY <2>1, GotoStep
  <2>2. ASSUME Return(q)
        PROVE  StatementsLeft[req'[q].pc] < StatementsLeft[req[q].pc]
    <3>1. req'[q].pc = "idle"
      BY <2>2, ReturnStep DEF IdleReq
    <3>2. \A pc \in PCs \ {"idle"} : 0 < StatementsLeft[pc]
      BY DEF PCs, StartPC, EndPC, CancelPC, StatementsLeft
    <3> QED
      BY <1>1, <3>1, <3>2 DEF StatementsLeft
  <2>3. ~Begin(q)
    BY <1>1 DEF Begin, BeginStart, BeginEnd, BeginCancel
  <2>4. ASSUME Step(q)
        PROVE  StatementsLeft[req'[q].pc] < StatementsLeft[req[q].pc]
    <3>1. CASE Return(q)
      BY <2>2, <3>1
    <3>2. CASE StartInsert(q)
      <4>1. req[q].pc = "start_insert" /\ req'[q].pc = "start_commit"
        BY <3>2 DEF StartInsert, Request
      <4> QED
        BY <4>1 DEF StatementsLeft
    <3>3. CASE ~Return(q) /\ ~StartInsert(q)
      <4>1. \/ req[q].pc = "start_lock" /\ Goto(q, "start_insert")
            \/ req[q].pc = "start_commit" /\ Goto(q, "start_emit")
            \/ req[q].pc = "end_lock" /\ Goto(q, "end_update")
            \/ req[q].pc = "end_update" /\ Goto(q, "end_scooter")
            \/ req[q].pc = "end_scooter" /\ Goto(q, "end_commit")
            \/ req[q].pc = "end_commit" /\ Goto(q, "end_emit")
            \/ req[q].pc = "end_emit" /\ Goto(q, "end_charge")
            \/ req[q].pc = "cancel_update" /\ Goto(q, "cancel_release")
            \/ req[q].pc = "cancel_release" /\ Goto(q, "cancel_commit")
        BY <2>4, <3>3 DEF Step, StartLock, StartConflict, StartCommit, StartEmit,
           EndLock, EndUpdate, EndScooter, EndCommit, EndEmit, EndCharge,
           CancelUpdate, CancelRelease, CancelCommit
      <4> QED
        BY <4>1, <2>1, Positions DEF StatementsLeft
    <3> QED
      BY <3>1, <3>2, <3>3
  <2> QED
    BY <1>1, <2>2, <2>3, <2>4, OwnSteps DEF Abort, DeadlockVictim, Rollback
<1>2. RideInv /\ [Next]_vars =>
        [\A q \in Requests :
           req[q].pc # "idle" /\ req'[q] # req[q] =>
             StatementsLeft[req'[q].pc] < StatementsLeft[req[q].pc]]_vars
  BY <1>1
<1> QED
  BY <1>2, RideInvariant, PTL DEF Spec, RequestsAdvance

-----------------------------------------------------------------------------
(* Rentals implements RideMarket *)

LEMMA RiderOf ==
  ASSUME RideInv, NEW s \in Scooters
  PROVE  /\ ActiveOn(s) = {} => riderOf[s] = None
         /\ \A r \in ActiveOn(s) : riderOf[s] = row[r].user /\ row[r].user \in Users
<1>1. ActiveOn(s) = {} => riderOf[s] = None
  BY DEF riderOf
<1>2. ASSUME NEW r \in ActiveOn(s)
      PROVE  riderOf[s] = row[r].user /\ row[r].user \in Users
  <2>1. \A x \in ActiveOn(s) : x = r
    BY DEF ActiveOn, RideInv, OneActiveRide
  <2>2. (CHOOSE x \in ActiveOn(s) : TRUE) = r
    BY <2>1
  <2>3. row[r].user \in Users
    BY DEF ActiveOn, Active, RideInv, RowsOK
  <2> QED
    BY <2>2, <2>3 DEF riderOf
<1> QED
  BY <1>1, <1>2

\* The abstract view depends on these columns only.
LEMMA ViewKept ==
  ASSUME \A s \in Scooters : scooter'[s].status = scooter[s].status,
         \A r \in Rentals : /\ row'[r].status = row[r].status
                            /\ row'[r].user = row[r].user
                            /\ row'[r].scooter = row[r].scooter
  PROVE  UNCHANGED Market!vars
<1>1. \A s \in Scooters : ActiveOn(s)' = ActiveOn(s)
  BY DEF ActiveOn, Active
<1>2. \A s \in Scooters : riderOf'[s] = riderOf[s]
  <2> TAKE s \in Scooters
  <2>1. CASE ActiveOn(s) = {}
    BY <1>1, <2>1 DEF riderOf
  <2>2. CASE ActiveOn(s) # {}
    <3>1. PICK c \in ActiveOn(s) : c = CHOOSE r \in ActiveOn(s) : TRUE
      BY <2>2
    <3>2. riderOf[s] = row[c].user
      BY <2>2, <3>1 DEF riderOf
    <3>3. riderOf'[s] = row'[c].user
      BY <1>1, <2>2, <3>1 DEF riderOf
    <3>4. c \in Rentals
      BY DEF ActiveOn
    <3> QED
      BY <3>2, <3>3, <3>4
  <2> QED
    BY <2>1, <2>2
<1>3. riderOf' = riderOf
  BY <1>2 DEF riderOf
<1>4. onOffer' = onOffer
  BY DEF onOffer
<1> QED
  BY <1>3, <1>4 DEF Market!vars

\* A step on rental n and scooter t changes the abstract rider of t only.
LEMMA RiderElsewhere ==
  ASSUME RideInv, RideInv', NEW t \in Scooters, NEW n \in Rentals,
         \A r \in Rentals : r # n => row'[r] = row[r],
         Active(n) => row[n].scooter = t, Active(n)' => row'[n].scooter = t
  PROVE  \A s \in Scooters : s # t => riderOf'[s] = riderOf[s]
<1> TAKE s \in Scooters
<1> SUFFICES ASSUME s # t PROVE riderOf'[s] = riderOf[s]
  OBVIOUS
<1>1. ActiveOn(s)' = ActiveOn(s)
  <2>1. \A r \in Rentals : (Active(r)' /\ row'[r].scooter = s)
                             <=> (Active(r) /\ row[r].scooter = s)
    BY DEF Active
  <2> QED
    BY <2>1 DEF ActiveOn
<1>2. CASE ActiveOn(s) = {}
  BY <1>1, <1>2 DEF riderOf
<1>3. CASE ActiveOn(s) # {}
  <2>1. PICK r \in ActiveOn(s) : TRUE
    BY <1>3
  <2>2. r \in Rentals /\ r # n
    BY <2>1 DEF ActiveOn
  <2>3. riderOf[s] = row[r].user
    BY <2>1, RiderOf
  <2>4. riderOf'[s] = row'[r].user
    <3>1. \A x \in ActiveOn(s)' : x = r
      BY <1>1, <2>1 DEF ActiveOn, RideInv, OneActiveRide
    <3>2. (CHOOSE x \in ActiveOn(s)' : TRUE) = r
      BY <1>1, <2>1, <3>1
    <3> QED
      BY <1>1, <1>3, <3>2 DEF riderOf
  <2> QED
    BY <2>2, <2>3, <2>4
<1> QED
  BY <1>2, <1>3

\* What the pointwise facts above say of the function riderOf.
LEMMA RiderChanges ==
  ASSUME NEW t \in Scooters, NEW u, riderOf'[t] = u,
         \A s \in Scooters : s # t => riderOf'[s] = riderOf[s]
  PROVE  riderOf' = [riderOf EXCEPT ![t] = u]
<1>1. riderOf = [s \in Scooters |-> riderOf[s]]
  BY DEF riderOf
<1>2. riderOf' = [s \in Scooters |-> riderOf'[s]]
  BY DEF riderOf
<1>3. [riderOf EXCEPT ![t] = u] =
        [s \in Scooters |-> IF s = t THEN u ELSE riderOf[s]]
  BY <1>1
<1>4. \A s \in Scooters : riderOf'[s] = IF s = t THEN u ELSE riderOf[s]
  OBVIOUS
<1> QED
  BY <1>2, <1>3, <1>4

LEMMA StartCommitTakes ==
  ASSUME RideInv, MarketInv, RideInv', NEW q \in Requests, StartCommit(q)
  PROVE  Market!Next
<1>0. PICK n, t, u : n = req[q].rental /\ t = req[q].scooter /\ u = req[q].user
  OBVIOUS
<1>1. /\ req[q].pc = "start_commit"
      /\ n \in Rentals /\ row[n].status = "absent"
      /\ t \in Scooters /\ u \in Users
      /\ scooter[t].status = "available"
  BY <1>0 DEF StartCommit, RideInv, RequestsOK, MarketInv, LockedAvailable
<1>2. /\ row'[n].status = "active" /\ row'[n].scooter = t /\ row'[n].user = u
      /\ \A r \in Rentals : r # n => row'[r] = row[r]
  BY <1>0, <1>1 DEF StartCommit, RideInv, TypeOK
<1>3. /\ scooter'[t].status = "rented"
      /\ \A s \in Scooters : s # t => scooter'[s] = scooter[s]
  BY <1>0, <1>1 DEF StartCommit, RideInv, TypeOK, ScooterRow
<1>4. t \in onOffer /\ onOffer' = onOffer \ {t}
  BY <1>1, <1>3 DEF onOffer
<1>5. ASSUME NEW s \in Scooters PROVE riderOf[s] # u
  <2>1. CASE ActiveOn(s) = {}
    BY <1>1, <2>1, RiderOf, NoneAssumption
  <2>2. CASE ActiveOn(s) # {}
    <3>1. PICK r \in ActiveOn(s) : riderOf[s] = row[r].user
      BY <2>2, RiderOf
    <3>2. row[r].user # u
      BY <1>0, <1>1, <3>1 DEF ActiveOn, Active, RideInv, InsertsOK, Conflicts
    <3> QED
      BY <3>1, <3>2
  <2> QED
    BY <2>1, <2>2
<1>6. riderOf'[t] = u
  <2>1. n \in ActiveOn(t)'
    BY <1>1, <1>2 DEF ActiveOn, Active
  <2>2. \A x \in ActiveOn(t)' : x = n
    BY <2>1 DEF ActiveOn, RideInv, OneActiveRide
  <2>3. (CHOOSE x \in ActiveOn(t)' : TRUE) = n
    BY <2>1, <2>2
  <2> QED
    BY <1>1, <1>2, <2>1, <2>3 DEF riderOf
<1>7. \A s \in Scooters : s # t => riderOf'[s] = riderOf[s]
  BY <1>1, <1>2, RiderElsewhere DEF Active
<1>8. riderOf' = [riderOf EXCEPT ![t] = u]
  BY <1>1, <1>6, <1>7, RiderChanges
<1> QED
  BY <1>1, <1>4, <1>5, <1>8 DEF Market!Next, Market!Take

LEMMA CloseGivesBack ==
  ASSUME RideInv, MarketInv, RideInv', MarketInv', NEW q \in Requests,
         EndCommit(q) \/ CancelUpdate(q), ~Return(q)
  PROVE  Market!Next
<1>0. PICK n, t : n = req[q].rental /\ t = req[q].scooter
  OBVIOUS
<1>1. /\ n \in Rentals /\ Active(n)
      /\ t = row[n].scooter /\ t \in Scooters
  BY <1>0 DEF EndCommit, CancelUpdate, RideInv, RequestsOK, RowsOK, Active,
              EndPC, CancelPC
<1>2. /\ row'[n].status # "active"
      /\ \A r \in Rentals : r # n => row'[r] = row[r]
  <2>1. CASE EndCommit(q)
    <3>1. PICK d \in {"none", "owed"} :
            row' = [row EXCEPT ![n] = [@ EXCEPT !.status = "completed",
                                                !.debt = d]]
      BY <1>0, <2>1 DEF EndCommit
    <3>2. row'[n] = [row[n] EXCEPT !.status = "completed", !.debt = d]
      BY <1>1, <3>1 DEF RideInv, TypeOK
    <3>3. row'[n].status = "completed"
      BY <1>1, <3>2 DEF RideInv, TypeOK, RentalRow
    <3> QED
      BY <3>1, <3>3 DEF RideInv, TypeOK
  <2>2. CASE CancelUpdate(q)
    BY <1>0, <1>1, <2>2 DEF CancelUpdate, RideInv, TypeOK, RentalRow
  <2> QED
    BY <2>1, <2>2
<1>3. riderOf[t] # None
  <2>1. n \in ActiveOn(t)
    BY <1>1 DEF ActiveOn
  <2> QED
    BY <1>1, <2>1, RiderOf, NoneAssumption
<1>4. riderOf'[t] = None
  <2>1. \A r \in Rentals : (r # n /\ Active(r)) => row[r].scooter # t
    BY <1>1 DEF RideInv, OneActiveRide
  <2>2. \A r \in Rentals : ~(Active(r)' /\ row'[r].scooter = t)
    BY <1>2, <2>1 DEF Active
  <2>3. ActiveOn(t)' = {}
    BY <2>2 DEF ActiveOn
  <2> QED
    BY <1>1, <2>3 DEF riderOf
<1>5. \A s \in Scooters : s # t => riderOf'[s] = riderOf[s]
  BY <1>1, <1>2, RiderElsewhere DEF Active
<1>6. riderOf' = [riderOf EXCEPT ![t] = None]
  BY <1>1, <1>4, <1>5, RiderChanges
<1>7. CASE EndCommit(q)
  <2>1. /\ scooter'[t].status = "available"
        /\ \A s \in Scooters : s # t => scooter'[s] = scooter[s]
    BY <1>0, <1>1, <1>7 DEF EndCommit, RideInv, TypeOK, ScooterRow
  <2>2. onOffer' = onOffer \cup {t}
    BY <1>1, <2>1 DEF onOffer
  <2> QED
    BY <1>1, <1>3, <1>6, <2>2 DEF Market!Next, Market!GiveBack
<1>8. CASE CancelUpdate(q)
  <2>1. onOffer' = onOffer
    BY <1>8 DEF CancelUpdate, onOffer
  <2> QED
    BY <1>1, <1>3, <1>6, <2>1 DEF Market!Next, Market!CutOff
<1> QED
  BY <1>7, <1>8

\* AddScooter, and the second transaction of AdminCancel.
LEMMA Offers ==
  ASSUME RideInv, MarketInv, NEW t \in Scooters, ActiveOn(t) = {},
         scooter[t].status # "available", UNCHANGED row,
         scooter' = [scooter EXCEPT ![t].status = "available"]
  PROVE  Market!Next
<1>1. /\ scooter'[t].status = "available"
      /\ \A s \in Scooters : s # t => scooter'[s] = scooter[s]
  BY DEF RideInv, TypeOK, ScooterRow
<1>2. t \notin onOffer /\ onOffer' = onOffer \cup {t}
  BY <1>1 DEF onOffer
<1>3. riderOf[t] = None
  BY RiderOf
<1>4. UNCHANGED riderOf
  BY DEF riderOf, ActiveOn, Active
<1> QED
  BY <1>2, <1>3, <1>4 DEF Market!Next, Market!Offer

LEMMA StepRefines ==
  ASSUME RideInv, MarketInv, RideInv', MarketInv', NEW q \in Requests, Step(q)
  PROVE  [Market!Next]_Market!vars
<1>1. CASE UNCHANGED <<scooter, row>>
  BY <1>1, ViewKept
<1>2. CASE StartCommit(q)
  BY <1>2, StartCommitTakes
<1>3. CASE (EndCommit(q) \/ CancelUpdate(q)) /\ ~Return(q)
  BY <1>3, CloseGivesBack
<1>4. ~(EndCommit(q) /\ Return(q))
  BY ReturnStep, GotoStep, Positions DEF IdleReq, EndCommit, RideInv, TypeOK
<1>5. CASE CancelUpdate(q) /\ Return(q)
  <2>1. ~Goto(q, "cancel_release")
    BY <1>5, ReturnStep, GotoStep, Positions DEF IdleReq, RideInv, TypeOK
  <2> QED
    BY <1>1, <1>5, <2>1 DEF CancelUpdate
<1>6. CASE EndCharge(q)
  <2>1. UNCHANGED scooter
    BY <1>6 DEF EndCharge
  <2>2. \A r \in Rentals : /\ row'[r].status = row[r].status
                           /\ row'[r].user = row[r].user
                           /\ row'[r].scooter = row[r].scooter
    BY <1>6 DEF EndCharge, RideInv, TypeOK, RentalRow
  <2> QED
    BY <2>1, <2>2, ViewKept
<1>7. CASE CancelCommit(q)
  <2>1. Releasing(q, req[q].scooter) /\ req[q].scooter \in Scooters
    BY <1>7 DEF CancelCommit, RideInv, RequestsOK, RowsOK, CancelPC, Releasing
  <2>2. ActiveOn(req[q].scooter) = {} /\ scooter[req[q].scooter].status = "rented"
    BY <2>1 DEF MarketInv, ReleaseOwed
  <2> QED
    BY <1>7, <2>1, <2>2, Offers DEF CancelCommit
<1> QED
  BY <1>1, <1>2, <1>3, <1>4, <1>5, <1>6, <1>7 DEF Step, StartLock, StartInsert,
     StartConflict, StartEmit, EndLock, EndUpdate, EndScooter, EndEmit,
     CancelRelease

LEMMA NextRefines ==
  ASSUME ~AdminEdits
  PROVE  RideInv /\ MarketInv /\ RideInv' /\ MarketInv' /\ [Next]_vars
           => [Market!Next]_Market!vars
<1> SUFFICES ASSUME RideInv, MarketInv, RideInv', MarketInv', [Next]_vars
             PROVE  [Market!Next]_Market!vars
  OBVIOUS
<1>1. CASE UNCHANGED <<scooter, row>>
  BY <1>1, ViewKept
<1>2. ASSUME NEW q \in Requests, Begin(q) \/ Rollback(q)
      PROVE  UNCHANGED <<scooter, row>>
  BY <1>2 DEF Begin, BeginStart, BeginEnd, BeginCancel, Rollback
<1>3. ASSUME NEW q \in Requests, Step(q) PROVE [Market!Next]_Market!vars
  BY <1>3, StepRefines
<1>4. ASSUME NEW s \in Scooters, Admin(s) PROVE [Market!Next]_Market!vars
  <2>1. AddScooter(s)
    BY <1>4 DEF Admin, UpdateScooter, RetireScooter
  <2>2. scooter[s].status = "absent" /\ UNCHANGED row
    BY <2>1 DEF AddScooter
  <2>3. ActiveOn(s) = {}
    BY <2>2 DEF ActiveOn, MarketInv, ActiveHoldsScooter
  <2> QED
    BY <2>1, <2>2, <2>3, Offers DEF AddScooter
<1>5. ASSUME NEW r \in Rentals, Settle(r) PROVE [Market!Next]_Market!vars
  <2>1. /\ UNCHANGED scooter
        /\ \A x \in Rentals : /\ row'[x].status = row[x].status
                              /\ row'[x].user = row[x].user
                              /\ row'[x].scooter = row[x].scooter
    BY <1>5 DEF Settle, RideInv, TypeOK, RentalRow
  <2> QED
    BY <2>1, ViewKept
<1> QED
  BY <1>1, <1>2, <1>3, <1>4, <1>5 DEF Next, Abort, DeadlockVictim, vars

LEMMA InitRefines == Init => Market!Init
  BY DEF Init, Market!Init, riderOf, onOffer, ActiveOn, Active, AbsentRow

\* Without edits by administrators, every behaviour of the statement-by-
\* statement rental service is one of the market in which rides begin and end
\* in single steps.
THEOREM Implements ==
  ASSUME ~AdminEdits
  PROVE  Spec => ImplementsMarket
  BY InitRefines, NextRefines, MarketInvariant, PTL
     DEF Spec, ImplementsMarket, Market!Spec
=============================================================================
