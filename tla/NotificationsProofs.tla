------------------------ MODULE NotificationsProofs ------------------------
(***************************************************************************)
(* The safety of the way from event to e-mail, for any number of events,   *)
(* channels and any prefetch count.                                        *)
(*                                                                         *)
(* InOnePlace is inductive.  The contract needs in addition what a         *)
(* handler's verdict says about the e-mails (VerdictsTrue), and single     *)
(* e-mails need that without faults an event that can still be sent has    *)
(* not been sent (UnsentUnmailed).                                         *)
(***************************************************************************)
EXTENDS Notifications, TLAPS

VerdictsTrue ==
  /\ \A c \in Channels : verdict[c] # "none" => work[c] # None
  /\ \A c \in Channels :
       verdict[c] = "ack" /\ work[c] \in addressed => mails[work[c]] > 0
  /\ \A e \in settled \cap addressed : mails[e] > 0
  /\ \A e \in Events \ (accepted \cap addressed) : mails[e] = 0

UnsentUnmailed ==
  ~faulty =>
    /\ \A c \in Channels \ live : Holds(c) = {}
    /\ \A c \in Channels : verdict[c] # "nack"
    /\ \A e \in queue : mails[e] = 0
    /\ \A c \in Channels : \A e \in inbox[c] : mails[e] = 0
    /\ \A c \in Channels : Working(c) => mails[work[c]] = 0
    /\ \A e \in Events : mails[e] <= 1

NotesInv == TypeOK /\ InOnePlace /\ VerdictsTrue /\ UnsentUnmailed

LEMMA InitNotesInv == Init => NotesInv
<1> SUFFICES ASSUME Init PROVE NotesInv
  OBVIOUS
<1> USE NoneAssumption DEF Init
<1>1. TypeOK
  <2>1. mails \in [Events -> 0..2]
    OBVIOUS
  <2> QED BY <2>1 DEF TypeOK
<1>2. Unanswered = {}
  BY DEF Unanswered
<1>3. InOnePlace
  BY <1>2 DEF InOnePlace
<1>4. VerdictsTrue
  BY DEF VerdictsTrue
<1>5. UnsentUnmailed
  BY DEF UnsentUnmailed, Holds, Working
<1> QED
  BY <1>1, <1>3, <1>4, <1>5 DEF NotesInv
LEMMA StepTypeOK == NotesInv /\ [Next]_vars => TypeOK'
<1> SUFFICES ASSUME NotesInv, [Next]_vars PROVE TypeOK'
  OBVIOUS
<1> USE NoneAssumption
    DEF NotesInv, TypeOK, publisher, worker
<1>1. ASSUME NEW e \in Events, PublishFails(e) PROVE TypeOK'
  BY <1>1 DEF PublishFails, Holds, Unanswered, OneMore, Working, RouteFor
<1>2. ASSUME NEW e \in Events, NEW t \in Types, Publish(e, t) PROVE TypeOK'
  BY <1>2 DEF Publish, Holds, Unanswered, OneMore, Working, RouteFor
<1>3. ASSUME NEW c \in Channels, NEW k \in Registrations, Consume(c, k) PROVE TypeOK'
  BY <1>3 DEF Consume, Holds, Unanswered, OneMore, Working, RouteFor
<1>4. ASSUME NEW e \in Events, NEW c \in Channels, Deliver(e, c) PROVE TypeOK'
  BY <1>4 DEF Deliver, Holds, Unanswered, OneMore, Working, RouteFor
<1>5. ASSUME NEW c \in Channels, NEW e \in Events, Take(c, e) PROVE TypeOK'
  BY <1>5 DEF Take, Holds, Unanswered, OneMore, Working, RouteFor
<1>6. ASSUME NEW c \in Channels, Discard(c) PROVE TypeOK'
  BY <1>6 DEF Discard, Holds, Unanswered, OneMore, Working, RouteFor
<1>7. ASSUME NEW c \in Channels, SendEmail(c) PROVE TypeOK'
  BY <1>7 DEF SendEmail, Holds, Unanswered, OneMore, Working, RouteFor
<1>8. ASSUME NEW c \in Channels, SendEmailFails(c) PROVE TypeOK'
  BY <1>8 DEF SendEmailFails, Holds, Unanswered, OneMore, Working, RouteFor
<1>9. ASSUME NEW c \in Channels, Answer(c) PROVE TypeOK'
  BY <1>9 DEF Answer, VerdictsTrue, Holds, Unanswered, OneMore, Working, RouteFor
<1>10. CASE LoseConnection
  BY <1>10 DEF LoseConnection, Holds, Unanswered, OneMore, Working, RouteFor
<1>11. CASE Crash
  BY <1>11 DEF Crash, Holds, Unanswered, OneMore, Working, RouteFor
<1>12. CASE UNCHANGED vars
  BY <1>12 DEF vars, Holds, Unanswered, OneMore, Working, RouteFor
<1> QED
  BY <1>1, <1>2, <1>3, <1>4, <1>5, <1>6, <1>7, <1>8, <1>9, <1>10, <1>11, <1>12 DEF Next

LEMMA StepInOnePlace == NotesInv /\ [Next]_vars => InOnePlace'
<1> SUFFICES ASSUME NotesInv, [Next]_vars PROVE InOnePlace'
  OBVIOUS
<1> TypeOK'
  BY StepTypeOK
<1> USE NoneAssumption
    DEF NotesInv, TypeOK, InOnePlace, Holds, Unanswered, VerdictsTrue, publisher, worker
<1>1. ASSUME NEW e \in Events, PublishFails(e) PROVE InOnePlace'
  BY <1>1 DEF PublishFails, Working
<1>2. ASSUME NEW e \in Events, NEW t \in Types, Publish(e, t) PROVE InOnePlace'
  BY <1>2 DEF Publish, Working
<1>3. ASSUME NEW c \in Channels, NEW k \in Registrations, Consume(c, k) PROVE InOnePlace'
  BY <1>3 DEF Consume, Working
<1>4. ASSUME NEW e \in Events, NEW c \in Channels, Deliver(e, c) PROVE InOnePlace'
  BY <1>4 DEF Deliver, Working
<1>5. ASSUME NEW c \in Channels, NEW e \in Events, Take(c, e) PROVE InOnePlace'
  BY <1>5 DEF Take, Working
<1>6. ASSUME NEW c \in Channels, Discard(c) PROVE InOnePlace'
  BY <1>6 DEF Discard, Working
<1>7. ASSUME NEW c \in Channels, SendEmail(c) PROVE InOnePlace'
  BY <1>7 DEF SendEmail, Working
<1>8. ASSUME NEW c \in Channels, SendEmailFails(c) PROVE InOnePlace'
  BY <1>8 DEF SendEmailFails, Working
<1>9. ASSUME NEW c \in Channels, Answer(c) PROVE InOnePlace'
  BY <1>9 DEF Answer, Working
<1>10. CASE LoseConnection
  BY <1>10 DEF LoseConnection, Working
<1>11. CASE Crash
  BY <1>11 DEF Crash, Working
<1>12. CASE UNCHANGED vars
  BY <1>12 DEF vars, Working
<1> QED
  BY <1>1, <1>2, <1>3, <1>4, <1>5, <1>6, <1>7, <1>8, <1>9, <1>10, <1>11, <1>12 DEF Next

LEMMA StepVerdictsTrue == NotesInv /\ [Next]_vars => VerdictsTrue'
<1> SUFFICES ASSUME NotesInv, [Next]_vars PROVE VerdictsTrue'
  OBVIOUS
<1> TypeOK'
  BY StepTypeOK
<1> USE NoneAssumption
    DEF NotesInv, TypeOK, VerdictsTrue, publisher, worker
<1>1. ASSUME NEW e \in Events, PublishFails(e) PROVE VerdictsTrue'
  BY <1>1 DEF PublishFails, Working, OneMore
<1>2. ASSUME NEW e \in Events, NEW t \in Types, Publish(e, t) PROVE VerdictsTrue'
  BY <1>2 DEF Publish, Working, OneMore
<1>3. ASSUME NEW c \in Channels, NEW k \in Registrations, Consume(c, k) PROVE VerdictsTrue'
  BY <1>3 DEF Consume, Working, OneMore
<1>4. ASSUME NEW e \in Events, NEW c \in Channels, Deliver(e, c) PROVE VerdictsTrue'
  BY <1>4 DEF Deliver, Working, OneMore
<1>5. ASSUME NEW c \in Channels, NEW e \in Events, Take(c, e) PROVE VerdictsTrue'
  BY <1>5 DEF Take, Working, OneMore
<1>6. ASSUME NEW c \in Channels, Discard(c) PROVE VerdictsTrue'
  BY <1>6 DEF Discard, Working, OneMore
<1>7. ASSUME NEW c \in Channels, SendEmail(c) PROVE VerdictsTrue'
  BY <1>7 DEF SendEmail, Working, OneMore
<1>8. ASSUME NEW c \in Channels, SendEmailFails(c) PROVE VerdictsTrue'
  BY <1>8 DEF SendEmailFails, Working, OneMore
<1>9. ASSUME NEW c \in Channels, Answer(c) PROVE VerdictsTrue'
  BY <1>9 DEF Answer, Working, OneMore
<1>10. CASE LoseConnection
  BY <1>10 DEF LoseConnection, Working, OneMore
<1>11. CASE Crash
  BY <1>11 DEF Crash, Working, OneMore
<1>12. CASE UNCHANGED vars
  BY <1>12 DEF vars, Working, OneMore
<1> QED
  BY <1>1, <1>2, <1>3, <1>4, <1>5, <1>6, <1>7, <1>8, <1>9, <1>10, <1>11, <1>12 DEF Next

LEMMA StepUnsentUnmailed == NotesInv /\ [Next]_vars => UnsentUnmailed'
<1> SUFFICES ASSUME NotesInv, [Next]_vars PROVE UnsentUnmailed'
  OBVIOUS
<1> TypeOK'
  BY StepTypeOK
<1> USE NoneAssumption
    DEF NotesInv, TypeOK, InOnePlace, Holds, Unanswered, VerdictsTrue, UnsentUnmailed, Working,
        publisher, worker
<1>1. ASSUME NEW e \in Events, PublishFails(e) PROVE UnsentUnmailed'
  BY <1>1 DEF PublishFails, OneMore
<1>2. ASSUME NEW e \in Events, NEW t \in Types, Publish(e, t) PROVE UnsentUnmailed'
  BY <1>2 DEF Publish, OneMore
<1>3. ASSUME NEW c \in Channels, NEW k \in Registrations, Consume(c, k) PROVE UnsentUnmailed'
  BY <1>3 DEF Consume, OneMore
<1>4. ASSUME NEW e \in Events, NEW c \in Channels, Deliver(e, c) PROVE UnsentUnmailed'
  BY <1>4 DEF Deliver, OneMore
<1>5. ASSUME NEW c \in Channels, NEW e \in Events, Take(c, e) PROVE UnsentUnmailed'
  BY <1>5 DEF Take, OneMore
<1>6. ASSUME NEW c \in Channels, Discard(c) PROVE UnsentUnmailed'
  BY <1>6 DEF Discard, OneMore
<1>7. ASSUME NEW c \in Channels, SendEmail(c) PROVE UnsentUnmailed'
  BY <1>7 DEF SendEmail, OneMore
<1>8. ASSUME NEW c \in Channels, SendEmailFails(c) PROVE UnsentUnmailed'
  BY <1>8 DEF SendEmailFails, OneMore
<1>9. ASSUME NEW c \in Channels, Answer(c) PROVE UnsentUnmailed'
  BY <1>9 DEF Answer, OneMore
<1>10. CASE LoseConnection
  BY <1>10 DEF LoseConnection, OneMore
<1>11. CASE Crash
  BY <1>11 DEF Crash, OneMore
<1>12. CASE UNCHANGED vars
  BY <1>12 DEF vars, OneMore
<1> QED
  BY <1>1, <1>2, <1>3, <1>4, <1>5, <1>6, <1>7, <1>8, <1>9, <1>10, <1>11, <1>12 DEF Next

LEMMA NextNotesInv == NotesInv /\ [Next]_vars => NotesInv'
  BY StepTypeOK, StepInOnePlace, StepVerdictsTrue, StepUnsentUnmailed
     DEF NotesInv

\* The invariant of the queue, its channels and their goroutines.
THEOREM WorkerInvariant == Spec => []NotesInv
  BY InitNotesInv, NextNotesInv, PTL DEF Spec

\* Events, channels, deliveries and counters keep their types.
THEOREM TypeCorrect == Spec => []TypeOK
  BY WorkerInvariant, PTL DEF NotesInv

\* The broker neither loses nor doubles an event on its way to being settled.
THEOREM OnePlace == Spec => []InOnePlace
  BY WorkerInvariant, PTL DEF NotesInv

\* Without faults no rider gets an e-mail twice, and the settled events an e-mail
\* can be made of were mailed exactly once.
THEOREM NoSecondMail == Spec => []OneMailWithoutFaults
<1>1. NotesInv => OneMailWithoutFaults
  BY DEF NotesInv, TypeOK, UnsentUnmailed, VerdictsTrue, OneMailWithoutFaults
<1> QED
  BY <1>1, WorkerInvariant, PTL

-----------------------------------------------------------------------------
(* The contract. *)

LEMMA InitContract == Init => Contract!Init
  BY DEF Init, Contract!Init

LEMMA StepContract == NotesInv /\ [Next]_vars => [Contract!Next]_(Contract!vars)
<1> SUFFICES ASSUME NotesInv, [Next]_vars PROVE [Contract!Next]_(Contract!vars)
  OBVIOUS
<1> USE NoneAssumption
    DEF NotesInv, TypeOK, publisher, worker, Contract!Next, Contract!vars
<1>1. ASSUME NEW e \in Events, PublishFails(e)
      PROVE  [Contract!Next]_(Contract!vars)
  BY <1>1 DEF PublishFails
<1>2. ASSUME NEW e \in Events, NEW t \in Types, Publish(e, t)
      PROVE  [Contract!Next]_(Contract!vars)
  BY <1>2 DEF Publish, Contract!Accept
<1>3. ASSUME NEW c \in Channels, NEW k \in Registrations, Consume(c, k)
      PROVE  [Contract!Next]_(Contract!vars)
  BY <1>3 DEF Consume
<1>4. ASSUME NEW e \in Events, NEW c \in Channels, Deliver(e, c)
      PROVE  [Contract!Next]_(Contract!vars)
  BY <1>4 DEF Deliver
<1>5. ASSUME NEW c \in Channels, NEW e \in Events, Take(c, e)
      PROVE  [Contract!Next]_(Contract!vars)
  BY <1>5 DEF Take
<1>6. ASSUME NEW c \in Channels, Discard(c)
      PROVE  [Contract!Next]_(Contract!vars)
  BY <1>6 DEF Discard
<1>7. ASSUME NEW c \in Channels, SendEmail(c)
      PROVE  [Contract!Next]_(Contract!vars)
  BY <1>7 DEF SendEmail, Working, OneMore, Contract!Mail
<1>8. ASSUME NEW c \in Channels, SendEmailFails(c)
      PROVE  [Contract!Next]_(Contract!vars)
  BY <1>8 DEF SendEmailFails, Working, OneMore, Contract!Mail
<1>9. ASSUME NEW c \in Channels, Answer(c)
      PROVE  [Contract!Next]_(Contract!vars)
  BY <1>9 DEF Answer, VerdictsTrue, InOnePlace, Holds, Unanswered,
              Contract!Settle
<1>10. CASE LoseConnection
  BY <1>10 DEF LoseConnection
<1>11. CASE Crash
  BY <1>11 DEF Crash
<1>12. CASE UNCHANGED vars
  BY <1>12 DEF vars
<1> HIDE DEF NotesInv, TypeOK, publisher, worker, Contract!Next, Contract!vars
<1> QED
  BY <1>1, <1>2, <1>3, <1>4, <1>5, <1>6, <1>7, <1>8, <1>9, <1>10, <1>11,
     <1>12 DEF Next

\* The worker implements its contract: at least one e-mail for every accepted
\* event an e-mail can be made of before the broker forgets it.
THEOREM KeepsItsContract == Spec => ImplementsContract
<1>1. NotesInv /\ [Next]_vars => [Contract!Next]_(Contract!vars)
  BY StepContract
<1> QED
  BY <1>1, InitContract, WorkerInvariant, PTL
     DEF Spec, ImplementsContract, Contract!Spec

=============================================================================
