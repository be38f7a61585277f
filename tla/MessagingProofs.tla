-------------------------- MODULE MessagingProofs --------------------------
(***************************************************************************)
(* The safety of messaging.Client, for any number of registrations,        *)
(* exchanges and connections, and whenever the broker fails.               *)
(*                                                                         *)
(* None of the properties is inductive.  That only one connection is open  *)
(* needs to know that the loop dials only when the installed one is dead   *)
(* (DialsWhenDead); that registrations are accounted for needs where each  *)
(* goroutine is when it holds one (Positions); that the loop leaves only a *)
(* connection whose loss it could not hear needs which losses were noticed *)
(* (LossesNoticed); and that everything is attached when the loop is back  *)
(* at its select needs what the replay has done so far (ReplayAttaches).   *)
(***************************************************************************)
EXTENDS Messaging, TLAPS

\* What the positions of the two goroutines say about their locals.
Positions ==
  /\ Booting => loop \in {"dial", "channel"} /\ conn = None
                /\ consumers = {} /\ registered = {}
  /\ closed <=> caller \in {"closing", "closed"}
  /\ conn = None => Booting \/ closed
  /\ pubChan = conn
  /\ loop = "channel" <=> fresh # None
  /\ loop \in {"notify", "wait"} => watched # None /\ conn \in {watched, None}
  /\ specs # {} => loop \in {"consume", "append"}
  /\ adding["loop"] # None <=> loop = "append"
  /\ adding["caller"] # None <=> caller = "append"
  /\ caller = "append" => adding["caller"] \notin registered

\* Only the installed connection or the one being dialled is open, and nothing
\* is dialled while the installed one works.
DialsWhenDead ==
  /\ open \subseteq {conn, fresh}
  /\ loop \in {"dial", "channel", "redial"} => conn \notin open
  /\ EndsOnlyOnDeadConn
  /\ PanicsOnlyWhenClosed

\* The loop is at none of its three positions that deal with a loss, and has not
\* ended because of one.
Unaware == loop \in {"exchanges", "snapshot", "consume", "append", "top", "notify"}

\* A connection that is dead and unnoticed was lost at the wrong time.
LossesNoticed == Unaware /\ ~closed => conn \in open \/ disturbed

\* As long as the broker has not failed at the wrong time: what the caller has
\* consumed it will append on the same connection, and the replay has attached
\* what it has put back in the list.
ReplayAttaches ==
  ~disturbed =>
    /\ forgotten = {}
    /\ caller = "append" =>
         conn \in open /\ <<adding["caller"], conn, "caller">> \in attached
    /\ loop = "append" /\ conn \in open =>
         <<adding["loop"], conn, "loop">> \in attached
    /\ loop \in {"consume", "append", "top", "notify", "wait"} /\ conn \in open =>
         \A s \in consumers : Attached(s)

MsgInv ==
  /\ TypeOK /\ Positions /\ DialsWhenDead /\ RegistrationsAccounted
  /\ LossesNoticed /\ ReplayAttaches

LEMMA InitMsgInv == Init => MsgInv
  BY NoneAssumption
     DEF Init, MsgInv, TypeOK, Positions, DialsWhenDead, EndsOnlyOnDeadConn,
         PanicsOnlyWhenClosed, RegistrationsAccounted, Redoing, Booting,
         Goroutines, LossesNoticed, Unaware, ReplayAttaches

LEMMA StepTypeOK == MsgInv /\ [Next]_vars => TypeOK'
<1> SUFFICES ASSUME MsgInv, [Next]_vars PROVE TypeOK'
  OBVIOUS
<1> USE DEF MsgInv, Positions, TypeOK, At, CallerAt, client, network, replay,
            history
<1>1. CASE DialFails
  BY <1>1 DEF DialFails
<1>2. CASE DialGivesUp
  BY <1>2 DEF DialGivesUp
<1>3. CASE Dial
  BY <1>3 DEF Dial, Unused
<1>4. CASE ChannelFails
  BY <1>4 DEF ChannelFails
<1>5. CASE Connected
  BY <1>5 DEF Connected
<1>6. CASE ReadConn
  BY <1>6 DEF ReadConn
<1>7. CASE Notify
  BY <1>7 DEF Notify
<1>8. CASE Notified
  BY <1>8 DEF Notified
<1>9. CASE SeesClosed
  BY <1>9 DEF SeesClosed
<1>10. CASE Redial
  BY <1>10 DEF Redial
<1>11. CASE ReplayExchanges
  BY <1>11 DEF ReplayExchanges
<1>12. CASE Snapshot
  BY <1>12 DEF Snapshot
<1>13. CASE Reattach
  <2>1. PICK s \in specs :
          /\ attached' = attached \cup {<<s, conn, "loop">>}
          /\ adding' = [adding EXCEPT !["loop"] = s]
          /\ specs' = specs \ {s}
    BY <1>13 DEF Reattach
  <2>2. conn \in Conns
    BY <1>13 DEF Reattach, CanAttach
  <2>3. attached' \subseteq Channel
    BY <2>1, <2>2 DEF Channel, Goroutines
  <2>4. adding' \in [Goroutines -> Consumers \cup {None}]
    BY <2>1 DEF Goroutines
  <2> QED BY <1>13, <2>1, <2>3, <2>4 DEF Reattach
<1>14. CASE ReattachFails
  BY <1>14 DEF ReattachFails
<1>15. CASE ReplayAppend
  BY <1>15 DEF ReplayAppend, Goroutines
<1>16. CASE Replayed
  BY <1>16 DEF Replayed
<1>17. ASSUME NEW x \in Exchanges, DeclareExchange(x) PROVE TypeOK'
  BY <1>17 DEF DeclareExchange
<1>18. ASSUME NEW s \in Consumers, Consume(s) PROVE TypeOK'
  <2>1. attached' \subseteq Channel
    BY <1>18 DEF Consume, Channel, Goroutines, CanAttach
  <2>2. adding' \in [Goroutines -> Consumers \cup {None}]
    BY <1>18 DEF Consume, Goroutines
  <2> QED BY <1>18, <2>1, <2>2 DEF Consume
<1>19. CASE ConsumeAppend
  BY <1>19 DEF ConsumeAppend, Goroutines
<1>20. CASE StartupFails
  BY <1>20 DEF StartupFails
<1>21. CASE CloseSignal
  BY <1>21 DEF CloseSignal
<1>22. CASE CloseConn
  BY <1>22 DEF CloseConn, Without
<1>23. ASSUME NEW k \in Conns, Lose(k) PROVE TypeOK'
  BY <1>23 DEF Lose, Without
<1>24. CASE UNCHANGED vars
  BY <1>24 DEF vars
<1> QED
  BY <1>1, <1>2, <1>3, <1>4, <1>5, <1>6, <1>7, <1>8, <1>9, <1>10, <1>11,
     <1>12, <1>13, <1>14, <1>15, <1>16, <1>17, <1>18, <1>19, <1>20, <1>21,
     <1>22, <1>23, <1>24 DEF Next, LoopStep, CallerStep
LEMMA StepPositions == MsgInv /\ [Next]_vars => Positions'
<1> SUFFICES ASSUME MsgInv, [Next]_vars PROVE Positions'
  OBVIOUS
<1> TypeOK'
  BY StepTypeOK
<1> USE NoneAssumption
    DEF MsgInv, Positions, TypeOK, At, CallerAt, client, network, replay,
        history, Booting
<1>1. CASE DialFails
  BY <1>1 DEF DialFails, Goroutines, Unused, CanAttach, Redoing, RegistrationsAccounted
<1>2. CASE DialGivesUp
  BY <1>2 DEF DialGivesUp, Goroutines, Unused, CanAttach, Redoing, RegistrationsAccounted
<1>3. CASE Dial
  BY <1>3 DEF Dial, Goroutines, Unused, CanAttach, Redoing, RegistrationsAccounted
<1>4. CASE ChannelFails
  BY <1>4 DEF ChannelFails, Goroutines, Unused, CanAttach, Redoing, RegistrationsAccounted
<1>5. CASE Connected
  BY <1>5 DEF Connected, Goroutines, Unused, CanAttach, Redoing, RegistrationsAccounted
<1>6. CASE ReadConn
  BY <1>6 DEF ReadConn, Goroutines, Unused, CanAttach, Redoing, RegistrationsAccounted
<1>7. CASE Notify
  BY <1>7 DEF Notify, Goroutines, Unused, CanAttach, Redoing, RegistrationsAccounted
<1>8. CASE Notified
  BY <1>8 DEF Notified, Goroutines, Unused, CanAttach, Redoing, RegistrationsAccounted
<1>9. CASE SeesClosed
  BY <1>9 DEF SeesClosed, Goroutines, Unused, CanAttach, Redoing, RegistrationsAccounted
<1>10. CASE Redial
  BY <1>10 DEF Redial, Goroutines, Unused, CanAttach, Redoing, RegistrationsAccounted
<1>11. CASE ReplayExchanges
  BY <1>11 DEF ReplayExchanges, Goroutines, Unused, CanAttach, Redoing, RegistrationsAccounted
<1>12. CASE Snapshot
  BY <1>12 DEF Snapshot, Goroutines, Unused, CanAttach, Redoing, RegistrationsAccounted
<1>13. CASE Reattach
  BY <1>13 DEF Reattach, Goroutines, Unused, CanAttach, Redoing, RegistrationsAccounted
<1>14. CASE ReattachFails
  BY <1>14 DEF ReattachFails, Goroutines, Unused, CanAttach, Redoing, RegistrationsAccounted
<1>15. CASE ReplayAppend
  BY <1>15 DEF ReplayAppend, Goroutines, Unused, CanAttach, Redoing, RegistrationsAccounted
<1>16. CASE Replayed
  BY <1>16 DEF Replayed, Goroutines, Unused, CanAttach, Redoing, RegistrationsAccounted
<1>17. ASSUME NEW x \in Exchanges, DeclareExchange(x) PROVE Positions'
  BY <1>17 DEF DeclareExchange, Goroutines, Unused, CanAttach, Redoing, RegistrationsAccounted
<1>18. ASSUME NEW s \in Consumers, Consume(s) PROVE Positions'
  BY <1>18 DEF Consume, Goroutines, Unused, CanAttach, Redoing, RegistrationsAccounted
<1>19. CASE ConsumeAppend
  BY <1>19 DEF ConsumeAppend, Goroutines, Unused, CanAttach, Redoing, RegistrationsAccounted
<1>20. CASE StartupFails
  BY <1>20 DEF StartupFails, Goroutines, Unused, CanAttach, Redoing, RegistrationsAccounted
<1>21. CASE CloseSignal
  BY <1>21 DEF CloseSignal, Goroutines, Unused, CanAttach, Redoing, RegistrationsAccounted
<1>22. CASE CloseConn
  BY <1>22 DEF CloseConn, Goroutines, Unused, CanAttach, Redoing, RegistrationsAccounted
<1>23. ASSUME NEW k \in Conns, Lose(k) PROVE Positions'
  BY <1>23 DEF Lose, Goroutines, Unused, CanAttach, Redoing, RegistrationsAccounted
<1>24. CASE UNCHANGED vars
  BY <1>24 DEF vars, Goroutines, Unused, CanAttach, Redoing, RegistrationsAccounted
<1> QED
  BY <1>1, <1>2, <1>3, <1>4, <1>5, <1>6, <1>7, <1>8, <1>9, <1>10, <1>11, <1>12, <1>13, <1>14, <1>15, <1>16, <1>17, <1>18, <1>19, <1>20, <1>21, <1>22, <1>23, <1>24 DEF Next, LoopStep, CallerStep

LEMMA StepDialsWhenDead == MsgInv /\ [Next]_vars => DialsWhenDead'
<1> SUFFICES ASSUME MsgInv, [Next]_vars PROVE DialsWhenDead'
  OBVIOUS
<1> TypeOK'
  BY StepTypeOK
<1> USE NoneAssumption
    DEF MsgInv, Positions, DialsWhenDead, TypeOK, At, CallerAt, client, network,
        replay, history, EndsOnlyOnDeadConn, PanicsOnlyWhenClosed, Booting,
        LossesNoticed, Unaware
<1>1. CASE DialFails
  BY <1>1 DEF DialFails, Unused
<1>2. CASE DialGivesUp
  BY <1>2 DEF DialGivesUp, Unused
<1>3. CASE Dial
  BY <1>3 DEF Dial, Unused
<1>4. CASE ChannelFails
  BY <1>4 DEF ChannelFails, Unused
<1>5. CASE Connected
  BY <1>5 DEF Connected, Unused
<1>6. CASE ReadConn
  BY <1>6 DEF ReadConn, Unused
<1>7. CASE Notify
  BY <1>7 DEF Notify, Unused
<1>8. CASE Notified
  BY <1>8 DEF Notified, Unused
<1>9. CASE SeesClosed
  BY <1>9 DEF SeesClosed, Unused
<1>10. CASE Redial
  BY <1>10 DEF Redial, Unused
<1>11. CASE ReplayExchanges
  BY <1>11 DEF ReplayExchanges, Unused
<1>12. CASE Snapshot
  BY <1>12 DEF Snapshot, Unused
<1>13. CASE Reattach
  BY <1>13 DEF Reattach, Unused
<1>14. CASE ReattachFails
  BY <1>14 DEF ReattachFails, Unused
<1>15. CASE ReplayAppend
  BY <1>15 DEF ReplayAppend, Unused
<1>16. CASE Replayed
  BY <1>16 DEF Replayed, Unused
<1>17. ASSUME NEW x \in Exchanges, DeclareExchange(x) PROVE DialsWhenDead'
  BY <1>17 DEF DeclareExchange, Unused
<1>18. ASSUME NEW s \in Consumers, Consume(s) PROVE DialsWhenDead'
  BY <1>18 DEF Consume, Unused
<1>19. CASE ConsumeAppend
  BY <1>19 DEF ConsumeAppend, Unused
<1>20. CASE StartupFails
  BY <1>20 DEF StartupFails, Unused
<1>21. CASE CloseSignal
  BY <1>21 DEF CloseSignal, Unused
<1>22. CASE CloseConn
  BY <1>22 DEF CloseConn, Unused
<1>23. ASSUME NEW k \in Conns, Lose(k) PROVE DialsWhenDead'
  BY <1>23 DEF Lose, Unused
<1>24. CASE UNCHANGED vars
  BY <1>24 DEF vars, Unused
<1> QED
  BY <1>1, <1>2, <1>3, <1>4, <1>5, <1>6, <1>7, <1>8, <1>9, <1>10, <1>11, <1>12, <1>13, <1>14, <1>15, <1>16, <1>17, <1>18, <1>19, <1>20, <1>21, <1>22, <1>23, <1>24 DEF Next, LoopStep, CallerStep

LEMMA StepAccounted == MsgInv /\ [Next]_vars => RegistrationsAccounted'
<1> SUFFICES ASSUME MsgInv, [Next]_vars PROVE RegistrationsAccounted'
  OBVIOUS
<1> TypeOK'
  BY StepTypeOK
<1> USE NoneAssumption
    DEF MsgInv, Positions, TypeOK, At, CallerAt, client, network, replay,
        history, RegistrationsAccounted, Redoing, Booting
<1>1. CASE DialFails
  BY <1>1 DEF DialFails, Goroutines
<1>2. CASE DialGivesUp
  BY <1>2 DEF DialGivesUp, Goroutines
<1>3. CASE Dial
  BY <1>3 DEF Dial, Goroutines
<1>4. CASE ChannelFails
  BY <1>4 DEF ChannelFails, Goroutines
<1>5. CASE Connected
  BY <1>5 DEF Connected, Goroutines
<1>6. CASE ReadConn
  BY <1>6 DEF ReadConn, Goroutines
<1>7. CASE Notify
  BY <1>7 DEF Notify, Goroutines
<1>8. CASE Notified
  BY <1>8 DEF Notified, Goroutines
<1>9. CASE SeesClosed
  BY <1>9 DEF SeesClosed, Goroutines
<1>10. CASE Redial
  BY <1>10 DEF Redial, Goroutines
<1>11. CASE ReplayExchanges
  BY <1>11 DEF ReplayExchanges, Goroutines
<1>12. CASE Snapshot
  BY <1>12 DEF Snapshot, Goroutines
<1>13. CASE Reattach
  BY <1>13 DEF Reattach, Goroutines
<1>14. CASE ReattachFails
  BY <1>14 DEF ReattachFails, Goroutines
<1>15. CASE ReplayAppend
  BY <1>15 DEF ReplayAppend, Goroutines
<1>16. CASE Replayed
  BY <1>16 DEF Replayed, Goroutines
<1>17. ASSUME NEW x \in Exchanges, DeclareExchange(x) PROVE RegistrationsAccounted'
  BY <1>17 DEF DeclareExchange, Goroutines
<1>18. ASSUME NEW s \in Consumers, Consume(s) PROVE RegistrationsAccounted'
  BY <1>18 DEF Consume, Goroutines
<1>19. CASE ConsumeAppend
  BY <1>19 DEF ConsumeAppend, Goroutines
<1>20. CASE StartupFails
  BY <1>20 DEF StartupFails, Goroutines
<1>21. CASE CloseSignal
  BY <1>21 DEF CloseSignal, Goroutines
<1>22. CASE CloseConn
  BY <1>22 DEF CloseConn, Goroutines
<1>23. ASSUME NEW k \in Conns, Lose(k) PROVE RegistrationsAccounted'
  BY <1>23 DEF Lose, Goroutines
<1>24. CASE UNCHANGED vars
  BY <1>24 DEF vars, Goroutines
<1> QED
  BY <1>1, <1>2, <1>3, <1>4, <1>5, <1>6, <1>7, <1>8, <1>9, <1>10, <1>11, <1>12, <1>13, <1>14, <1>15, <1>16, <1>17, <1>18, <1>19, <1>20, <1>21, <1>22, <1>23, <1>24 DEF Next, LoopStep, CallerStep

LEMMA StepLossesNoticed == MsgInv /\ [Next]_vars => LossesNoticed'
<1> SUFFICES ASSUME MsgInv, [Next]_vars PROVE LossesNoticed'
  OBVIOUS
<1> TypeOK'
  BY StepTypeOK
<1> USE NoneAssumption
    DEF MsgInv, Positions, DialsWhenDead, LossesNoticed, Unaware, TypeOK, At,
        CallerAt, client, network, replay, history, Booting
<1>1. CASE DialFails
  BY <1>1 DEF DialFails
<1>2. CASE DialGivesUp
  BY <1>2 DEF DialGivesUp
<1>3. CASE Dial
  BY <1>3 DEF Dial
<1>4. CASE ChannelFails
  BY <1>4 DEF ChannelFails
<1>5. CASE Connected
  BY <1>5 DEF Connected
<1>6. CASE ReadConn
  BY <1>6 DEF ReadConn
<1>7. CASE Notify
  BY <1>7 DEF Notify
<1>8. CASE Notified
  BY <1>8 DEF Notified
<1>9. CASE SeesClosed
  BY <1>9 DEF SeesClosed
<1>10. CASE Redial
  BY <1>10 DEF Redial
<1>11. CASE ReplayExchanges
  BY <1>11 DEF ReplayExchanges
<1>12. CASE Snapshot
  BY <1>12 DEF Snapshot
<1>13. CASE Reattach
  BY <1>13 DEF Reattach
<1>14. CASE ReattachFails
  BY <1>14 DEF ReattachFails
<1>15. CASE ReplayAppend
  BY <1>15 DEF ReplayAppend
<1>16. CASE Replayed
  BY <1>16 DEF Replayed
<1>17. ASSUME NEW x \in Exchanges, DeclareExchange(x) PROVE LossesNoticed'
  BY <1>17 DEF DeclareExchange
<1>18. ASSUME NEW s \in Consumers, Consume(s) PROVE LossesNoticed'
  BY <1>18 DEF Consume
<1>19. CASE ConsumeAppend
  BY <1>19 DEF ConsumeAppend
<1>20. CASE StartupFails
  BY <1>20 DEF StartupFails
<1>21. CASE CloseSignal
  BY <1>21 DEF CloseSignal
<1>22. CASE CloseConn
  BY <1>22 DEF CloseConn
<1>23. ASSUME NEW k \in Conns, Lose(k) PROVE LossesNoticed'
  BY <1>23 DEF Lose, Listening
<1>24. CASE UNCHANGED vars
  BY <1>24 DEF vars
<1> QED
  BY <1>1, <1>2, <1>3, <1>4, <1>5, <1>6, <1>7, <1>8, <1>9, <1>10, <1>11,
     <1>12, <1>13, <1>14, <1>15, <1>16, <1>17, <1>18, <1>19, <1>20, <1>21,
     <1>22, <1>23, <1>24
     DEF Next, LoopStep, CallerStep

LEMMA StepReplayAttaches == MsgInv /\ [Next]_vars => ReplayAttaches'
<1> SUFFICES ASSUME MsgInv, [Next]_vars PROVE ReplayAttaches'
  OBVIOUS
<1> TypeOK'
  BY StepTypeOK
<1> USE NoneAssumption
    DEF MsgInv, Positions, DialsWhenDead, LossesNoticed, Unaware, ReplayAttaches,
        RegistrationsAccounted, Redoing, Attached, TypeOK, At, CallerAt, client,
        network, replay, history, Booting
<1>1. CASE DialFails
  BY <1>1 DEF DialFails, Goroutines, Without, CanAttach, Listening, Unused
<1>2. CASE DialGivesUp
  BY <1>2 DEF DialGivesUp, Goroutines, Without, CanAttach, Listening, Unused
<1>3. CASE Dial
  BY <1>3 DEF Dial, Goroutines, Without, CanAttach, Listening, Unused
<1>4. CASE ChannelFails
  BY <1>4 DEF ChannelFails, Goroutines, Without, CanAttach, Listening, Unused
<1>5. CASE Connected
  BY <1>5 DEF Connected, Goroutines, Without, CanAttach, Listening, Unused
<1>6. CASE ReadConn
  BY <1>6 DEF ReadConn, Goroutines, Without, CanAttach, Listening, Unused
<1>7. CASE Notify
  BY <1>7 DEF Notify, Goroutines, Without, CanAttach, Listening, Unused
<1>8. CASE Notified
  BY <1>8 DEF Notified, Goroutines, Without, CanAttach, Listening, Unused
<1>9. CASE SeesClosed
  BY <1>9 DEF SeesClosed, Goroutines, Without, CanAttach, Listening, Unused
<1>10. CASE Redial
  BY <1>10 DEF Redial, Goroutines, Without, CanAttach, Listening, Unused
<1>11. CASE ReplayExchanges
  BY <1>11 DEF ReplayExchanges, Goroutines, Without, CanAttach, Listening, Unused
<1>12. CASE Snapshot
  BY <1>12 DEF Snapshot, Goroutines, Without, CanAttach, Listening, Unused
<1>13. CASE Reattach
  BY <1>13 DEF Reattach, Goroutines, Without, CanAttach, Listening, Unused
<1>14. CASE ReattachFails
  BY <1>14 DEF ReattachFails, Goroutines, Without, CanAttach, Listening, Unused
<1>15. CASE ReplayAppend
  BY <1>15 DEF ReplayAppend, Goroutines, Without, CanAttach, Listening, Unused
<1>16. CASE Replayed
  BY <1>16 DEF Replayed, Goroutines, Without, CanAttach, Listening, Unused
<1>17. ASSUME NEW x \in Exchanges, DeclareExchange(x) PROVE ReplayAttaches'
  BY <1>17 DEF DeclareExchange, Goroutines, Without, CanAttach, Listening, Unused
<1>18. ASSUME NEW s \in Consumers, Consume(s) PROVE ReplayAttaches'
  BY <1>18 DEF Consume, Goroutines, Without, CanAttach, Listening, Unused
<1>19. CASE ConsumeAppend
  BY <1>19 DEF ConsumeAppend, Goroutines, Without, CanAttach, Listening, Unused
<1>20. CASE StartupFails
  BY <1>20 DEF StartupFails, Goroutines, Without, CanAttach, Listening, Unused
<1>21. CASE CloseSignal
  BY <1>21 DEF CloseSignal, Goroutines, Without, CanAttach, Listening, Unused
<1>22. CASE CloseConn
  BY <1>22 DEF CloseConn, Goroutines, Without, CanAttach, Listening, Unused
<1>23. ASSUME NEW k \in Conns, Lose(k) PROVE ReplayAttaches'
  BY <1>23 DEF Lose, Goroutines, Without, CanAttach, Listening, Unused
<1>24. CASE UNCHANGED vars
  BY <1>24 DEF vars, Goroutines, Without, CanAttach, Listening, Unused
<1> QED
  BY <1>1, <1>2, <1>3, <1>4, <1>5, <1>6, <1>7, <1>8, <1>9, <1>10, <1>11,
     <1>12, <1>13, <1>14, <1>15, <1>16, <1>17, <1>18, <1>19, <1>20, <1>21,
     <1>22, <1>23, <1>24
     DEF Next, LoopStep, CallerStep

LEMMA NextMsgInv == MsgInv /\ [Next]_vars => MsgInv'
  BY StepTypeOK, StepPositions, StepDialsWhenDead, StepAccounted,
     StepLossesNoticed, StepReplayAttaches DEF MsgInv

\* The invariant of the client, of which the properties are parts.
THEOREM ClientInvariant == Spec => []MsgInv
  BY InitMsgInv, NextMsgInv, PTL DEF Spec

\* The client's fields, the broker's and the locals keep their types.
THEOREM TypeCorrect == Spec => []TypeOK
  BY ClientInvariant, PTL DEF MsgInv

\* Clearing and rebuilding the list loses nothing but failed registrations,
\* and doubles nothing.
THEOREM RegistrationsKept == Spec => []RegistrationsAccounted
  BY ClientInvariant, PTL DEF MsgInv

\* A process has one connection at most.
THEOREM OneConnectionOnly == Spec => []OneConnection
<1>1. MsgInv => OneConnection
  BY NoneAssumption
     DEF MsgInv, DialsWhenDead, Positions, TypeOK, OneConnection
<1> QED
  BY <1>1, ClientInvariant, PTL

\* The loop never leaves a connection that works, nor one whose loss it heard of,
\* unless the client is closed; and it panics only while the client is being
\* closed.
THEOREM LoopEndsWithReason == Spec => []LoopEndsForReason
<1>1. MsgInv => LoopEndsForReason
  BY DEF MsgInv, DialsWhenDead, LoopEndsForReason
<1> QED
  BY <1>1, ClientInvariant, PTL

\* Whenever the loop is back at its select, every registration accepted is
\* attached to the open connection, unless the broker failed at the wrong time.
THEOREM SettledMeansAttached == Spec => []AttachedWhenSettled
<1>1. MsgInv => AttachedWhenSettled
  BY NoneAssumption
     DEF MsgInv, ReplayAttaches, RegistrationsAccounted, Redoing, Positions,
         AttachedWhenSettled
<1> QED
  BY <1>1, ClientInvariant, PTL

=============================================================================
