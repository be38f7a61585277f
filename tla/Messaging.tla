----------------------------- MODULE Messaging -----------------------------
(***************************************************************************)
(* messaging.Client: the connection to RabbitMQ, the goroutine that        *)
(* re-dials it (watchReconnect), the list of registered consumers, and     *)
(* Close.  One caller (the start-up and the stop of the api or the worker  *)
(* process) runs beside that goroutine.                                    *)
(*                                                                         *)
(* A section under c.mu or consumersMu is one action, since nothing else   *)
(* is awaited inside it than the broker.  A connection is a value of       *)
(* Conns; the value is used again once nothing refers to it, so there is   *)
(* no bound on the number of losses.                                       *)
(***************************************************************************)
EXTENDS Naturals, FiniteSets

CONSTANTS Exchanges,  \* exchanges NewPublisher declares (api process)
          Consumers,  \* registrations RegisterConsumers makes (worker process)
          Conns,      \* connections (bound: in use at the same time)
          None        \* nil

ASSUME NoneAssumption == None \notin Conns \cup Consumers

VARIABLES process,    \* "up", or how it ended: "fatal" (start-up), "panicked"
          conn,       \* c.conn
          pubChan,    \* the connection c.pubChan belongs to
          exchanges,  \* c.exchanges
          consumers,  \* c.consumers; no registration is ever in it twice
          closed,     \* has c.closed been closed?
          open,       \* connections that are open at both ends
          attached,   \* consumer channels with a delivery goroutine
          loop,       \* position of watchReconnect (of NewClient before it)
          watched,    \* the connection whose NotifyClose it listens to
          fresh,      \* the connection connect() has dialled and not stored
          specs,      \* registrations the replay has still to re-consume
          adding,     \* the registration each goroutine will append next
          caller,     \* position of the caller
          registered, \* history: registrations whose Consume returned nil
          forgotten,  \* history: registrations whose re-Consume failed
          disturbed   \* history: has the broker failed when the loop was not
                      \* listening, or the caller was about to append?

client  == <<conn, pubChan, exchanges, consumers, closed>>
network == <<open, attached>>
replay  == <<watched, fresh, specs>>
history == <<registered, forgotten, disturbed>>
vars == <<process, client, network, loop, replay, adding, caller, history>>

Goroutines == {"caller", "loop"}
Channel    == Consumers \X Conns \X Goroutines

TypeOK ==
  /\ process \in {"up", "fatal", "panicked"}
  /\ conn \in Conns \cup {None}
  /\ pubChan \in Conns \cup {None}
  /\ exchanges \subseteq Exchanges
  /\ consumers \subseteq Consumers
  /\ closed \in BOOLEAN
  /\ open \subseteq Conns
  /\ attached \subseteq Channel
  /\ loop \in {"dial", "channel", "top", "notify", "wait", "redial",
               "exchanges", "snapshot", "consume", "append", "gone"}
  /\ watched \in Conns \cup {None}
  /\ fresh \in Conns \cup {None}
  /\ specs \subseteq Consumers
  /\ adding \in [Goroutines -> Consumers \cup {None}]
  /\ caller \in {"booting", "idle", "append", "closing", "closed"}
  /\ registered \subseteq Consumers
  /\ forgotten \subseteq Consumers
  /\ disturbed \in BOOLEAN

Init ==
  /\ process = "up"
  /\ conn = None /\ pubChan = None
  /\ exchanges = {} /\ consumers = {}
  /\ closed = FALSE
  /\ open = {} /\ attached = {}
  /\ loop = "dial" /\ watched = None /\ fresh = None /\ specs = {}
  /\ adding = [g \in Goroutines |-> None]
  /\ caller = "booting"
  /\ registered = {} /\ forgotten = {} /\ disturbed = FALSE

\* Where the two goroutines are, in a process that runs.
At(position) == process = "up" /\ loop = position
CallerAt(position) == process = "up" /\ caller = position

-----------------------------------------------------------------------------
\* Connections.

Unused == Conns \ (open \cup {conn, pubChan, watched, fresh})

\* With connection k gone, the deliveries of its channels end.
Without(k) == {c \in attached : c[2] # k}

\* The broker or the network drops a connection.  If the loop listens to it
\* the error arrives on notify.
Listening(k) == loop = "wait" /\ watched = k /\ caller # "append"

Lose(k) ==
  /\ process = "up" /\ k \in open
  /\ open' = open \ {k}
  /\ attached' = Without(k)
  /\ disturbed' = (disturbed \/ ~Listening(k))
  /\ UNCHANGED <<process, client, loop, replay, adding, caller, registered,
                 forgotten>>

-----------------------------------------------------------------------------
\* NewClient and connect(), which watchReconnect calls as well.

Booting == caller = "booting"

\* amqp.Dial fails: sleep and try again.
DialFails ==
  /\ At("dial")
  /\ loop' = IF Booting THEN "dial" ELSE "redial"
  /\ UNCHANGED <<process, client, network, replay, adding, caller, history>>

\* dialWithRetry has used up its budget; NewClient fails, the process ends.
DialGivesUp ==
  /\ At("dial") /\ Booting
  /\ process' = "fatal"
  /\ UNCHANGED <<client, network, loop, replay, adding, caller, history>>

Dial ==
  /\ At("dial")
  /\ \E k \in Unused : open' = open \cup {k} /\ fresh' = k
  /\ loop' = "channel"
  /\ UNCHANGED <<process, client, attached, watched, specs, adding, caller,
                 history>>

\* Mutant: the new connection is left open.
ChannelFails_Leaks ==
  /\ At("channel")
  /\ fresh' = None
  /\ loop' = IF Booting THEN "dial" ELSE "redial"
  /\ UNCHANGED <<process, client, network, watched, specs, adding, caller,
                 history>>

\* conn.Channel() fails, and the new connection is closed again.
ChannelFails ==
  /\ At("channel")
  /\ open' = open \ {fresh}
  /\ fresh' = None
  /\ loop' = IF Booting THEN "dial" ELSE "redial"
  /\ UNCHANGED <<process, client, attached, watched, specs, adding, caller,
                 history>>

\* The connection is installed, whether or not the client was closed meanwhile.
\* At start-up NewClient then starts the loop and returns.
Connected ==
  /\ At("channel")
  /\ fresh \in open
  /\ conn' = fresh /\ pubChan' = fresh /\ fresh' = None
  /\ loop' = IF Booting THEN "top" ELSE "exchanges"
  /\ caller' = IF Booting THEN "idle" ELSE caller
  /\ UNCHANGED <<process, exchanges, consumers, closed, network, watched,
                 specs, adding, history>>

-----------------------------------------------------------------------------
\* watchReconnect.

ReadConn ==
  /\ At("top")
  /\ watched' = conn
  /\ loop' = IF conn = None THEN "gone" ELSE "notify"
  /\ UNCHANGED <<process, client, network, fresh, specs, adding, caller,
                 history>>

\* NotifyClose of a connection that is closed already closes the receiver at
\* once, and the loop returns as it does for a closed receiver.
Notify ==
  /\ At("notify")
  /\ loop' = IF watched \in open THEN "wait" ELSE "gone"
  /\ UNCHANGED <<process, client, network, replay, adding, caller, history>>

Notified ==
  /\ At("wait")
  /\ watched \notin open /\ ~closed
  /\ loop' = "redial"
  /\ UNCHANGED <<process, client, network, replay, adding, caller, history>>

\* Mutant: only the second select looks at c.closed.
SeesClosed_RedialOnly ==
  /\ At("redial")
  /\ closed
  /\ loop' = "gone"
  /\ UNCHANGED <<process, client, network, replay, adding, caller, history>>

\* case <-c.closed, in either select.
SeesClosed ==
  /\ At("wait") \/ At("redial")
  /\ closed
  /\ loop' = "gone"
  /\ UNCHANGED <<process, client, network, replay, adding, caller, history>>

Redial ==
  /\ At("redial")
  /\ ~closed
  /\ loop' = "dial"
  /\ UNCHANGED <<process, client, network, replay, adding, caller, history>>

\* ExchangeDeclare on the new channel; its errors are logged.  A channel that
\* Close has set to nil meanwhile makes the goroutine panic.
ReplayExchanges ==
  /\ At("exchanges")
  /\ IF exchanges # {} /\ pubChan = None
       THEN process' = "panicked" /\ UNCHANGED loop
       ELSE loop' = "snapshot" /\ UNCHANGED process
  /\ UNCHANGED <<client, network, replay, adding, caller, history>>

\* Mutant: the list is copied and kept; Consume appends to it again.
Snapshot_Kept ==
  /\ At("snapshot")
  /\ specs' = consumers
  /\ loop' = "consume"
  /\ UNCHANGED <<process, client, network, watched, fresh, adding, caller,
                 history>>

\* Copy and clear the list under consumersMu.
Snapshot ==
  /\ At("snapshot")
  /\ specs' = consumers
  /\ consumers' = {}
  /\ loop' = "consume"
  /\ UNCHANGED <<process, conn, pubChan, exchanges, closed, network, watched,
                 fresh, adding, caller, history>>

\* Consume up to its success or failure at the broker: the channel belongs to
\* the connection c.conn holds.
CanAttach == conn \in open

Reattach ==
  /\ At("consume")
  /\ \E s \in specs :
       /\ CanAttach
       /\ attached' = attached \cup {<<s, conn, "loop">>}
       /\ adding' = [adding EXCEPT !["loop"] = s]
       /\ specs' = specs \ {s}
  /\ loop' = "append"
  /\ UNCHANGED <<process, client, open, watched, fresh, caller, history>>

\* The error is logged and the next registration is tried.
ReattachFails ==
  /\ At("consume")
  /\ \E s \in specs : specs' = specs \ {s} /\ forgotten' = forgotten \cup {s}
  /\ disturbed' = TRUE
  /\ UNCHANGED <<process, client, network, loop, watched, fresh, adding, caller,
                 registered>>

\* Mutant: the registration is attached again and not appended again.
ReplayAppend_Skipped ==
  /\ At("append")
  /\ adding' = [adding EXCEPT !["loop"] = None]
  /\ loop' = "consume"
  /\ UNCHANGED <<process, client, network, replay, caller, history>>

ReplayAppend ==
  /\ At("append")
  /\ consumers' = consumers \cup {adding["loop"]}
  /\ adding' = [adding EXCEPT !["loop"] = None]
  /\ loop' = "consume"
  /\ UNCHANGED <<process, conn, pubChan, exchanges, closed, network, replay,
                 caller, history>>

\* Mutant: return where the code breaks out of the inner loop.
Replayed_Returns ==
  /\ At("consume") /\ specs = {}
  /\ loop' = "gone"
  /\ UNCHANGED <<process, client, network, replay, adding, caller, history>>

Replayed ==
  /\ At("consume") /\ specs = {}
  /\ loop' = "top"
  /\ UNCHANGED <<process, client, network, replay, adding, caller, history>>

-----------------------------------------------------------------------------
\* The caller: NewPublisher or RegisterConsumers, then the OnStop hook.

DeclareExchange(x) ==
  /\ CallerAt("idle") /\ x \notin exchanges
  /\ pubChan \in open
  /\ exchanges' = exchanges \cup {x}
  /\ UNCHANGED <<process, conn, pubChan, consumers, closed, network, loop,
                 replay, adding, caller, history>>

Consume(s) ==
  /\ CallerAt("idle") /\ s \notin registered
  /\ CanAttach
  /\ attached' = attached \cup {<<s, conn, "caller">>}
  /\ adding' = [adding EXCEPT !["caller"] = s]
  /\ caller' = "append"
  /\ UNCHANGED <<process, client, open, loop, replay, history>>

ConsumeAppend ==
  /\ CallerAt("append")
  /\ consumers' = consumers \cup {adding["caller"]}
  /\ registered' = registered \cup {adding["caller"]}
  /\ adding' = [adding EXCEPT !["caller"] = None]
  /\ caller' = "idle"
  /\ UNCHANGED <<process, conn, pubChan, exchanges, closed, network, loop,
                 replay, forgotten, disturbed>>

\* An error of either call at start-up ends the process.
StartupFails ==
  /\ CallerAt("idle")
  /\ exchanges # Exchanges \/ registered # Consumers
  /\ process' = "fatal"
  /\ UNCHANGED <<client, network, loop, replay, adding, caller, history>>

CloseSignal ==
  /\ CallerAt("idle")
  /\ exchanges = Exchanges /\ registered = Consumers
  /\ closed' = TRUE
  /\ caller' = "closing"
  /\ UNCHANGED <<process, conn, pubChan, exchanges, consumers, network, loop,
                 replay, adding, history>>

\* The section of Close under c.mu.
CloseConn ==
  /\ CallerAt("closing")
  /\ open' = open \ {conn}
  /\ attached' = Without(conn)
  /\ conn' = None /\ pubChan' = None
  /\ caller' = "closed"
  /\ UNCHANGED <<process, exchanges, consumers, closed, loop, replay, adding,
                 history>>

-----------------------------------------------------------------------------
LoopStep ==
  \/ DialFails \/ DialGivesUp \/ Dial \/ ChannelFails \/ Connected
  \/ ReadConn \/ Notify \/ Notified \/ SeesClosed \/ Redial
  \/ ReplayExchanges \/ Snapshot
  \/ Reattach \/ ReattachFails \/ ReplayAppend \/ Replayed

CallerStep ==
  \/ \E x \in Exchanges : DeclareExchange(x)
  \/ \E s \in Consumers : Consume(s)
  \/ ConsumeAppend \/ StartupFails \/ CloseSignal \/ CloseConn

Next == LoopStep \/ CallerStep \/ \E k \in Conns : Lose(k)

Spec == Init /\ [][Next]_vars

\* The goroutines run; a broker that is dialled again and again answers some
\* time, and does not refuse every channel.  Nothing makes the caller close.
Fairness ==
  /\ WF_vars(LoopStep) /\ SF_vars(Dial) /\ SF_vars(Connected)
  /\ WF_vars(ConsumeAppend \/ CloseConn)

FairSpec == Spec /\ Fairness

-----------------------------------------------------------------------------
(* Properties. *)

\* The registration the replay has attached and will append.
Redoing == {adding["loop"]} \ {None}

\* Every registration that Consume has accepted is in exactly one place, though
\* the list is cleared and rebuilt while the caller appends to it: in the list,
\* in the copy still to be replayed, about to be appended again, or dropped
\* because its re-Consume failed.
RegistrationsAccounted ==
  /\ registered = consumers \cup specs \cup Redoing \cup forgotten
  /\ consumers \cap specs = {}
  /\ Redoing \cap (consumers \cup specs) = {}
  /\ forgotten \cap (consumers \cup specs \cup Redoing) = {}

\* However dials, losses, failed channels and Close interleave, the process
\* never has two connections open.
OneConnection == \A j, k \in open : j = k

\* When the loop ends without Close, the connection it leaves behind is dead, and
\* it died when the loop did not listen: the loop never abandons one that works,
\* nor one whose loss it heard of.
EndsOnlyOnDeadConn == loop = "gone" /\ ~closed => conn \notin open /\ disturbed

\* The replay finds a nil publishing channel, and panics, only when the client
\* is being closed.
PanicsOnlyWhenClosed == process = "panicked" => closed

\* So the loop ends only with Close, or on a dead connection it could not hear of.
LoopEndsForReason == EndsOnlyOnDeadConn /\ PanicsOnlyWhenClosed

\* A registration with a goroutine that reads from the installed connection.
Attached(s) == \E g \in Goroutines : <<s, conn, g>> \in attached

\* When the loop is back at its select, or on its way there, and the connection
\* is open, every registration accepted so far is attached to it, though the
\* list was copied, cleared and rebuilt while the caller went on registering;
\* unless the broker failed at the wrong time, where the two promises below are
\* broken.
AttachedWhenSettled ==
  loop \in {"top", "notify", "wait"} /\ conn \in open /\ ~disturbed
    => \A s \in registered : Attached(s)

\* A registration is attached again after every loss the loop hears of, unless
\* the client is closed, and unless the broker fails at the wrong time.
Reattaches ==
  \A s \in Consumers :
    s \in registered ~> Attached(s) \/ closed \/ disturbed \/ process # "up"

\* Close stops the reconnect loop, wherever in its cycle it is.
CloseStopsLoop == closed ~> loop = "gone" \/ process # "up"

(* What comments say and the code does not do. *)

\* "spawns a goroutine that reconnects with exponential backoff on disconnect":
\* until Close that goroutine is there.
LoopOutlivesLosses == process = "up" /\ loop = "gone" => closed
=============================================================================
