--------------------------- MODULE Notifications ---------------------------
(***************************************************************************)
(* From a published event to an e-mail: the topic exchanges, the worker's  *)
(* queue "notifications.email.send", the channels that consume from it,    *)
(* the delivery goroutine of messaging.Client.Consume and the handler of   *)
(* notifications.RegisterConsumers.                                        *)
(*                                                                         *)
(* Messaging says when channels come and go; here they are attached and    *)
(* lost at any time.  A goroutine whose connection is lost goes on with    *)
(* what it holds, beside the one that has taken its place.                 *)
(***************************************************************************)
EXTENDS Naturals, FiniteSets

CONSTANTS Events,    \* envelopes the api publishes (bound: each once)
          Types,     \* the event types among them
          Channels,  \* consumer channels and their goroutines (bound: at a time)
          Prefetch,  \* Qos of a channel
          None       \* no event

\* Types of the events the api publishes.
EventTypes == {"payment.succeeded", "payment.failed",
               "payment.offline_approved", "rental.started",
               "rental.completed", "password_reset.requested"}

\* The keys RegisterConsumers binds the queue with.
Registrations == {"payment.succeeded", "payment.failed",
                  "payment.offline_approved", "rental.completed",
                  "notification.email.#"}

\* RouteFor, where a key that falls under a pattern of Registrations is named
\* by the pattern.
RouteFor(type) ==
  IF type = "password_reset.requested" THEN "notification.email.#" ELSE type

ASSUME TypesAssumption == Types \subseteq EventTypes
ASSUME NoneAssumption == None \notin Events
ASSUME PrefetchAssumption == Prefetch \in Nat \ {0}

VARIABLES published,  \* events whose publication was tried
          accepted,   \* history: events an exchange has put into the queue
          addressed,  \* events an e-mail can be made of: the body parses, the
                      \* payload names a recipient, a template renders it
          bound,      \* bindings of the queue; durable, as the queue is
          queue,      \* events ready for delivery
          live,       \* channels that are open
          inbox,      \* deliveries a goroutine has not taken yet
          work,       \* the delivery a goroutine has taken
          verdict,    \* what its handler has returned
          mails,      \* e-mails sent for an event (bound: counted up to two)
          settled,    \* events acknowledged
          faulty      \* history: e-mail refused, connection lost or worker dead

publisher == <<published, accepted, addressed>>
worker    == <<inbox, work, verdict>>
vars == <<publisher, bound, queue, live, worker, mails, settled, faulty>>

TypeOK ==
  /\ published \subseteq Events
  /\ accepted \subseteq published
  /\ addressed \subseteq published
  /\ bound \subseteq Registrations
  /\ queue \subseteq accepted
  /\ live \subseteq Channels
  /\ inbox \in [Channels -> SUBSET accepted]
  /\ work \in [Channels -> accepted \cup {None}]
  /\ verdict \in [Channels -> {"none", "ack", "nack"}]
  /\ mails \in [Events -> 0..2]
  /\ settled \subseteq accepted
  /\ faulty \in BOOLEAN

Init ==
  /\ published = {} /\ accepted = {} /\ addressed = {}
  /\ bound = {} /\ queue = {} /\ live = {}
  /\ inbox = [c \in Channels |-> {}]
  /\ work = [c \in Channels |-> None]
  /\ verdict = [c \in Channels |-> "none"]
  /\ mails = [e \in Events |-> 0]
  /\ settled = {}
  /\ faulty = FALSE

-----------------------------------------------------------------------------
\* What goroutine c has been delivered and has not answered.
Holds(c) == inbox[c] \cup ({work[c]} \ {None})

\* The broker puts back what an open channel has not answered.
Unanswered == UNION {Holds(c) : c \in live}

-----------------------------------------------------------------------------
\* Publisher.Publish is best effort: without a connection, or when the broker
\* fails before it has the event, the event is gone.
PublishFails(e) ==
  /\ e \notin published
  /\ published' = published \cup {e}
  /\ UNCHANGED <<accepted, addressed, bound, queue, live, worker, mails,
                 settled, faulty>>

\* The exchange puts the event into the queue if a binding matches its key, and
\* drops it otherwise.
Publish(e, type) ==
  /\ e \notin published
  /\ published' = published \cup {e}
  /\ addressed' \in {addressed, addressed \cup {e}}
  /\ IF RouteFor(type) \in bound
       THEN accepted' = accepted \cup {e} /\ queue' = queue \cup {e}
       ELSE UNCHANGED <<accepted, queue>>
  /\ UNCHANGED <<bound, live, worker, mails, settled, faulty>>

\* Client.Consume, at start-up or after a reconnect: declare, bind, consume.
\* (bound: only the keys of Types are registered)
Consume(c, key) ==
  /\ c \notin live /\ Holds(c) = {}
  /\ key \in {RouteFor(type) : type \in Types}
  /\ bound' = bound \cup {key}
  /\ live' = live \cup {c}
  /\ UNCHANGED <<publisher, queue, worker, mails, settled, faulty>>

\* The broker delivers an event to a channel that has room for it.
Deliver(e, c) ==
  /\ e \in queue /\ c \in live
  /\ Cardinality(Holds(c)) < Prefetch
  /\ queue' = queue \ {e}
  /\ inbox' = [inbox EXCEPT ![c] = @ \cup {e}]
  /\ UNCHANGED <<publisher, bound, live, work, verdict, mails, settled,
                 faulty>>

-----------------------------------------------------------------------------
\* The delivery goroutine and the handler.

Take(c, e) ==
  /\ work[c] = None
  /\ e \in inbox[c]
  /\ work' = [work EXCEPT ![c] = e]
  /\ inbox' = [inbox EXCEPT ![c] = @ \ {e}]
  /\ UNCHANGED <<publisher, bound, queue, live, verdict, mails, settled,
                 faulty>>

Working(c) == work[c] # None /\ verdict[c] = "none"

\* The handler and dispatch return nil, which settles the event, when no e-mail
\* can be made of it: bad envelope, no recipient, unknown type, failed Render.
Discard(c) ==
  /\ Working(c)
  /\ work[c] \notin addressed
  /\ verdict' = [verdict EXCEPT ![c] = "ack"]
  /\ UNCHANGED <<publisher, bound, queue, live, inbox, work, mails, settled,
                 faulty>>

OneMore(n) == IF n < 2 THEN n + 1 ELSE n

SendEmail(c) ==
  /\ Working(c)
  /\ work[c] \in addressed
  /\ mails' = [mails EXCEPT ![work[c]] = OneMore(@)]
  /\ verdict' = [verdict EXCEPT ![c] = "ack"]
  /\ UNCHANGED <<publisher, bound, queue, live, inbox, work, settled,
                 faulty>>

\* Mutant: dispatch logs the error and returns nil.
SendEmailFails_Logged(c) ==
  /\ Working(c)
  /\ work[c] \in addressed
  /\ mails' \in {mails, [mails EXCEPT ![work[c]] = OneMore(@)]}
  /\ verdict' = [verdict EXCEPT ![c] = "ack"]
  /\ faulty' = TRUE
  /\ UNCHANGED <<publisher, bound, queue, live, inbox, work, settled>>

\* The SMTP server refuses the e-mail, or takes it and its reply is lost.
SendEmailFails(c) ==
  /\ Working(c)
  /\ work[c] \in addressed
  /\ mails' \in {mails, [mails EXCEPT ![work[c]] = OneMore(@)]}
  /\ verdict' = [verdict EXCEPT ![c] = "nack"]
  /\ faulty' = TRUE
  /\ UNCHANGED <<publisher, bound, queue, live, inbox, work, settled>>

\* Mutants: Nack without requeue; the test of err is inverted.
Answer_NoRequeue(c) ==
  /\ verdict[c] # "none"
  /\ settled' = IF c \in live /\ verdict[c] = "ack"
                  THEN settled \cup {work[c]} ELSE settled
  /\ UNCHANGED queue
  /\ work' = [work EXCEPT ![c] = None]
  /\ verdict' = [verdict EXCEPT ![c] = "none"]
  /\ UNCHANGED <<publisher, bound, live, inbox, mails, faulty>>
Answer_Inverted(c) ==
  /\ verdict[c] # "none"
  /\ settled' = IF c \in live /\ verdict[c] = "nack"
                  THEN settled \cup {work[c]} ELSE settled
  /\ queue' = IF c \in live /\ verdict[c] = "ack"
                THEN queue \cup {work[c]} ELSE queue
  /\ work' = [work EXCEPT ![c] = None]
  /\ verdict' = [verdict EXCEPT ![c] = "none"]
  /\ UNCHANGED <<publisher, bound, live, inbox, mails, faulty>>

\* Ack, or Nack with requeue; on a lost channel neither reaches the broker.
Answer(c) ==
  /\ verdict[c] # "none"
  /\ settled' = IF c \in live /\ verdict[c] = "ack"
                  THEN settled \cup {work[c]} ELSE settled
  /\ queue' = IF c \in live /\ verdict[c] = "nack"
                THEN queue \cup {work[c]} ELSE queue
  /\ work' = [work EXCEPT ![c] = None]
  /\ verdict' = [verdict EXCEPT ![c] = "none"]
  /\ UNCHANGED <<publisher, bound, live, inbox, mails, faulty>>

-----------------------------------------------------------------------------
\* All channels of the worker are on one connection.  When it is lost the
\* broker queues again what they have not answered; the library may still hand
\* over a delivery it had received.
LoseConnection ==
  /\ live # {}
  /\ queue' = queue \cup Unanswered
  /\ live' = {}
  /\ inbox' \in [Channels -> SUBSET accepted]
  /\ \A c \in Channels : inbox'[c] \subseteq inbox[c]
  /\ faulty' = TRUE
  /\ UNCHANGED <<publisher, bound, work, verdict, mails, settled>>

\* The worker dies with all its goroutines, and is started again.
Crash ==
  /\ queue' = queue \cup Unanswered
  /\ live' = {}
  /\ inbox' = [c \in Channels |-> {}]
  /\ work' = [c \in Channels |-> None]
  /\ verdict' = [c \in Channels |-> "none"]
  /\ faulty' = TRUE
  /\ UNCHANGED <<publisher, bound, mails, settled>>

-----------------------------------------------------------------------------
Next ==
  \/ \E e \in Events :
       PublishFails(e) \/ \E type \in Types : Publish(e, type)
  \/ \E c \in Channels :
       \/ \E key \in Registrations : Consume(c, key)
       \/ \E e \in Events : Deliver(e, c) \/ Take(c, e)
       \/ Discard(c) \/ SendEmail(c) \/ SendEmailFails(c) \/ Answer(c)
  \/ LoseConnection \/ Crash

Spec == Init /\ [][Next]_vars

\* Channels are attached, events delivered and handled; an e-mail that is tried
\* again and again is accepted in the end, and of several events none is passed
\* over for ever.  The publisher owes nothing.
Handle(c) == Discard(c) \/ SendEmail(c)

Fairness ==
  /\ WF_vars(\E c \in Channels, key \in Registrations : Consume(c, key))
  /\ \A e \in Events :
       /\ SF_vars(\E c \in Channels : Deliver(e, c))
       /\ SF_vars(\E c \in Channels : Take(c, e))
       /\ SF_vars(\E c \in Channels : work[c] = e /\ Handle(c))
  /\ \A c \in Channels : WF_vars(Answer(c))

FairSpec == Spec /\ Fairness

-----------------------------------------------------------------------------
(* Properties. *)

\* An event in the worker's care is ready in the queue, or unanswered on exactly
\* one open channel, until it is settled; lost connections and failed e-mails
\* neither lose nor double it at the broker.
InOnePlace ==
  /\ accepted \ settled = queue \cup Unanswered
  /\ settled \cap (queue \cup Unanswered) = {}
  /\ queue \cap Unanswered = {}
  /\ \A c, d \in live : c # d => Holds(c) \cap Holds(d) = {}
  /\ \A c \in live : work[c] \notin inbox[c]

\* Until an e-mail fails, a connection is lost or a worker dies, nobody gets an
\* e-mail twice, and of the settled events exactly those an e-mail can be made
\* of were mailed, in whatever order the goroutines take and answer them.
OneMailWithoutFaults ==
  ~faulty => /\ \A e \in Events : mails[e] <= 1
             /\ \A e \in settled : mails[e] = 1 <=> e \in addressed

\* The worker keeps its contract: nothing addressed is settled unmailed.
Contract == INSTANCE MailContract
              WITH addressed <- addressed \cap accepted,
                   mailed <- {e \in Events : mails[e] > 0}
ImplementsContract == Contract!Spec

\* Once connections are kept and workers live, every accepted event that
\* is addressed leads to an e-mail, however many were refused, lost or cut short
\* before, and however often one is refused still.
Steady == <>[][~LoseConnection /\ ~Crash]_vars
EventuallyMailed ==
  Steady => \A e \in Events : e \in accepted \cap addressed ~> mails[e] > 0
=============================================================================
