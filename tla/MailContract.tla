---------------------------- MODULE MailContract ----------------------------
(***************************************************************************)
(* What the notifications worker promises for the events the broker has    *)
(* accepted into its queue: an event an e-mail can be made of is mailed at *)
(* least once before it is settled, and a settled event stays settled.     *)
(***************************************************************************)
CONSTANT Events

VARIABLES accepted,   \* events in the worker's care
          addressed,  \* those an e-mail can be made of
          mailed,     \* events some e-mail was sent for
          settled     \* events the broker has forgotten

vars == <<accepted, addressed, mailed, settled>>

Init == accepted = {} /\ addressed = {} /\ mailed = {} /\ settled = {}

Accept(e) ==
  /\ e \notin accepted
  /\ accepted' = accepted \cup {e}
  /\ addressed' \in {addressed, addressed \cup {e}}
  /\ UNCHANGED <<mailed, settled>>

Mail(e) ==
  /\ e \in addressed
  /\ mailed' = mailed \cup {e}
  /\ UNCHANGED <<accepted, addressed, settled>>

Settle(e) ==
  /\ e \in accepted \ settled
  /\ e \in addressed => e \in mailed
  /\ settled' = settled \cup {e}
  /\ UNCHANGED <<accepted, addressed, mailed>>

Next == \E e \in Events : Accept(e) \/ Mail(e) \/ Settle(e)

Spec == Init /\ [][Next]_vars
=============================================================================
