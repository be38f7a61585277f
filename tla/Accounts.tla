------------------------------ MODULE Accounts ------------------------------
(***************************************************************************)
(* The table users and the two kinds of requests that read it in one       *)
(* statement and write it in a later one: a login with Google, which finds *)
(* an account by subject, then by e-mail, and links or creates it, and     *)
(* EnsureCustomer, which gives an account its Stripe customer the first    *)
(* time a card is asked for.  Concurrent requests interleave at every      *)
(* statement and every call of Stripe.                                     *)
(*                                                                         *)
(* Names and phone numbers are data no property looks at, and the role of  *)
(* every account this code creates is "user".  Passwords and tokens are    *)
(* module Sessions.  google is the only provider, so an identity is a      *)
(* subject.                                                                *)
(***************************************************************************)
EXTENDS FiniteSets

CONSTANTS Users,        \* account ids (never given out twice)
          Spellings,    \* e-mail addresses as they are written
          Lower,        \* strings.ToLower and SQL's LOWER
          Subjects,     \* the subjects of Google
          Domains,      \* hosted domains
          HostedDomain, \* the one that is configured, or Nil
          Requests,     \* bound: requests that may run at the same time
          Customers,    \* Stripe's customer ids
          Cards,        \* Stripe's payment methods
          Nil           \* SQL NULL, an empty string, no row

Account == [email : Spellings, subject : Subjects \cup {Nil},
            customer : Customers \cup {Nil}, live : BOOLEAN]

LoginState == [at : {"email", "link", "create"}, subject : Subjects,
               email : Spellings, user : Users \cup {Nil},
               early : SUBSET Users]

Uses == {"setup", "cards"}
CallState == [at : {"customer", "save", "use"}, for : Uses, user : Users,
              customer : Customers \cup {Nil}, first : BOOLEAN]

ASSUME AccountsAssumption ==
  /\ Lower \in [Spellings -> Spellings]
  /\ \A e \in Spellings : Lower[Lower[e]] = Lower[e]
  /\ HostedDomain \in Domains \cup {Nil}
  /\ Nil \notin Spellings \cup Subjects \cup Domains \cup Users
  /\ Nil \notin Customers
  /\ Nil \notin Account \cup LoginState \cup CallState

VARIABLES account,  \* the table users; Nil: no row
          login,    \* the logins under way
          call,     \* the requests about cards under way
          owner,    \* Stripe: the account a customer was created for
          intents,  \* Stripe: customers with a setup intent
          attached, \* Stripe: the customer of a card
          granted,  \* history: <<s, u>>: s was answered with a token of u
          raced,    \* history: accounts two overlapping logins have linked
          doubled   \* history: accounts two overlapping calls gave customers
identity == <<login, granted, raced>>
stripe   == <<call, owner, intents, attached, doubled>>
vars     == <<account, identity, stripe>>

IsIdle(r) == login[r] = Nil /\ call[r] = Nil

Init ==
  /\ account = [u \in Users |-> Nil]
  /\ login = [r \in Requests |-> Nil] /\ call = [q \in Requests |-> Nil]
  /\ owner = [k \in Customers |-> Nil] /\ intents = {}
  /\ attached = [m \in Cards |-> Nil]
  /\ granted = {} /\ raced = {} /\ doubled = {}
-----------------------------------------------------------------------------
(* The table: every query leaves out deleted rows, and so do the two       *)
(* unique indexes.                                                         *)

IsLive(u) == account[u] # Nil /\ account[u].live

ByOAuth(s) == {u \in Users : IsLive(u) /\ account[u].subject = s}
ByEmail(e) == {u \in Users : IsLive(u) /\ Lower[account[u].email] = Lower[e]}

\* INSERT INTO users, unless one of the unique indexes refuses it.
Insert(u, e, s) ==
  /\ account[u] = Nil
  /\ ByEmail(e) = {}
  /\ s # Nil => ByOAuth(s) = {}
  /\ account' = [account EXCEPT ![u] =
       [email |-> e, subject |-> s, customer |-> Nil, live |-> TRUE]]

\* auth.Register; a taken e-mail is a conflict.
Register(u, e) == /\ Insert(u, Lower[e], Nil)
                  /\ UNCHANGED identity /\ UNCHANGED stripe

\* DeleteUser: the row stays, out of every query's sight.
SoftDelete(u) ==
  /\ IsLive(u)
  /\ account' = [account EXCEPT ![u].live = FALSE]
  /\ UNCHANGED identity /\ UNCHANGED stripe
-----------------------------------------------------------------------------
(* A login with Google.                                                    *)

Claims == [subject : Subjects \cup {Nil}, email : Spellings \cup {Nil},
           verified : BOOLEAN, domain : Domains \cup {Nil}]

Accepted(claims) ==
  /\ HostedDomain # Nil => claims.domain = HostedDomain
  /\ claims.verified
  /\ claims.subject # Nil /\ claims.email # Nil

\* The request ends, and answers with a token or with an error.
Answer(r, token) == /\ login' = [login EXCEPT ![r] = Nil]
                    /\ granted' = granted \cup token

\* GetByOAuth.  early: the accounts without an identity at this moment.
LookUpSubject(r) ==
  /\ IsIdle(r)
  /\ \E claims \in Claims :
       /\ Accepted(claims)
       /\ \/ \E u \in ByOAuth(claims.subject) :
               Answer(r, {<<claims.subject, u>>})
          \/ /\ ByOAuth(claims.subject) = {}
             /\ login' = [login EXCEPT ![r] =
                  [at |-> "email", subject |-> claims.subject,
                   email |-> Lower[claims.email], user |-> Nil,
                   early |-> {u \in Users : ~IsLive(u)
                                            \/ account[u].subject = Nil}]]
             /\ UNCHANGED granted
  /\ UNCHANGED <<account, raced>> /\ UNCHANGED stripe

Goes(r, at, u) == /\ login' = [login EXCEPT ![r].at = at, ![r].user = u]
                  /\ UNCHANGED granted

\* Mutant: an account that is bound to another identity is let in.
LookUpEmail_NoRefusal(r) ==
  /\ login[r] # Nil
  /\ login[r].at = "email"
  /\ LET found == ByEmail(login[r].email) IN
     \/ found = {} /\ Goes(r, "create", Nil)
     \/ \E u \in found :
          \/ account[u].subject = Nil /\ Goes(r, "link", u)
          \/ account[u].subject # Nil /\ Answer(r, {<<login[r].subject, u>>})
  /\ UNCHANGED <<account, raced>> /\ UNCHANGED stripe

\* GetByEmail: an account without an identity will be linked, one that is
\* bound to this identity is let in, one bound to another is refused.
LookUpEmail(r) ==
  /\ login[r] # Nil
  /\ login[r].at = "email"
  /\ LET found == ByEmail(login[r].email) IN
     \/ found = {} /\ Goes(r, "create", Nil)
     \/ \E u \in found :
          \/ account[u].subject = Nil /\ Goes(r, "link", u)
          \/ /\ account[u].subject = login[r].subject
             /\ Answer(r, {<<login[r].subject, u>>})
          \/ /\ account[u].subject \notin {Nil, login[r].subject}
             /\ Answer(r, {})
  /\ UNCHANGED <<account, raced>> /\ UNCHANGED stripe

\* LinkOAuth: the UPDATE looks at the id and at the unique index, not at
\* the identity the row has by now.  The answer may be lost after it.
Link(r) ==
  /\ login[r] # Nil
  /\ login[r].at = "link"
  /\ LET u == login[r].user
         s == login[r].subject
     IN \/ /\ IsLive(u)
           /\ ByOAuth(s) \subseteq {u}
           /\ account' = [account EXCEPT ![u].subject = s]
           /\ raced' = IF /\ account[u].subject \notin {Nil, s}
                          /\ u \in login[r].early
                       THEN raced \cup {u} ELSE raced
           /\ \E token \in {{}, {<<s, u>>}} : Answer(r, token)
        \/ /\ ~IsLive(u) \/ ~(ByOAuth(s) \subseteq {u})
           /\ Answer(r, {}) /\ UNCHANGED <<account, raced>>
  /\ UNCHANGED stripe

\* Create: a taken e-mail or subject is a conflict.
Create(r) ==
  /\ login[r] # Nil
  /\ login[r].at = "create"
  /\ LET s == login[r].subject IN
     \/ \E u \in Users : /\ Insert(u, login[r].email, s)
                         /\ \E token \in {{}, {<<s, u>>}} : Answer(r, token)
     \/ /\ ByEmail(login[r].email) \cup ByOAuth(s) # {}
        /\ Answer(r, {}) /\ UNCHANGED account
  /\ UNCHANGED raced /\ UNCHANGED stripe

\* The database does not answer.
LoginFails(r) == /\ login[r] # Nil
                 /\ Answer(r, {})
                 /\ UNCHANGED <<account, raced>> /\ UNCHANGED stripe
-----------------------------------------------------------------------------
(* Stripe's customer of an account, and its cards.                         *)

\* What ListPaymentMethods and UserHasPaymentMethod see of an account.
CardsOf(u) == {m \in Cards : /\ account[u].customer # Nil
                             /\ attached[m] = account[u].customer}

Moves(q, at, k) ==
  call' = [call EXCEPT ![q].at = at, ![q].customer = k]

\* Mutant: the stored customer is not looked at.
EnsureReads_Always(q, u, use) ==
  /\ IsIdle(q)
  /\ IsLive(u)
  /\ call' = [call EXCEPT ![q] =
       [at |-> "customer", for |-> use, user |-> u, customer |-> Nil,
        first |-> account[u].customer = Nil]]
  /\ UNCHANGED <<owner, intents, attached, doubled>>
  /\ UNCHANGED account /\ UNCHANGED identity

\* EnsureCustomer, GetByID.
EnsureReads(q, u, use) ==
  /\ IsIdle(q)
  /\ IsLive(u)
  /\ call' = [call EXCEPT ![q] =
       [at |-> IF account[u].customer = Nil THEN "customer" ELSE "use",
        for |-> use, user |-> u, customer |-> account[u].customer,
        first |-> account[u].customer = Nil]]
  /\ UNCHANGED <<owner, intents, attached, doubled>>
  /\ UNCHANGED account /\ UNCHANGED identity

\* ... stripe.CreateCustomer
CreateCustomer(q) ==
  /\ call[q] # Nil
  /\ call[q].at = "customer"
  /\ \E k \in Customers : /\ owner[k] = Nil
                          /\ owner' = [owner EXCEPT ![k] = call[q].user]
                          /\ Moves(q, "save", k)
  /\ UNCHANGED <<intents, attached, doubled>>
  /\ UNCHANGED account /\ UNCHANGED identity

\* ... SetStripeCustomerID: whatever the row holds by now is overwritten.
SetStripeCustomerID(q) ==
  /\ call[q] # Nil
  /\ call[q].at = "save"
  /\ LET u == call[q].user IN
     /\ IsLive(u)
     /\ account' = [account EXCEPT ![u].customer = call[q].customer]
     /\ doubled' = IF account[u].customer # Nil /\ call[q].first
                   THEN doubled \cup {u} ELSE doubled
  /\ Moves(q, "use", call[q].customer)
  /\ UNCHANGED <<owner, intents, attached>> /\ UNCHANGED identity

Ends(q) == call' = [call EXCEPT ![q] = Nil]

CreateSetupIntent(q) ==
  /\ call[q] # Nil
  /\ call[q].at = "use" /\ call[q].for = "setup"
  /\ intents' = intents \cup {call[q].customer}
  /\ Ends(q)
  /\ UNCHANGED <<owner, attached, doubled>>
  /\ UNCHANGED account /\ UNCHANGED identity

\* The listing of DetachPaymentMethod and its detaching are one step here:
\* Stripe never attaches a card to a second customer.
DetachPaymentMethod(q) ==
  /\ call[q] # Nil
  /\ call[q].at = "use" /\ call[q].for = "cards"
  /\ \E m \in Cards : /\ attached[m] = call[q].customer
                      /\ attached' = [attached EXCEPT ![m] = Nil]
  /\ Ends(q)
  /\ UNCHANGED <<owner, intents, doubled>>
  /\ UNCHANGED account /\ UNCHANGED identity

\* A list has been read, a card was not the caller's, the row is gone, or
\* Stripe or the database does not answer.
CallEnds(q) ==
  /\ call[q] # Nil
  /\ Ends(q)
  /\ UNCHANGED <<owner, intents, attached, doubled>>
  /\ UNCHANGED account /\ UNCHANGED identity

\* The browser confirms a setup intent with Stripe.
CardAttached(m, k) ==
  /\ k \in intents
  /\ attached[m] = Nil
  /\ attached' = [attached EXCEPT ![m] = k]
  /\ UNCHANGED <<call, owner, intents, doubled>>
  /\ UNCHANGED account /\ UNCHANGED identity

Next ==
  \/ \E u \in Users : SoftDelete(u) \/ \E e \in Spellings : Register(u, e)
  \/ \E r \in Requests : \/ LookUpSubject(r) \/ LookUpEmail(r)
                         \/ Link(r) \/ Create(r) \/ LoginFails(r)
  \/ \E q \in Requests :
       \/ \E u \in Users, use \in Uses : EnsureReads(q, u, use)
       \/ CreateCustomer(q) \/ SetStripeCustomerID(q)
       \/ CreateSetupIntent(q) \/ DetachPaymentMethod(q) \/ CallEnds(q)
  \/ \E m \in Cards, k \in Customers : CardAttached(m, k)

Spec == Init /\ [][Next]_vars
-----------------------------------------------------------------------------
(* Properties.                                                             *)

TypeOK ==
  /\ account \in [Users -> Account \cup {Nil}]
  /\ login \in [Requests -> LoginState \cup {Nil}]
  /\ call \in [Requests -> CallState \cup {Nil}]
  /\ owner \in [Customers -> Users \cup {Nil}]
  /\ intents \subseteq Customers
  /\ attached \in [Cards -> Customers \cup {Nil}]
  /\ granted \subseteq Subjects \X Users
  /\ raced \subseteq Users /\ doubled \subseteq Users

\* VerifyAndLogin refuses to re-bind an account silently: as long as no two
\* logins that overlap have linked an account for the first time, every
\* token of that account was given to the same Google identity, and no
\* identity was given tokens of two accounts that are not deleted.
IdentityKept ==
  \A g, h \in granted :
    {g[2], h[2]} \cap raced = {}
    => /\ g[2] = h[2] => g[1] = h[1]
       /\ g[1] = h[1] /\ IsLive(g[2]) /\ IsLive(h[2]) => g[2] = h[2]

\* EnsureCustomer: an account sees, detaches and rides with exactly the
\* cards that were set up for it, except that two first requests that
\* overlap can leave it a customer, and cards, it no longer knows of.
CardsReachable ==
  \A u \in Users :
    IsLive(u) =>
      LET own == {m \in Cards : attached[m] # Nil /\ owner[attached[m]] = u}
      IN /\ CardsOf(u) \subseteq own
         /\ own \subseteq CardsOf(u) \/ u \in doubled
=============================================================================
