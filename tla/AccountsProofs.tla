--------------------------- MODULE AccountsProofs ---------------------------
(***************************************************************************)
(* Identities and cards of Accounts stay with their account, for any       *)
(* number of accounts, identities, concurrent requests, customers and      *)
(* cards.  The two halves only share the table: a step of one is a frame   *)
(* for the invariant of the other.                                         *)
(***************************************************************************)
EXTENDS Accounts, TLAPS

-----------------------------------------------------------------------------
(* The inductive invariant.                                                *)

\* The unique index on the identity.
SubjectsUnique ==
  \A u, v \in Users :
    /\ IsLive(u) /\ IsLive(v)
    /\ account[u].subject = account[v].subject /\ account[u].subject # Nil
    => u = v

\* A token went to the identity the account still has, unless it was raced.
GrantsSound ==
  \A g \in granted :
    /\ account[g[2]] # Nil
    /\ g[2] \notin raced => account[g[2]].subject = g[1]

\* What was bound when a login began stays bound, so that what it is about
\* to link was not.
LoginsSound ==
  \A r \in Requests :
    login[r] # Nil =>
      /\ \A u \in Users \ login[r].early :
           account[u] # Nil /\ account[u].subject # Nil
      /\ login[r].at = "link" =>
           /\ login[r].user \in login[r].early
           /\ account[login[r].user] # Nil

\* A customer its account knows of, or may have lost to another.
Known(k) == /\ owner[k] \in Users
            /\ account[owner[k]] # Nil
            /\ account[owner[k]].customer = k \/ owner[k] \in doubled

CustomersSound ==
  /\ \A u \in Users :
       account[u] # Nil /\ account[u].customer # Nil
       => owner[account[u].customer] = u
  /\ \A k \in intents : Known(k)
  /\ \A m \in Cards : attached[m] # Nil => attached[m] \in intents

\* A call that is about to save a customer has seen that there was none.
CallSound(c) ==
  /\ account[c.user] # Nil
  /\ c.at = "customer" => c.first
  /\ c.at = "save" => /\ c.first /\ c.customer # Nil
                      /\ owner[c.customer] = c.user
  /\ c.at = "use" => /\ c.customer # Nil
                     /\ owner[c.customer] = c.user
                     /\ Known(c.customer)

CallsSound == \A q \in Requests : call[q] # Nil => CallSound(call[q])

IdentitySound == SubjectsUnique /\ GrantsSound /\ LoginsSound
CardsSound == CustomersSound /\ CallsSound
IInv == TypeOK /\ IdentitySound /\ CardsSound

LEMMA NilFacts ==
  /\ Nil \notin Users /\ Nil \notin Subjects /\ Nil \notin Customers
  /\ Nil \notin Account /\ Nil \notin LoginState /\ Nil \notin CallState
BY AccountsAssumption

\* Rows and requests keep their type under the updates the actions make.
LEMMA RowUpdates ==
  ASSUME NEW row \in Account
  PROVE  /\ [row EXCEPT !.live = FALSE] \in Account
         /\ \A s \in Subjects : [row EXCEPT !.subject = s] \in Account
         /\ \A k \in Customers : [row EXCEPT !.customer = k] \in Account
BY DEF Account

LEMMA RequestUpdates ==
  /\ \A state \in LoginState, at \in {"email", "link", "create"},
        u \in Users \cup {Nil} :
       [state EXCEPT !.at = at, !.user = u] \in LoginState
  /\ \A state \in CallState, at \in {"customer", "save", "use"},
        k \in Customers \cup {Nil} :
       [state EXCEPT !.at = at, !.customer = k] \in CallState
BY DEF LoginState, CallState

-----------------------------------------------------------------------------
(* The frames.                                                             *)

\* No identity comes, goes or changes hands.
KeepsSubjects ==
  \A u \in Users :
    /\ account[u] # Nil =>
         /\ account'[u] # Nil /\ account'[u].subject = account[u].subject
         /\ account'[u].live => account[u].live
    /\ account[u] = Nil /\ account'[u] # Nil => account'[u].subject = Nil

LEMMA IdentityFrame ==
  ASSUME TypeOK, IdentitySound, KeepsSubjects, UNCHANGED identity
  PROVE  IdentitySound'
<1>1. UNCHANGED <<login, granted, raced>>
  BY DEF identity
<1>2. SubjectsUnique'
  BY DEF IdentitySound, SubjectsUnique, IsLive, KeepsSubjects
<1>3. GrantsSound'
  BY <1>1 DEF IdentitySound, GrantsSound, KeepsSubjects, TypeOK
<1>4. LoginsSound'
  <2> SUFFICES ASSUME NEW r \in Requests, login[r] # Nil
               PROVE  /\ \A u \in Users \ login[r].early :
                           account'[u] # Nil /\ account'[u].subject # Nil
                      /\ login[r].at = "link" =>
                           /\ login[r].user \in login[r].early
                           /\ account'[login[r].user] # Nil
    BY <1>1 DEF LoginsSound
  <2>1. login[r].early \subseteq Users
    BY NilFacts DEF TypeOK, LoginState
  <2> QED BY <2>1 DEF IdentitySound, LoginsSound, KeepsSubjects
<1> QED BY <1>2, <1>3, <1>4 DEF IdentitySound

\* No account gets, loses or changes its customer.
KeepsCustomers ==
  \A u \in Users :
    /\ account[u] # Nil =>
         account'[u] # Nil /\ account'[u].customer = account[u].customer
    /\ account[u] = Nil /\ account'[u] # Nil => account'[u].customer = Nil

LEMMA CardsFrame ==
  ASSUME TypeOK, CardsSound, KeepsCustomers, UNCHANGED stripe
  PROVE  CardsSound'
<1>1. UNCHANGED <<call, owner, intents, attached, doubled>>
  BY DEF stripe
<1>2. ASSUME NEW k, Known(k)
      PROVE  Known(k)'
  BY <1>1, <1>2 DEF Known, KeepsCustomers
<1>3. CustomersSound'
  BY <1>1, <1>2 DEF CardsSound, CustomersSound, KeepsCustomers
<1>4. CallsSound'
  <2> SUFFICES ASSUME NEW q \in Requests, call[q] # Nil
               PROVE  CallSound(call[q])'
    BY <1>1 DEF CallsSound
  <2> DEFINE c == call[q]
  <2>1. c.user \in Users /\ CallSound(c) /\ c' = c
    BY <1>1, NilFacts DEF TypeOK, CallState, CardsSound, CallsSound
  <2> HIDE DEF c
  <2>2. c.at = "use" => Known(c.customer)'
    BY <1>2, <2>1 DEF CallSound
  <2>3. CallSound(c)'
    BY <1>1, <2>1, <2>2 DEF CallSound, KeepsCustomers, Known
  <2> QED BY <2>3 DEF c
<1> QED BY <1>3, <1>4 DEF CardsSound

-----------------------------------------------------------------------------
(* Types.                                                                  *)

LEMMA InsertKeeps ==
  ASSUME TypeOK, NEW u \in Users, NEW e \in Spellings,
         NEW s \in Subjects \cup {Nil}, Insert(u, e, s)
  PROVE  /\ account' \in [Users -> Account \cup {Nil}]
         /\ KeepsCustomers
         /\ account[u] = Nil /\ account'[u] # Nil /\ account'[u].subject = s
         /\ \A v \in Users : v # u => account'[v] = account[v]
<1> DEFINE row == [email |-> e, subject |-> s, customer |-> Nil, live |-> TRUE]
<1>1. row \in Account /\ row.customer = Nil /\ row.subject = s
  BY DEF Account
<1>2. account[u] = Nil /\ account' = [account EXCEPT ![u] = row]
  BY DEF Insert
<1> HIDE DEF row
<1>3. /\ account'[u] = row
      /\ \A v \in Users : v # u => account'[v] = account[v]
  BY <1>2 DEF TypeOK
<1>4. row # Nil
  BY <1>1, NilFacts
<1> QED BY <1>1, <1>2, <1>3, <1>4 DEF TypeOK, KeepsCustomers

LEMMA AnswerKeepsType ==
  ASSUME TypeOK, NEW r \in Requests, NEW token,
         token \subseteq Subjects \X Users, Answer(r, token)
  PROVE  /\ login' \in [Requests -> LoginState \cup {Nil}]
         /\ granted' \subseteq Subjects \X Users
BY DEF Answer, TypeOK
-----------------------------------------------------------------------------
(* The steps, one lemma each.                                              *)

LEMMA RegisterKeeps ==
  ASSUME IInv, NEW u \in Users, NEW e \in Spellings, Register(u, e)
  PROVE  IInv'
<1>1. Lower[e] \in Spellings
  BY AccountsAssumption
<1>2. Insert(u, Lower[e], Nil) /\ UNCHANGED identity /\ UNCHANGED stripe
  BY DEF Register
<1>3. TypeOK
  BY DEF IInv
<1>4. /\ account' \in [Users -> Account \cup {Nil}] /\ KeepsCustomers
      /\ account[u] = Nil /\ account'[u] # Nil /\ account'[u].subject = Nil
      /\ \A v \in Users : v # u => account'[v] = account[v]
  BY <1>1, <1>2, <1>3, InsertKeeps
<1>5. KeepsSubjects
  BY <1>4 DEF KeepsSubjects
<1>6. TypeOK'
  BY <1>2, <1>3, <1>4 DEF TypeOK, identity, stripe
<1> QED BY <1>2, <1>4, <1>5, <1>6, IdentityFrame, CardsFrame DEF IInv

LEMMA SoftDeleteKeeps ==
  ASSUME IInv, NEW u \in Users, SoftDelete(u)
  PROVE  IInv'
<1> DEFINE row == [account[u] EXCEPT !.live = FALSE]
<1>1. /\ account[u] # Nil /\ UNCHANGED identity /\ UNCHANGED stripe
      /\ account' = [account EXCEPT ![u] = row]
  BY DEF SoftDelete, IsLive
<1>2. TypeOK /\ account[u] \in Account
  BY <1>1 DEF IInv, TypeOK
<1>3. /\ row \in Account /\ row.subject = account[u].subject
      /\ row.customer = account[u].customer /\ row.live = FALSE
  BY <1>2 DEF Account
<1> HIDE DEF row
<1>4. row # Nil
  BY <1>3, NilFacts
<1>5. account'[u] = row /\ \A v \in Users : v # u => account'[v] = account[v]
  BY <1>1, <1>2 DEF TypeOK
<1>6. KeepsSubjects /\ KeepsCustomers
  BY <1>1, <1>3, <1>4, <1>5 DEF KeepsSubjects, KeepsCustomers
<1>7. TypeOK'
  BY <1>1, <1>2, <1>3 DEF TypeOK, identity, stripe
<1> QED BY <1>1, <1>2, <1>6, <1>7, IdentityFrame, CardsFrame DEF IInv

\* A login that only reads: it answers with the identity of a row it has
\* just read, or goes on with what it has found.
LEMMA LookUpSubjectKeeps ==
  ASSUME IInv, NEW r \in Requests, LookUpSubject(r)
  PROVE  IInv'
<1>1. TypeOK /\ IdentitySound /\ CardsSound
  BY DEF IInv
<1>2. PICK claims \in Claims :
        /\ Accepted(claims)
        /\ \/ \E u \in ByOAuth(claims.subject) :
                Answer(r, {<<claims.subject, u>>})
           \/ /\ login' = [login EXCEPT ![r] =
                   [at |-> "email", subject |-> claims.subject,
                    email |-> Lower[claims.email], user |-> Nil,
                    early |-> {u \in Users : ~IsLive(u)
                                             \/ account[u].subject = Nil}]]
              /\ granted' = granted
  BY DEF LookUpSubject
<1>3. UNCHANGED <<account, raced, call, owner, intents, attached, doubled>>
  BY DEF LookUpSubject, stripe
<1>4. claims.subject \in Subjects /\ claims.email \in Spellings
  BY <1>2 DEF Claims, Accepted
<1>5. KeepsCustomers
  BY <1>3 DEF KeepsCustomers
<1>6. CardsSound'
  BY <1>1, <1>3, <1>5, CardsFrame DEF stripe
<1>7. SubjectsUnique'
  BY <1>1, <1>3 DEF IdentitySound, SubjectsUnique, IsLive
<1>8. ASSUME NEW u \in ByOAuth(claims.subject),
             Answer(r, {<<claims.subject, u>>})
      PROVE  TypeOK' /\ GrantsSound' /\ LoginsSound'
  <2>1. u \in Users /\ account[u] # Nil /\ account[u].subject = claims.subject
    BY <1>8 DEF ByOAuth, IsLive
  <2>2. /\ granted' = granted \cup {<<claims.subject, u>>}
        /\ login' = [login EXCEPT ![r] = Nil]
    BY <1>8 DEF Answer
  <2>3. TypeOK'
    BY <1>1, <1>3, <1>4, <2>1, <2>2 DEF TypeOK
  <2>4. GrantsSound'
    BY <1>1, <1>3, <2>1, <2>2 DEF IdentitySound, GrantsSound
  <2>5. LoginsSound'
    BY <1>1, <1>3, <2>2 DEF IdentitySound, LoginsSound, TypeOK
  <2> QED BY <2>3, <2>4, <2>5
<1> DEFINE unbound == {u \in Users : ~IsLive(u) \/ account[u].subject = Nil}
           state == [at |-> "email", subject |-> claims.subject,
                     email |-> Lower[claims.email], user |-> Nil,
                     early |-> unbound]
<1>9. ASSUME login' = [login EXCEPT ![r] = state], granted' = granted
      PROVE  TypeOK' /\ GrantsSound' /\ LoginsSound'
  <2>1. Lower[claims.email] \in Spellings /\ unbound \subseteq Users
    BY <1>4, AccountsAssumption
  <2>2. \A u \in Users \ unbound : account[u] # Nil /\ account[u].subject # Nil
    BY DEF IsLive
  <2> HIDE DEF unbound
  <2>3. state \in LoginState /\ state.at = "email" /\ state.early = unbound
    BY <1>4, <2>1 DEF LoginState
  <2> HIDE DEF state
  <2>4. TypeOK'
    BY <1>1, <1>3, <1>9, <2>3 DEF TypeOK
  <2>5. GrantsSound'
    BY <1>1, <1>3, <1>9 DEF IdentitySound, GrantsSound
  <2>6. LoginsSound'
    <3>1. login'[r] = state /\ \A p \in Requests : p # r => login'[p] = login[p]
      BY <1>1, <1>9 DEF TypeOK
    <3> QED BY <1>1, <1>3, <2>2, <2>3, <3>1 DEF IdentitySound, LoginsSound
  <2> QED BY <2>4, <2>5, <2>6
<1> QED BY <1>2, <1>6, <1>7, <1>8, <1>9 DEF IInv, IdentitySound

\* What the other steps of a login share: the request goes on or ends.
LEMMA LoginSteps ==
  ASSUME IInv, NEW r \in Requests, login[r] # Nil,
         account' = account, raced' = raced, UNCHANGED stripe,
         \/ \E at \in {"email", "create"} : Goes(r, at, Nil)
         \/ \E u \in login[r].early \cap Users :
               account[u] # Nil /\ Goes(r, "link", u)
         \/ Answer(r, {})
         \/ \E u \in Users : /\ account[u] # Nil
                             /\ account[u].subject = login[r].subject
                             /\ Answer(r, {<<login[r].subject, u>>})
  PROVE  IInv'
<1>1. TypeOK /\ IdentitySound /\ CardsSound /\ login[r] \in LoginState
  BY DEF IInv, TypeOK
<1>2. UNCHANGED <<call, owner, intents, attached, doubled>>
  BY DEF stripe
<1>3. KeepsCustomers
  BY DEF KeepsCustomers
<1>4. CardsSound'
  BY <1>1, <1>3, CardsFrame
<1>5. SubjectsUnique'
  BY <1>1 DEF IdentitySound, SubjectsUnique, IsLive
<1>6. ASSUME NEW at \in {"email", "link", "create"}, NEW u \in Users \cup {Nil},
             at = "link" => /\ u \in login[r].early \cap Users
                            /\ account[u] # Nil,
             Goes(r, at, u)
      PROVE  TypeOK' /\ GrantsSound' /\ LoginsSound'
  <2> DEFINE state == [login[r] EXCEPT !.at = at, !.user = u]
  <2>1. /\ state \in LoginState /\ state.at = at /\ state.user = u
        /\ state.early = login[r].early
    BY <1>1, RequestUpdates DEF LoginState
  <2>2. granted' = granted /\ login' = [login EXCEPT ![r] = state]
    BY <1>1, <1>6 DEF Goes, LoginState, TypeOK
  <2> HIDE DEF state
  <2>3. TypeOK'
    BY <1>1, <1>2, <2>1, <2>2 DEF TypeOK
  <2>4. GrantsSound'
    BY <1>1, <2>2 DEF IdentitySound, GrantsSound
  <2>5. login'[r] = state /\ \A p \in Requests : p # r => login'[p] = login[p]
    BY <1>1, <2>2 DEF TypeOK
  <2>6. LoginsSound'
    BY <1>1, <1>6, <2>1, <2>5 DEF IdentitySound, LoginsSound
  <2> QED BY <2>3, <2>4, <2>6
<1>7. ASSUME NEW token, token \subseteq Subjects \X Users, Answer(r, token),
             \A g \in token : /\ account[g[2]] # Nil
                              /\ account[g[2]].subject = g[1]
      PROVE  TypeOK' /\ GrantsSound' /\ LoginsSound'
  <2>1. granted' = granted \cup token /\ login' = [login EXCEPT ![r] = Nil]
    BY <1>7 DEF Answer
  <2>2. TypeOK'
    BY <1>1, <1>2, <1>7, AnswerKeepsType DEF TypeOK
  <2>3. GrantsSound'
    BY <1>1, <1>7, <2>1 DEF IdentitySound, GrantsSound
  <2>4. LoginsSound'
    BY <1>1, <2>1 DEF IdentitySound, LoginsSound, TypeOK
  <2> QED BY <2>2, <2>3, <2>4
<1>8. login[r].subject \in Subjects
  BY <1>1 DEF LoginState
<1>9. ASSUME NEW u \in Users, account[u] # Nil,
             account[u].subject = login[r].subject,
             Answer(r, {<<login[r].subject, u>>})
      PROVE  TypeOK' /\ GrantsSound' /\ LoginsSound'
  <2>1. {<<login[r].subject, u>>} \subseteq Subjects \X Users
    BY <1>8
  <2> QED BY <1>7, <1>9, <2>1
<1>10. TypeOK' /\ GrantsSound' /\ LoginsSound'
  <2>1. ASSUME NEW at \in {"email", "create"}, Goes(r, at, Nil)
        PROVE  TypeOK' /\ GrantsSound' /\ LoginsSound'
    <3>1. Nil \in Users \cup {Nil} /\ at # "link"
      OBVIOUS
    <3> QED BY <1>6, <2>1, <3>1
  <2>2. ASSUME NEW u \in login[r].early \cap Users, account[u] # Nil,
               Goes(r, "link", u)
        PROVE  TypeOK' /\ GrantsSound' /\ LoginsSound'
    BY <1>6, <2>2
  <2>3. ASSUME Answer(r, {})
        PROVE  TypeOK' /\ GrantsSound' /\ LoginsSound'
    <3> DEFINE none == {}
    <3>1. /\ none \subseteq Subjects \X Users /\ Answer(r, none)
          /\ \A g \in none : /\ account[g[2]] # Nil
                             /\ account[g[2]].subject = g[1]
      BY <2>3
    <3> HIDE DEF none
    <3> QED BY <1>7, <3>1
  <2> QED BY <1>9, <2>1, <2>2, <2>3
<1> QED BY <1>4, <1>5, <1>10 DEF IInv, IdentitySound

LEMMA LookUpEmailKeeps ==
  ASSUME IInv, NEW r \in Requests, LookUpEmail(r)
  PROVE  IInv'
<1>1. login[r] # Nil /\ account' = account /\ raced' = raced /\ UNCHANGED stripe
  BY DEF LookUpEmail
<1>2. ByEmail(login[r].email) \subseteq {u \in Users : account[u] # Nil}
  BY DEF ByEmail, IsLive
<1>3. \A u \in Users : account[u] # Nil /\ account[u].subject = Nil
                       => u \in login[r].early
  BY <1>1 DEF IInv, IdentitySound, LoginsSound
<1>4. \/ \E at \in {"email", "create"} : Goes(r, at, Nil)
      \/ \E u \in login[r].early \cap Users :
            account[u] # Nil /\ Goes(r, "link", u)
      \/ Answer(r, {})
      \/ \E u \in Users : /\ account[u] # Nil
                          /\ account[u].subject = login[r].subject
                          /\ Answer(r, {<<login[r].subject, u>>})
  BY <1>2, <1>3 DEF LookUpEmail
<1> QED BY <1>1, <1>4, LoginSteps

LEMMA LoginFailsKeeps ==
  ASSUME IInv, NEW r \in Requests, LoginFails(r)
  PROVE  IInv'
BY LoginSteps DEF LoginFails
\* A new account is no one else's: no token of it has been given, and no
\* request has come across it as bound.
LEMMA CreateKeeps ==
  ASSUME IInv, NEW r \in Requests, Create(r)
  PROVE  IInv'
<1> DEFINE s == login[r].subject
<1>1. /\ TypeOK /\ IdentitySound /\ CardsSound
      /\ login[r] \in LoginState /\ s \in Subjects
      /\ login[r].email \in Spellings /\ login[r] # Nil
  BY DEF IInv, TypeOK, Create, LoginState
<1>2. UNCHANGED <<raced, call, owner, intents, attached, doubled>>
      /\ UNCHANGED stripe
  BY DEF Create, stripe
<1> HIDE DEF s
<1>3. CASE account' = account /\ Answer(r, {})
  BY <1>1, <1>2, <1>3, LoginSteps
<1>4. ASSUME NEW u \in Users, Insert(u, login[r].email, s),
             NEW token \in {{}, {<<s, u>>}}, Answer(r, token)
      PROVE  IInv'
  <2>1. s \in Subjects \cup {Nil} /\ s # Nil
    BY <1>1, NilFacts
  <2>2. /\ account' \in [Users -> Account \cup {Nil}] /\ KeepsCustomers
        /\ account[u] = Nil /\ account'[u] # Nil /\ account'[u].subject = s
        /\ \A v \in Users : v # u => account'[v] = account[v]
    BY <1>1, <1>4, <2>1, InsertKeeps
  <2>3. \A v \in Users : IsLive(v) => account[v].subject # s
    BY <1>4, <2>1 DEF Insert, ByOAuth
  <2>4. /\ granted' = granted \cup token
        /\ login' = [login EXCEPT ![r] = Nil]
    BY <1>4 DEF Answer
  <2>5. TypeOK'
    BY <1>1, <1>2, <1>4, <2>2, <2>4 DEF TypeOK
  <2>6. SubjectsUnique'
    BY <1>1, <2>2, <2>3 DEF IdentitySound, SubjectsUnique, IsLive
  <2>7. GrantsSound'
    <3> SUFFICES ASSUME NEW g \in granted'
                 PROVE  /\ account'[g[2]] # Nil
                        /\ g[2] \notin raced => account'[g[2]].subject = g[1]
      BY <1>2 DEF GrantsSound
    <3>1. CASE g \in granted
      <4>1. /\ g[2] \in Users /\ account[g[2]] # Nil
            /\ g[2] \notin raced => account[g[2]].subject = g[1]
        BY <1>1, <3>1 DEF IdentitySound, GrantsSound, TypeOK
      <4> DEFINE v == g[2]
      <4>2. v \in Users /\ account[v] # Nil
        BY <4>1
      <4> HIDE DEF v
      <4>3. account'[v] = account[v]
        BY <2>2, <4>2
      <4> QED BY <4>1, <4>3 DEF v
    <3>2. CASE g = <<s, u>>
      BY <2>2, <3>2
    <3> QED BY <1>4, <2>4, <3>1, <3>2
  <2>8. LoginsSound'
    <3> SUFFICES ASSUME NEW p \in Requests, login'[p] # Nil
                 PROVE  /\ \A v \in Users \ login'[p].early :
                             account'[v] # Nil /\ account'[v].subject # Nil
                        /\ login'[p].at = "link" =>
                             /\ login'[p].user \in login'[p].early
                             /\ account'[login'[p].user] # Nil
      BY DEF LoginsSound
    <3>1. p # r /\ login'[p] = login[p]
      BY <1>1, <2>4 DEF TypeOK
    <3>2. /\ \A v \in Users \ login[p].early :
               account[v] # Nil /\ account[v].subject # Nil
          /\ login[p].at = "link" =>
               /\ login[p].user \in login[p].early
               /\ account[login[p].user] # Nil
          /\ login[p].early \subseteq Users
      BY <1>1, <3>1, NilFacts DEF IdentitySound, LoginsSound, TypeOK, LoginState
    <3>3. \A v \in Users : account[v] # Nil => account'[v] = account[v]
      BY <2>2
    <3> QED BY <3>1, <3>2, <3>3
  <2>9. CardsSound'
    BY <1>1, <1>2, <2>2, CardsFrame
  <2> QED BY <2>5, <2>6, <2>7, <2>8, <2>9 DEF IInv, IdentitySound
<1> QED BY <1>3, <1>4 DEF Create, s

\* The account a login links was unbound when the login began: if it is bound
\* to another identity by now, it counts as raced.
LEMMA LinkKeeps ==
  ASSUME IInv, NEW r \in Requests, Link(r)
  PROVE  IInv'
<1> DEFINE s == login[r].subject
           u == login[r].user
<1>1. /\ TypeOK /\ IdentitySound /\ CardsSound
      /\ login[r] \in LoginState /\ s \in Subjects /\ login[r] # Nil
      /\ u \in login[r].early /\ login[r].early \subseteq Users
  BY DEF IInv, TypeOK, Link, LoginState, IdentitySound, LoginsSound
<1>2. UNCHANGED <<call, owner, intents, attached, doubled>>
      /\ UNCHANGED stripe
  BY DEF Link, stripe
<1> HIDE DEF s, u
<1>3. CASE /\ account' = account /\ raced' = raced /\ Answer(r, {})
  BY <1>1, <1>2, <1>3, LoginSteps
<1>4. ASSUME IsLive(u), ByOAuth(s) \subseteq {u},
             account' = [account EXCEPT ![u].subject = s],
             raced' = IF /\ account[u].subject \notin {Nil, s}
                         /\ u \in login[r].early
                      THEN raced \cup {u} ELSE raced,
             NEW token \in {{}, {<<s, u>>}}, Answer(r, token)
      PROVE  IInv'
  <2> DEFINE row == [account[u] EXCEPT !.subject = s]
  <2>1. u \in Users /\ account[u] \in Account /\ account[u] # Nil /\ s # Nil
    BY <1>1, <1>4, NilFacts DEF IsLive, TypeOK
  <2>2. /\ row \in Account /\ row.subject = s /\ row.live = account[u].live
        /\ row.customer = account[u].customer
    BY <1>1, <2>1 DEF Account
  <2>3. account' = [account EXCEPT ![u] = row]
    BY <1>4
  <2> HIDE DEF row
  <2>4. /\ account'[u] = row /\ row # Nil
        /\ \A v \in Users : v # u => account'[v] = account[v]
    BY <1>1, <2>1, <2>2, <2>3, NilFacts DEF TypeOK
  <2>5. /\ granted' = granted \cup token
        /\ login' = [login EXCEPT ![r] = Nil]
    BY <1>4 DEF Answer
  <2>6. /\ raced \subseteq raced' /\ raced' \subseteq Users
        /\ u \notin raced' => account[u].subject \in {Nil, s}
    BY <1>1, <1>4, <2>1 DEF TypeOK
  <2>7. TypeOK'
    BY <1>1, <1>2, <1>4, <2>1, <2>2, <2>3, <2>5, <2>6 DEF TypeOK
  <2>8. \A v \in Users : IsLive(v) /\ v # u => account[v].subject # s
    BY <1>4 DEF ByOAuth
  <2>9. SubjectsUnique'
    BY <1>1, <2>1, <2>2, <2>4, <2>8 DEF IdentitySound, SubjectsUnique, IsLive
  <2>10. GrantsSound'
    <3> SUFFICES ASSUME NEW g \in granted'
                 PROVE  /\ account'[g[2]] # Nil
                        /\ g[2] \notin raced' => account'[g[2]].subject = g[1]
      BY DEF GrantsSound
    <3>1. CASE g \in granted
      <4>1. /\ g[2] \in Users /\ account[g[2]] # Nil /\ g[1] \in Subjects
            /\ g[2] \notin raced => account[g[2]].subject = g[1]
        BY <1>1, <3>1 DEF IdentitySound, GrantsSound, TypeOK
      <4> DEFINE v == g[2]
      <4>2. /\ v \in Users /\ account[v] # Nil /\ g[1] # Nil
            /\ v \notin raced => account[v].subject = g[1]
        BY <4>1, NilFacts
      <4> HIDE DEF v
      <4>3. ASSUME v = u
            PROVE  /\ account'[v] # Nil
                   /\ v \notin raced' => account'[v].subject = g[1]
        BY <2>2, <2>4, <2>6, <4>2, <4>3
      <4>4. ASSUME v # u
            PROVE  /\ account'[v] # Nil
                   /\ v \notin raced' => account'[v].subject = g[1]
        <5>1. account'[v] = account[v]
          BY <2>4, <4>2, <4>4
        <5> QED BY <2>6, <4>2, <5>1
      <4>5. /\ account'[v] # Nil
            /\ v \notin raced' => account'[v].subject = g[1]
        BY <4>3, <4>4
      <4> QED BY <4>5 DEF v
    <3>2. CASE g = <<s, u>>
      BY <2>2, <2>4, <3>2
    <3> QED BY <1>4, <2>5, <3>1, <3>2
  <2>11. LoginsSound'
    <3> SUFFICES ASSUME NEW p \in Requests, login'[p] # Nil
                 PROVE  /\ \A v \in Users \ login'[p].early :
                             account'[v] # Nil /\ account'[v].subject # Nil
                        /\ login'[p].at = "link" =>
                             /\ login'[p].user \in login'[p].early
                             /\ account'[login'[p].user] # Nil
      BY DEF LoginsSound
    <3>1. p # r /\ login'[p] = login[p]
      BY <1>1, <2>5 DEF TypeOK
    <3>2. /\ \A v \in Users \ login[p].early :
               account[v] # Nil /\ account[v].subject # Nil
          /\ login[p].at = "link" =>
               /\ login[p].user \in login[p].early
               /\ account[login[p].user] # Nil
          /\ login[p].early \subseteq Users
      BY <1>1, <3>1, NilFacts DEF IdentitySound, LoginsSound, TypeOK, LoginState
    <3>3. \A v \in Users : \/ account'[v] = account[v]
                           \/ account'[v] # Nil /\ account'[v].subject # Nil
      <4> TAKE v \in Users
      <4>1. CASE v = u
        <5>1. account'[v] # Nil /\ account'[v].subject = s
          BY <2>2, <2>4, <4>1
        <5> QED BY <2>1, <5>1
      <4>2. CASE v # u
        <5>1. account'[v] = account[v]
          BY <2>4, <4>2
        <5> QED BY <5>1
      <4> QED BY <4>1, <4>2
    <3> QED BY <3>1, <3>2, <3>3
  <2>12. KeepsCustomers
    BY <2>1, <2>2, <2>4 DEF KeepsCustomers
  <2>13. CardsSound'
    BY <1>1, <1>2, <2>12, CardsFrame
  <2> QED BY <2>7, <2>9, <2>10, <2>11, <2>13 DEF IInv, IdentitySound
<1> QED BY <1>3, <1>4 DEF Link, s, u
-----------------------------------------------------------------------------
(* Requests about cards.                                                   *)

\* What every step of a request about cards leaves alone, and what of the
\* cards it may change.
LEMMA CallSteps ==
  ASSUME IInv, NEW q \in Requests, UNCHANGED identity,
         account' = account, doubled' = doubled,
         owner' \in [Customers -> Users \cup {Nil}],
         \A k \in Customers : owner[k] # Nil => owner'[k] = owner[k],
         NEW new \in CallState \cup {Nil}, call' = [call EXCEPT ![q] = new],
         new # Nil =>
           /\ account[new.user] # Nil
           /\ new.at = "customer" => new.first
           /\ new.at = "save" => /\ new.first /\ new.customer # Nil
                                 /\ owner'[new.customer] = new.user
           /\ new.at = "use" => /\ new.customer # Nil
                                /\ owner[new.customer] = new.user
                                /\ Known(new.customer),
         intents' \subseteq Customers,
         \A k \in intents' \ intents : Known(k),
         intents \subseteq intents',
         attached' \in [Cards -> Customers \cup {Nil}],
         \A m \in Cards : attached'[m] # Nil => attached'[m] \in intents'
  PROVE  IInv'
<1>1. /\ TypeOK /\ IdentitySound /\ CardsSound
      /\ UNCHANGED <<login, granted, raced>>
  BY DEF IInv, identity
<1>2. TypeOK'
  BY <1>1 DEF TypeOK
<1>3. IdentitySound'
  <2>1. KeepsSubjects
    BY DEF KeepsSubjects
  <2> QED BY <1>1, <2>1, IdentityFrame
<1>4. ASSUME NEW k \in Customers, Known(k)
      PROVE  Known(k)' /\ owner'[k] = owner[k]
  BY <1>4, NilFacts DEF Known
<1>5. CustomersSound'
  <2>1. ASSUME NEW u \in Users, account[u] # Nil, account[u].customer # Nil
        PROVE  owner'[account[u].customer] = u
    <3>1. account[u].customer \in Customers /\ owner[account[u].customer] = u
      BY <1>1, <2>1 DEF TypeOK, Account, CardsSound, CustomersSound
    <3> QED BY <3>1, NilFacts
  <2>2. ASSUME NEW k \in intents'
        PROVE  Known(k)'
    BY <1>1, <1>4, <2>2 DEF CardsSound, CustomersSound
  <2> QED BY <2>1, <2>2 DEF CustomersSound
<1>6. CallsSound'
  <2> SUFFICES ASSUME NEW p \in Requests, call'[p] # Nil
               PROVE  CallSound(call[p])'
    BY DEF CallsSound
  <2>1. CASE p = q
    <3>1. call'[p] = new
      BY <1>1, <2>1 DEF TypeOK
    <3>2. new.at = "use" =>
            /\ new.customer \in Customers
            /\ Known(new.customer) /\ owner[new.customer] = new.user
      BY <2>1, <3>1 DEF CallState
    <3>3. new.at = "use" => /\ Known(new.customer)'
                            /\ owner'[new.customer] = new.user
      BY <1>4, <3>2
    <3>4. CallSound(new)'
      BY <2>1, <3>1, <3>2, <3>3 DEF CallSound
    <3> QED BY <3>1, <3>4 DEF CallSound, Known
  <2>2. CASE p # q
    <3> DEFINE c == call[p]
    <3>1. call'[p] = c /\ c \in CallState /\ CallSound(c)
      BY <1>1, <2>2 DEF TypeOK, CardsSound, CallsSound
    <3>2. c' = c
      BY <3>1
    <3> HIDE DEF c
    <3>3. c.user \in Users /\ c.customer \in Customers \cup {Nil}
      BY <3>1 DEF CallState
    <3>4. /\ c.at = "save" => owner'[c.customer] = c.user
          /\ c.at = "use" => /\ owner'[c.customer] = c.user
                             /\ Known(c.customer)'
      BY <1>4, <3>1, <3>2, <3>3, NilFacts DEF CallSound
    <3>5. CallSound(c)'
      BY <3>1, <3>2, <3>4 DEF CallSound
    <3> QED BY <3>5 DEF c
  <2> QED BY <2>1, <2>2
<1> QED BY <1>1, <1>2, <1>3, <1>5, <1>6 DEF IInv, CardsSound
LEMMA EnsureReadsKeeps ==
  ASSUME IInv, NEW q \in Requests, NEW u \in Users, NEW use \in Uses,
         EnsureReads(q, u, use)
  PROVE  IInv'
<1> DEFINE new == [at |-> IF account[u].customer = Nil THEN "customer" ELSE "use",
                   for |-> use, user |-> u, customer |-> account[u].customer,
                   first |-> account[u].customer = Nil]
<1>1. /\ TypeOK /\ CardsSound /\ account[u] # Nil /\ account[u] \in Account
      /\ UNCHANGED <<account, owner, intents, attached, doubled>>
      /\ UNCHANGED identity
  BY DEF IInv, TypeOK, EnsureReads, IsLive
<1>2. /\ new \in CallState /\ new.user = u
      /\ new.customer = account[u].customer
      /\ new.customer = Nil => new.at = "customer" /\ new.first
      /\ new.customer # Nil => new.at = "use"
  BY <1>1 DEF CallState, Account
<1>3. call' = [call EXCEPT ![q] = new]
  BY DEF EnsureReads
<1> HIDE DEF new
<1>4. new.customer # Nil => owner[new.customer] = u /\ Known(new.customer)
  BY <1>1, <1>2 DEF CardsSound, CustomersSound, Known
<1>5. /\ owner \in [Customers -> Users \cup {Nil}] /\ intents \subseteq Customers
      /\ attached \in [Cards -> Customers \cup {Nil}]
      /\ \A m \in Cards : attached[m] # Nil => attached[m] \in intents
  BY <1>1 DEF TypeOK, CardsSound, CustomersSound
<1> QED BY <1>1, <1>2, <1>3, <1>4, <1>5, CallSteps

LEMMA CreateCustomerKeeps ==
  ASSUME IInv, NEW q \in Requests, CreateCustomer(q)
  PROVE  IInv'
<1>1. /\ TypeOK /\ CardsSound /\ call[q] # Nil /\ call[q] \in CallState
      /\ UNCHANGED <<account, intents, attached, doubled>>
      /\ UNCHANGED identity
  BY DEF IInv, TypeOK, CreateCustomer
<1>2. /\ account[call[q].user] # Nil /\ call[q].first /\ call[q].user \in Users
  BY <1>1 DEF CreateCustomer, CardsSound, CallsSound, CallSound, CallState
<1>3. PICK k \in Customers : /\ owner[k] = Nil
                             /\ owner' = [owner EXCEPT ![k] = call[q].user]
                             /\ Moves(q, "save", k)
  BY DEF CreateCustomer
<1> DEFINE new == [call[q] EXCEPT !.at = "save", !.customer = k]
<1>4. /\ new \in CallState /\ new.at = "save" /\ new.customer = k
      /\ new.user = call[q].user /\ new.first = call[q].first
  BY <1>1 DEF CallState
<1>5. call' = [call EXCEPT ![q] = new]
  BY <1>1, <1>3 DEF Moves, CallState, TypeOK
<1> HIDE DEF new
<1>6. /\ owner' \in [Customers -> Users \cup {Nil}] /\ owner'[k] = call[q].user
      /\ \A c \in Customers : owner[c] # Nil => owner'[c] = owner[c]
  BY <1>1, <1>2, <1>3 DEF TypeOK
<1>7. /\ intents \subseteq Customers
      /\ attached \in [Cards -> Customers \cup {Nil}]
      /\ \A m \in Cards : attached[m] # Nil => attached[m] \in intents
  BY <1>1 DEF TypeOK, CardsSound, CustomersSound
<1> QED BY <1>1, <1>2, <1>4, <1>5, <1>6, <1>7, NilFacts, CallSteps

\* The request ends, having created an intent, detached a card, or neither.
LEMMA CallEndings ==
  ASSUME IInv, NEW q \in Requests, call[q] # Nil, Ends(q), UNCHANGED identity,
         UNCHANGED <<account, owner, doubled>>,
         \/ intents' = intents
         \/ call[q].at = "use" /\ intents' = intents \cup {call[q].customer},
         \/ attached' = attached
         \/ \E m \in Cards : attached' = [attached EXCEPT ![m] = Nil]
  PROVE  IInv'
<1>1. /\ TypeOK /\ CardsSound /\ call[q] \in CallState
  BY DEF IInv, TypeOK
<1>2. call' = [call EXCEPT ![q] = Nil]
  BY DEF Ends
<1>3. call[q].at = "use" =>
        Known(call[q].customer) /\ call[q].customer \in Customers
  BY <1>1 DEF CardsSound, CallsSound, CallSound, CallState
<1>4. /\ intents' \subseteq Customers /\ intents \subseteq intents'
      /\ \A k \in intents' \ intents : Known(k)
  BY <1>1, <1>3 DEF TypeOK
<1>5. /\ attached' \in [Cards -> Customers \cup {Nil}]
      /\ \A m \in Cards : attached'[m] # Nil => attached'[m] \in intents'
  BY <1>1, <1>4 DEF TypeOK, CardsSound, CustomersSound
<1>6. owner' \in [Customers -> Users \cup {Nil}]
  BY <1>1 DEF TypeOK
<1> QED BY <1>2, <1>4, <1>5, <1>6, CallSteps

LEMMA CardAttachedKeeps ==
  ASSUME IInv, NEW m \in Cards, NEW k \in Customers, CardAttached(m, k)
  PROVE  IInv'
<1>1. /\ TypeOK /\ IdentitySound /\ CardsSound /\ k \in intents
      /\ attached' = [attached EXCEPT ![m] = k]
      /\ UNCHANGED <<account, call, owner, intents, doubled>>
      /\ UNCHANGED identity
  BY DEF IInv, CardAttached
<1>2. TypeOK'
  BY <1>1 DEF TypeOK, identity
<1>3. IdentitySound'
  BY <1>1, IdentityFrame DEF KeepsSubjects
<1>4. CustomersSound'
  BY <1>1 DEF TypeOK, CardsSound, CustomersSound, Known
<1>5. CallsSound'
  BY <1>1 DEF CardsSound, CallsSound, CallSound, Known
<1> QED BY <1>2, <1>3, <1>4, <1>5 DEF IInv, CardsSound

\* The account learns of its first customer, or loses one to this one: in that
\* case two first requests have overlapped.
LEMMA SetStripeCustomerIDKeeps ==
  ASSUME IInv, NEW q \in Requests, SetStripeCustomerID(q)
  PROVE  IInv'
<1>0. PICK u, k : u = call[q].user /\ k = call[q].customer
  OBVIOUS
<1>1. /\ TypeOK /\ IdentitySound /\ CardsSound
      /\ call[q] # Nil /\ call[q] \in CallState /\ call[q].at = "save"
      /\ UNCHANGED <<owner, intents, attached>> /\ UNCHANGED identity
  BY DEF IInv, TypeOK, SetStripeCustomerID
<1>2. /\ u \in Users /\ k \in Customers /\ account[u] # Nil
      /\ call[q].first /\ owner[k] = u
  BY <1>0, <1>1 DEF CallState, CardsSound, CallsSound, CallSound
<1> DEFINE row == [account[u] EXCEPT !.customer = k]
           new == [call[q] EXCEPT !.at = "use", !.customer = k]
<1>3. /\ account[u] \in Account
      /\ row \in Account /\ row.customer = k /\ row.live = account[u].live
      /\ row.subject = account[u].subject
  BY <1>1, <1>2 DEF TypeOK, Account
<1>4. /\ new \in CallState /\ new.at = "use" /\ new.customer = k /\ new.user = u
  BY <1>0, <1>1, <1>2 DEF CallState
<1>5. /\ account' = [account EXCEPT ![u] = row]
      /\ call' = [call EXCEPT ![q] = new]
      /\ doubled' = IF account[u].customer # Nil /\ call[q].first
                    THEN doubled \cup {u} ELSE doubled
  BY <1>0 DEF SetStripeCustomerID, Moves
<1>6. row # Nil /\ new # Nil
  BY <1>3, <1>4, NilFacts
<1> HIDE DEF row, new
<1>7. /\ account'[u] = row
      /\ \A v \in Users : v # u => account'[v] = account[v]
      /\ call'[q] = new
      /\ \A p \in Requests : p # q => call'[p] = call[p]
  BY <1>1, <1>2, <1>5 DEF TypeOK
<1>8. /\ doubled \subseteq doubled' /\ doubled' \subseteq Users
      /\ account[u].customer # Nil => u \in doubled'
  BY <1>1, <1>2, <1>5 DEF TypeOK
<1>9. TypeOK'
  BY <1>1, <1>2, <1>3, <1>4, <1>5, <1>8 DEF TypeOK, identity
<1>10. IdentitySound'
  <2>1. KeepsSubjects
    BY <1>2, <1>3, <1>6, <1>7 DEF KeepsSubjects
  <2> QED BY <1>1, <2>1, IdentityFrame
<1>11. ASSUME NEW c, c # Nil, Known(c)
       PROVE  Known(c)'
  <2> DEFINE v == owner[c]
  <2>1. /\ v \in Users /\ account[v] # Nil
        /\ account[v].customer = c \/ v \in doubled
    BY <1>11 DEF Known
  <2>2. owner'[c] = v
    BY <1>1
  <2> HIDE DEF v
  <2>3. CASE v = u
    BY <1>6, <1>7, <1>8, <1>11, <2>1, <2>2, <2>3 DEF Known
  <2>4. CASE v # u
    BY <1>7, <1>8, <2>1, <2>2, <2>4 DEF Known
  <2> QED BY <2>3, <2>4
<1>12. Known(k)'
  BY <1>1, <1>2, <1>3, <1>6, <1>7 DEF Known
<1>13. CustomersSound'
  <2>1. ASSUME NEW v \in Users, account'[v] # Nil, account'[v].customer # Nil
        PROVE  owner[account'[v].customer] = v
    <3>1. CASE v = u
      BY <1>2, <1>3, <1>7, <3>1
    <3>2. CASE v # u
      <4>1. account'[v] = account[v]
        BY <1>7, <3>2
      <4> QED BY <1>1, <2>1, <4>1 DEF CardsSound, CustomersSound
    <3> QED BY <3>1, <3>2
  <2>2. ASSUME NEW c \in intents
        PROVE  Known(c)'
    <3>1. c # Nil /\ Known(c)
      BY <1>1, NilFacts DEF TypeOK, CardsSound, CustomersSound
    <3> QED BY <1>11, <3>1
  <2>3. \A m \in Cards : attached[m] # Nil => attached[m] \in intents
    BY <1>1 DEF CardsSound, CustomersSound
  <2> QED BY <1>1, <2>1, <2>2, <2>3 DEF CustomersSound
<1>14. CallsSound'
  <2> SUFFICES ASSUME NEW p \in Requests, call'[p] # Nil
               PROVE  CallSound(call[p])'
    BY DEF CallsSound
  <2>1. CASE p = q
    <3>1. /\ call'[p] = new /\ new.user = u /\ new.customer = k
          /\ new.at = "use"
      BY <1>4, <1>7, <2>1
    <3>2. /\ call'[p].user = u /\ call'[p].customer = k /\ call'[p].at = "use"
      BY <3>1
    <3>3. account'[u] # Nil /\ k # Nil /\ owner'[k] = u
      BY <1>1, <1>2, <1>6, <1>7, NilFacts
    <3>4. Known(call[p].customer)'
      BY <1>12, <3>2 DEF Known
    <3> QED BY <3>2, <3>3, <3>4 DEF CallSound
  <2>2. CASE p # q
    <3> DEFINE c == call[p]
    <3>1. call'[p] = c /\ c \in CallState /\ CallSound(c)
      BY <1>1, <1>7, <2>2 DEF TypeOK, CardsSound, CallsSound
    <3>2. c' = c
      BY <3>1
    <3> HIDE DEF c
    <3>3. c.user \in Users
      BY <3>1 DEF CallState
    <3>4. account'[c.user] # Nil
      BY <1>6, <1>7, <3>1, <3>3 DEF CallSound
    <3>5. c.at = "use" => Known(c.customer)'
      BY <1>11, <3>1, <3>2 DEF CallSound
    <3>6. CallSound(c)'
      BY <1>1, <3>1, <3>2, <3>4, <3>5 DEF CallSound
    <3> QED BY <3>6 DEF c
  <2> QED BY <2>1, <2>2
<1> QED BY <1>9, <1>10, <1>13, <1>14 DEF IInv, CardsSound

-----------------------------------------------------------------------------
(* The theorems.                                                           *)

LEMMA InitInv == Init => IInv
BY NilFacts DEF Init, IInv, TypeOK, IdentitySound, SubjectsUnique, IsLive,
   GrantsSound, LoginsSound, CardsSound, CustomersSound, CallsSound

LEMMA NextInv == IInv /\ [Next]_vars => IInv'
<1> SUFFICES ASSUME IInv, [Next]_vars
             PROVE  IInv'
  OBVIOUS
<1>1. ASSUME NEW q \in Requests,
             CreateSetupIntent(q) \/ DetachPaymentMethod(q) \/ CallEnds(q)
      PROVE  IInv'
  <2>1. /\ call[q] # Nil /\ Ends(q) /\ UNCHANGED identity
        /\ UNCHANGED <<account, owner, doubled>>
        /\ \/ intents' = intents
           \/ call[q].at = "use" /\ intents' = intents \cup {call[q].customer}
        /\ \/ attached' = attached
           \/ \E m \in Cards : attached' = [attached EXCEPT ![m] = Nil]
    BY <1>1 DEF CreateSetupIntent, DetachPaymentMethod, CallEnds
  <2> QED BY <2>1, CallEndings
<1>2. CASE UNCHANGED vars
  BY <1>2 DEF vars, identity, stripe, IInv, TypeOK, IdentitySound,
     SubjectsUnique, IsLive, GrantsSound, LoginsSound, CardsSound,
     CustomersSound, CallsSound, CallSound, Known
<1>3. CASE Next
  BY <1>1, <1>3, RegisterKeeps, SoftDeleteKeeps, LookUpSubjectKeeps,
     LookUpEmailKeeps, LinkKeeps, CreateKeeps, LoginFailsKeeps,
     EnsureReadsKeeps, CreateCustomerKeeps, SetStripeCustomerIDKeeps,
     CardAttachedKeeps DEF Next
<1> QED BY <1>2, <1>3

LEMMA Invariance == Spec => []IInv
BY InitInv, NextInv, PTL DEF Spec

\* Every row and every request keeps its type.
THEOREM TypeCorrect == Spec => []TypeOK
<1>1. IInv => TypeOK
  BY DEF IInv
<1> QED BY <1>1, Invariance, PTL

\* An account that no overlapping logins have raced for has one identity for
\* ever, and an identity one account that is not deleted.
THEOREM IdentityIsKept == Spec => []IdentityKept
<1>1. IInv => IdentityKept
  <2> SUFFICES ASSUME IInv, NEW g \in granted, NEW h \in granted,
                      {g[2], h[2]} \cap raced = {}
               PROVE  /\ g[2] = h[2] => g[1] = h[1]
                      /\ g[1] = h[1] /\ IsLive(g[2]) /\ IsLive(h[2])
                         => g[2] = h[2]
    BY DEF IdentityKept
  <2>1. /\ g[1] \in Subjects /\ g[2] \in Users /\ h[2] \in Users
        /\ account[g[2]].subject = g[1] /\ account[h[2]].subject = h[1]
    BY DEF IInv, TypeOK, IdentitySound, GrantsSound
  <2> QED BY <2>1, NilFacts DEF IInv, IdentitySound, SubjectsUnique
<1> QED BY <1>1, Invariance, PTL

\* An account sees exactly the cards set up for it, unless two first requests
\* have overlapped.
THEOREM CardsAreReachable == Spec => []CardsReachable
<1>1. IInv => CardsReachable
  <2> SUFFICES ASSUME IInv, NEW u \in Users, IsLive(u), NEW m \in Cards
               PROVE  /\ m \in CardsOf(u) =>
                           attached[m] # Nil /\ owner[attached[m]] = u
                      /\ attached[m] # Nil /\ owner[attached[m]] = u
                           => m \in CardsOf(u) \/ u \in doubled
    BY DEF CardsReachable, CardsOf
  <2> QED BY DEF IInv, CardsSound, CustomersSound, CardsOf, IsLive, Known
<1> QED BY <1>1, Invariance, PTL
=============================================================================
