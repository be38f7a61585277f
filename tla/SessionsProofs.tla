--------------------------- MODULE SessionsProofs ---------------------------
(***************************************************************************)
(* What Sessions promises about reset tokens and JWTs, for any number of   *)
(* accounts, tokens and concurrent requests and for all lifetimes.         *)
(***************************************************************************)
EXTENDS Sessions, TLAPS

-----------------------------------------------------------------------------
(* The inductive invariant.                                                *)

\* A request that has come to its insert has used up what it replaces.
RequestSound(q) ==
  \A t \in q.old : /\ reset[t] # Nil /\ reset[t].user = q.user
                   /\ q.at = "create" => reset[t].used

ResetsSound ==
  /\ \A t \in spent : reset[t] # Nil /\ reset[t].used
  /\ \A t \in mailed : reset[t] # Nil
  /\ \A r \in Requests : request[r] # Nil => RequestSound(request[r])
  /\ \A r \in Requests :
       confirm[r] # Nil =>
         reset[confirm[r].token] # Nil /\ ~confirm[r].late

\* The key of a JWT that was logged out lives until the JWT expires.
SessionsSound ==
  /\ \A j \in out : /\ jwt[j] # Nil
                    /\ revoked[j] = jwt[j].exp \/ jwt[j].exp <= now
  /\ \A r \in Requests : pass[r] # Nil => jwt[pass[r].jti] # Nil
  /\ LoggedOutStaysOut

IInv == TypeOK /\ ResetsSound /\ SessionsSound

LEMMA NilFacts ==
  /\ Nil \notin Passwords /\ Nil \notin Jwt /\ Nil \notin Reset
  /\ Nil \notin RequestState /\ Nil \notin ConfirmState /\ Nil \notin PassState
BY SessionsAssumption

\* A step of a JWT leaves the reset tokens alone, and the other way round.
LEMMA ResetsFrame ==
  ASSUME ResetsSound, UNCHANGED resets
  PROVE  ResetsSound'
BY DEF ResetsSound, RequestSound, resets

LEMMA SessionsFrame ==
  ASSUME TypeOK, SessionsSound, UNCHANGED sessions, now' \in Nat, now' >= now
  PROVE  SessionsSound'
<1>1. UNCHANGED <<jwt, revoked, pass, out>> /\ LoggedOutStaysOut'
  BY DEF sessions, SessionsSound, LoggedOutStaysOut
<1>2. ASSUME NEW j \in out
      PROVE  jwt[j] # Nil /\ (revoked[j] = jwt[j].exp \/ jwt[j].exp <= now')
  <2>1. /\ jwt[j] # Nil /\ jwt[j].exp \in Nat /\ now \in Nat
        /\ revoked[j] = jwt[j].exp \/ jwt[j].exp <= now
    BY DEF SessionsSound, TypeOK, Jwt
  <2> QED BY <2>1
<1> QED BY <1>1, <1>2 DEF SessionsSound

-----------------------------------------------------------------------------
(* The steps of a reset.                                                   *)

LEMMA RequestReadsKeeps ==
  ASSUME IInv, NEW r \in Requests, NEW u \in Users, RequestReads(r, u)
  PROVE  IInv'
<1> DEFINE q == [at |-> "invalidate", user |-> u, old |-> TokensOf(u)]
<1>1. /\ TypeOK /\ ResetsSound /\ SessionsSound
      /\ UNCHANGED <<password, reset, mailed, confirm, spent, crowded, now, live>>
      /\ UNCHANGED sessions
      /\ request' = [request EXCEPT ![r] = q]
  BY DEF IInv, RequestReads
<1>2. q \in RequestState /\ RequestSound(q)
  BY DEF RequestState, RequestSound, TokensOf
<1> HIDE DEF q
<1>3. TypeOK'
  BY <1>1, <1>2 DEF TypeOK, sessions
<1>4. /\ request'[r] = q
      /\ \A s \in Requests : s # r => request'[s] = request[s]
  BY <1>1 DEF TypeOK
<1>5. ResetsSound'
  BY <1>1, <1>2, <1>4 DEF ResetsSound, RequestSound
<1>6. SessionsSound'
  BY <1>1, SessionsFrame DEF TypeOK
<1> QED BY <1>3, <1>5, <1>6 DEF IInv

LEMMA InvalidateAllForUserKeeps ==
  ASSUME IInv, NEW r \in Requests, InvalidateAllForUser(r)
  PROVE  IInv'
<1> DEFINE q == [request[r] EXCEPT !.at = "create"]
           used(t) == [reset[t] EXCEPT !.used = TRUE]
<1>1. /\ TypeOK /\ ResetsSound /\ SessionsSound
      /\ UNCHANGED <<password, mailed, confirm, spent, crowded, now, live>>
      /\ UNCHANGED sessions
      /\ request[r] # Nil /\ request[r] \in RequestState
      /\ request' = [request EXCEPT ![r] = q]
      /\ reset' = [t \in Tokens |-> IF t \in TokensOf(request[r].user)
                                    THEN used(t) ELSE reset[t]]
  BY DEF IInv, InvalidateAllForUser, TypeOK
<1>2. /\ q \in RequestState /\ q.at = "create" /\ q.user = request[r].user
      /\ q.old = request[r].old /\ q.old \subseteq Tokens
  BY <1>1 DEF RequestState
<1> HIDE DEF q
<1>3. ASSUME NEW t \in Tokens, reset[t] # Nil
      PROVE  /\ used(t) \in Reset /\ used(t).used /\ used(t).user = reset[t].user
             /\ used(t) # Nil
  BY <1>1, <1>3, NilFacts DEF TypeOK, Reset
<1> HIDE DEF used
<1>4. ASSUME NEW t \in Tokens, reset[t] # Nil
      PROVE  /\ reset'[t] # Nil /\ reset'[t].user = reset[t].user
             /\ reset[t].used => reset'[t].used
             /\ reset[t].user = request[r].user => reset'[t].used
  BY <1>1, <1>3, <1>4 DEF TokensOf
<1>5. reset' \in [Tokens -> Reset \cup {Nil}]
  BY <1>1, <1>3 DEF TypeOK, TokensOf
<1>6. TypeOK'
  BY <1>1, <1>2, <1>5 DEF TypeOK, sessions
<1>7. /\ request'[r] = q
      /\ \A s \in Requests : s # r => request'[s] = request[s]
  BY <1>1 DEF TypeOK
<1>8. ASSUME NEW s \in Requests, request'[s] # Nil, NEW t \in request'[s].old
      PROVE  /\ reset'[t] # Nil /\ reset'[t].user = request'[s].user
             /\ request'[s].at = "create" => reset'[t].used
  <2>1. CASE s = r
    <3>1. t \in Tokens /\ reset[t] # Nil /\ reset[t].user = q.user
      BY <1>1, <1>2, <1>7, <1>8, <2>1 DEF ResetsSound, RequestSound
    <3> QED BY <1>2, <1>4, <1>7, <2>1, <3>1
  <2>2. CASE s # r
    <3>1. /\ request'[s] = request[s] /\ request[s] # Nil
          /\ t \in request[s].old /\ t \in Tokens
      BY <1>1, <1>7, <1>8, <2>2 DEF TypeOK, RequestState
    <3>2. /\ reset[t] # Nil /\ reset[t].user = request[s].user
          /\ request[s].at = "create" => reset[t].used
      BY <1>1, <3>1 DEF ResetsSound, RequestSound
    <3> QED BY <1>4, <3>1, <3>2
  <2> QED BY <2>1, <2>2
<1>9. /\ \A t \in spent : reset'[t] # Nil /\ reset'[t].used
      /\ \A t \in mailed : reset'[t] # Nil
  BY <1>1, <1>4 DEF TypeOK, ResetsSound
<1>10. ASSUME NEW s \in Requests, confirm[s] # Nil
       PROVE  reset'[confirm[s].token] # Nil /\ ~confirm[s].late
  <2>1. confirm[s].token \in Tokens /\ reset[confirm[s].token] # Nil
    BY <1>1, <1>10 DEF TypeOK, ConfirmState, ResetsSound
  <2> QED BY <1>1, <1>4, <1>10, <2>1 DEF ResetsSound
<1>11. ResetsSound'
  BY <1>1, <1>8, <1>9, <1>10 DEF ResetsSound, RequestSound
<1>12. SessionsSound'
  BY <1>1, SessionsFrame DEF TypeOK
<1> QED BY <1>6, <1>11, <1>12 DEF IInv

\* What the other steps have in common: rows come in and become used, and a
\* token is spent only when it is used.
LEMMA ResetSteps ==
  ASSUME IInv, UNCHANGED sessions, UNCHANGED <<now, live>>, TypeOK',
         \A t \in Tokens :
           reset[t] # Nil => /\ reset'[t] # Nil
                             /\ reset'[t].user = reset[t].user
                             /\ reset[t].used => reset'[t].used,
         \A t \in spent' \ spent : reset'[t] # Nil /\ reset'[t].used,
         \A t \in mailed' \ mailed : reset'[t] # Nil,
         \A r \in Requests : \/ request'[r] = request[r]
                             \/ request'[r] = Nil,
         \A r \in Requests :
           \/ confirm'[r] = Nil
           \/ /\ confirm[r] # Nil /\ confirm'[r].token = confirm[r].token
              /\ confirm'[r].late = confirm[r].late
           \/ reset'[confirm'[r].token] # Nil /\ ~confirm'[r].late
  PROVE  IInv'
<1>1. TypeOK /\ ResetsSound /\ SessionsSound
  BY DEF IInv
<1>2. \A t \in spent' : reset'[t] # Nil /\ reset'[t].used
  BY <1>1 DEF TypeOK, ResetsSound
<1>3. \A t \in mailed' : reset'[t] # Nil
  BY <1>1 DEF TypeOK, ResetsSound
<1>4. ASSUME NEW r \in Requests, request'[r] # Nil
      PROVE  RequestSound(request[r])'
  <2>1. request'[r] = request[r] /\ request[r] \in RequestState
    BY <1>1, <1>4 DEF TypeOK
  <2>2. RequestSound(request[r]) /\ request[r].old \subseteq Tokens
    BY <1>1, <1>4, <2>1 DEF ResetsSound, RequestState
  <2> QED BY <2>1, <2>2 DEF RequestSound
<1>5. ASSUME NEW r \in Requests, confirm'[r] # Nil
      PROVE  reset'[confirm'[r].token] # Nil /\ ~confirm'[r].late
  <2>1. CASE /\ confirm[r] # Nil /\ confirm'[r].token = confirm[r].token
             /\ confirm'[r].late = confirm[r].late
    <3>1. /\ confirm[r].token \in Tokens /\ reset[confirm[r].token] # Nil
          /\ ~confirm[r].late
      BY <1>1, <2>1 DEF TypeOK, ConfirmState, ResetsSound
    <3> QED BY <2>1, <3>1
  <2> QED BY <1>5, <2>1
<1>6. ResetsSound'
  BY <1>2, <1>3, <1>4, <1>5 DEF ResetsSound
<1>7. SessionsSound'
  BY <1>1, SessionsFrame DEF TypeOK
<1> QED BY <1>6, <1>7 DEF IInv

LEMMA CreateTokenKeeps ==
  ASSUME IInv, NEW r \in Requests, CreateToken(r)
  PROVE  IInv'
<1>1. /\ TypeOK /\ ResetsSound /\ request[r] # Nil /\ request[r] \in RequestState
      /\ request[r].at = "create"
      /\ UNCHANGED <<password, confirm, now, live>> /\ UNCHANGED sessions
      /\ spent' = spent \cup request[r].old
      /\ request' = [request EXCEPT ![r] = Nil]
  BY DEF IInv, CreateToken, TypeOK
<1>2. PICK t \in Tokens :
        /\ reset[t] = Nil
        /\ reset' = [reset EXCEPT ![t] =
             [user |-> request[r].user, expires |-> now + ResetTTL,
              used |-> FALSE]]
        /\ mailed' \in {mailed, mailed \cup {t}}
  BY DEF CreateToken
<1> DEFINE row == [user |-> request[r].user, expires |-> now + ResetTTL,
                   used |-> FALSE]
<1>3. row \in Reset
  <2>1. now + ResetTTL \in Nat /\ request[r].user \in Users
    BY <1>1, SessionsAssumption DEF TypeOK, RequestState
  <2> QED BY <2>1 DEF Reset
<1>4. reset' = [reset EXCEPT ![t] = row]
  BY <1>2
<1> HIDE DEF row
<1>5. /\ reset'[t] = row /\ row # Nil
      /\ \A s \in Tokens : s # t => reset'[s] = reset[s]
  BY <1>1, <1>3, <1>4, NilFacts DEF TypeOK
<1>12. crowded' \subseteq Users
  BY <1>1 DEF CreateToken, TypeOK, RequestState
<1>6. TypeOK'
  BY <1>1, <1>2, <1>3, <1>4, <1>12 DEF TypeOK, RequestState, sessions
<1>7. ASSUME NEW s \in request[r].old
      PROVE  reset'[s] # Nil /\ reset'[s].used
  <2>1. s \in Tokens /\ reset[s] # Nil /\ reset[s].used
    BY <1>1 DEF ResetsSound, RequestSound, RequestState
  <2> QED BY <1>2, <1>5, <2>1
<1>8. \A s \in Requests : request'[s] = request[s] \/ request'[s] = Nil
  BY <1>1 DEF TypeOK
<1>9. \A s \in Tokens :
        reset[s] # Nil => /\ reset'[s] # Nil /\ reset'[s].user = reset[s].user
                          /\ reset[s].used => reset'[s].used
  BY <1>2, <1>5
<1>10. \A s \in Requests :
         \/ confirm'[s] = Nil
         \/ /\ confirm[s] # Nil /\ confirm'[s].token = confirm[s].token
            /\ confirm'[s].late = confirm[s].late
  BY <1>1
<1>11. /\ \A s \in spent' \ spent : reset'[s] # Nil /\ reset'[s].used
       /\ \A s \in mailed' \ mailed : reset'[s] # Nil
  BY <1>1, <1>2, <1>5, <1>7
<1> QED BY <1>1, <1>6, <1>8, <1>9, <1>10, <1>11, ResetSteps

LEMMA RequestFailsKeeps ==
  ASSUME IInv, NEW r \in Requests, RequestFails(r)
  PROVE  IInv'
<1>1. /\ TypeOK /\ UNCHANGED <<password, reset, mailed, confirm, spent, crowded>>
      /\ UNCHANGED <<now, live>> /\ UNCHANGED sessions
      /\ request' = [request EXCEPT ![r] = Nil]
  BY DEF IInv, RequestFails
<1>2. TypeOK' /\ \A s \in Requests : request'[s] = request[s] \/ request'[s] = Nil
  BY <1>1 DEF TypeOK, sessions
<1> QED BY <1>1, <1>2, ResetSteps

LEMMA ConfirmReadsKeeps ==
  ASSUME IInv, NEW r \in Requests, NEW t \in Tokens, NEW p \in Passwords,
         ConfirmReads(r, t, p)
  PROVE  IInv'
<1> DEFINE late == t \in spent
           c == [at |-> "write", token |-> t, password |-> p, late |-> late]
<1>1. /\ TypeOK /\ UNCHANGED <<password, reset, mailed, request, spent, crowded>>
      /\ UNCHANGED <<now, live>> /\ UNCHANGED sessions
      /\ confirm' = [confirm EXCEPT ![r] = c]
  BY DEF IInv, ConfirmReads
<1>2. t \in mailed /\ ~reset[t].used /\ reset[t] # Nil /\ t \notin spent
  BY DEF IInv, ResetsSound, ConfirmReads
<1>3. late \in BOOLEAN /\ ~late
  BY <1>2
<1> HIDE DEF late
<1>4. c \in ConfirmState /\ c.token = t /\ c.late = late
  BY <1>3 DEF ConfirmState
<1> HIDE DEF c
<1>5. TypeOK'
  BY <1>1, <1>4 DEF TypeOK, sessions
<1>6. /\ confirm'[r] = c
      /\ \A s \in Requests : s # r => confirm'[s] = confirm[s]
  BY <1>1 DEF TypeOK
<1>7. \A s \in Requests :
        \/ confirm'[s] = Nil
        \/ /\ confirm[s] # Nil /\ confirm'[s].token = confirm[s].token
           /\ confirm'[s].late = confirm[s].late
        \/ reset'[confirm'[s].token] # Nil /\ ~confirm'[s].late
  BY <1>1, <1>2, <1>3, <1>4, <1>6
<1> QED BY <1>1, <1>5, <1>7, ResetSteps

\* A confirmation that goes on has the token it came with.
LEMMA ConfirmWritesKeeps ==
  ASSUME IInv, NEW r \in Requests, ConfirmWrites(r)
  PROVE  IInv'
<1> DEFINE c == [confirm[r] EXCEPT !.at = "mark"]
           u == reset[confirm[r].token].user
<1>1. /\ TypeOK /\ UNCHANGED <<reset, mailed, request, spent, crowded>>
      /\ UNCHANGED <<now, live>> /\ UNCHANGED sessions
      /\ confirm[r] # Nil /\ confirm[r] \in ConfirmState /\ u \in live
      /\ confirm' = [confirm EXCEPT ![r] = c]
      /\ password' = [password EXCEPT ![u] = confirm[r].password]
  BY DEF IInv, ConfirmWrites, TypeOK
<1>2. /\ c \in ConfirmState /\ c.token = confirm[r].token
      /\ c.late = confirm[r].late /\ confirm[r].password \in Passwords
  BY <1>1 DEF ConfirmState
<1> HIDE DEF c, u
<1>3. TypeOK'
  BY <1>1, <1>2 DEF TypeOK, sessions
<1>4. \A s \in Requests :
        \/ confirm'[s] = Nil
        \/ /\ confirm[s] # Nil /\ confirm'[s].token = confirm[s].token
           /\ confirm'[s].late = confirm[s].late
  BY <1>1, <1>2 DEF TypeOK
<1> QED BY <1>1, <1>3, <1>4, ResetSteps

LEMMA ConfirmMarksKeeps ==
  ASSUME IInv, NEW r \in Requests, ConfirmMarks(r)
  PROVE  IInv'
<1> DEFINE t == confirm[r].token
           row == [reset[t] EXCEPT !.used = TRUE]
<1>1. /\ TypeOK /\ ResetsSound /\ confirm[r] # Nil
      /\ confirm[r] \in ConfirmState
      /\ UNCHANGED <<password, mailed, request, crowded>>
      /\ UNCHANGED <<now, live>> /\ UNCHANGED sessions
      /\ reset' = [reset EXCEPT ![t] = row] /\ spent' = spent \cup {t}
      /\ confirm' = [confirm EXCEPT ![r] = Nil]
  BY DEF IInv, ConfirmMarks, TypeOK
<1>2. t \in Tokens /\ reset[t] # Nil /\ reset[t] \in Reset
  BY <1>1 DEF ResetsSound, ConfirmState, TypeOK
<1>3. row \in Reset /\ row.used /\ row.user = reset[t].user
  BY <1>2 DEF Reset
<1> HIDE DEF t, row
<1>4. /\ reset'[t] = row /\ row # Nil
      /\ \A s \in Tokens : s # t => reset'[s] = reset[s]
  BY <1>1, <1>2, <1>3, NilFacts DEF TypeOK
<1>5. TypeOK'
  BY <1>1, <1>2, <1>3 DEF TypeOK, sessions
<1>6. \A s \in Tokens :
        reset[s] # Nil => /\ reset'[s] # Nil /\ reset'[s].user = reset[s].user
                          /\ reset[s].used => reset'[s].used
  BY <1>3, <1>4
<1>7. \A s \in Requests :
        \/ confirm'[s] = Nil
        \/ /\ confirm[s] # Nil /\ confirm'[s].token = confirm[s].token
           /\ confirm'[s].late = confirm[s].late
  BY <1>1 DEF TypeOK
<1>8. \A s \in spent' \ spent : reset'[s] # Nil /\ reset'[s].used
  BY <1>1, <1>3, <1>4
<1> QED BY <1>1, <1>5, <1>6, <1>7, <1>8, ResetSteps

LEMMA ConfirmFailsKeeps ==
  ASSUME IInv, NEW r \in Requests, ConfirmFails(r)
  PROVE  IInv'
<1>1. /\ TypeOK /\ UNCHANGED <<password, reset, mailed, request, spent, crowded>>
      /\ UNCHANGED <<now, live>> /\ UNCHANGED sessions
      /\ confirm' = [confirm EXCEPT ![r] = Nil]
  BY DEF IInv, ConfirmFails
<1>2. /\ TypeOK'
      /\ \A s \in Requests :
           \/ confirm'[s] = Nil
           \/ /\ confirm[s] # Nil /\ confirm'[s].token = confirm[s].token
              /\ confirm'[s].late = confirm[s].late
  BY <1>1 DEF TypeOK, sessions
<1> QED BY <1>1, <1>2, ResetSteps

-----------------------------------------------------------------------------
(* The steps of a JWT.                                                     *)

LEMMA IssueJWTKeeps ==
  ASSUME IInv, NEW j \in Jtis, NEW u \in Users, IssueJWT(j, u)
  PROVE  IInv'
<1> DEFINE row == [user |-> u, exp |-> now + JwtTTL]
<1>1. /\ TypeOK /\ ResetsSound /\ SessionsSound /\ jwt[j] = Nil
      /\ UNCHANGED <<revoked, pass, out, now, live>> /\ UNCHANGED resets
      /\ jwt' = [jwt EXCEPT ![j] = row]
  BY DEF IInv, IssueJWT
<1>2. row \in Jwt
  <2>1. now + JwtTTL \in Nat
    BY <1>1, SessionsAssumption DEF TypeOK
  <2> QED BY <2>1 DEF Jwt
<1> HIDE DEF row
<1>3. /\ row # Nil /\ jwt'[j] = row
      /\ \A k \in Jtis : k # j => jwt'[k] = jwt[k]
  BY <1>1, <1>2, NilFacts DEF TypeOK
<1>4. TypeOK'
  BY <1>1, <1>2 DEF TypeOK, resets
<1>5. \A k \in Jtis : jwt[k] # Nil => jwt'[k] = jwt[k]
  BY <1>1, <1>3
<1>6. \A r \in Requests : pass[r] # Nil => pass[r].jti \in Jtis
  BY <1>1 DEF TypeOK, PassState
<1>7. SessionsSound'
  BY <1>1, <1>5, <1>6 DEF SessionsSound, LoggedOutStaysOut, TypeOK
<1> QED BY <1>1, <1>4, <1>7, ResetsFrame DEF IInv

LEMMA AuthParsesKeeps ==
  ASSUME IInv, NEW r \in Requests, NEW j \in Jtis, AuthParses(r, j)
  PROVE  IInv'
<1> DEFINE a == [at |-> "check", jti |-> j, out |-> FALSE, early |-> FALSE,
                 answered |-> FALSE]
<1>1. /\ TypeOK /\ ResetsSound /\ SessionsSound /\ jwt[j] # Nil
      /\ UNCHANGED <<jwt, revoked, out, now, live>> /\ UNCHANGED resets
      /\ pass' = [pass EXCEPT ![r] = a]
  BY DEF IInv, AuthParses, Parses
<1>2. a \in PassState /\ a.at # "serve" /\ a.jti = j
  BY DEF PassState
<1> HIDE DEF a
<1>3. TypeOK'
  BY <1>1, <1>2 DEF TypeOK, resets
<1>4. pass'[r] = a /\ \A s \in Requests : s # r => pass'[s] = pass[s]
  BY <1>1 DEF TypeOK
<1>5. SessionsSound'
  BY <1>1, <1>2, <1>4 DEF SessionsSound, LoggedOutStaysOut
<1> QED BY <1>1, <1>3, <1>5, ResetsFrame DEF IInv

\* Before the JWT expires its key is still there.
LEMMA AuthChecksKeeps ==
  ASSUME IInv, NEW r \in Requests, AuthChecks(r)
  PROVE  IInv'
<1>0. PICK j : j = pass[r].jti
  OBVIOUS
<1>1. /\ TypeOK /\ ResetsSound /\ SessionsSound /\ pass[r] # Nil
      /\ UNCHANGED <<jwt, revoked, out, now, live>> /\ UNCHANGED resets
  BY DEF IInv, AuthChecks
<1>2. PICK answered \in BOOLEAN :
        /\ answered => ~(now < revoked[j])
        /\ pass' = [pass EXCEPT ![r] =
             [at |-> "serve", jti |-> j, out |-> j \in out,
              early |-> now < jwt[j].exp, answered |-> answered]]
  BY <1>0 DEF AuthChecks
<1>3. j \in Jtis /\ jwt[j] # Nil /\ jwt[j].exp \in Nat /\ now \in Nat
  BY <1>0, <1>1 DEF TypeOK, PassState, SessionsSound, Jwt
<1> DEFINE early == now < jwt[j].exp
           gone == j \in out
           a == [at |-> "serve", jti |-> j, out |-> gone, early |-> early,
                 answered |-> answered]
<1>4. pass' = [pass EXCEPT ![r] = a]
  BY <1>2
<1>5. gone /\ early => ~answered
  BY <1>1, <1>2, <1>3 DEF SessionsSound
<1>6. early \in BOOLEAN /\ gone \in BOOLEAN
  OBVIOUS
<1> HIDE DEF early, gone
<1>7. /\ a \in PassState /\ a.jti = j /\ a.at = "serve" /\ a.out = gone
      /\ a.early = early /\ a.answered = answered
  BY <1>3, <1>6 DEF PassState
<1> HIDE DEF a
<1>8. TypeOK'
  BY <1>1, <1>4, <1>7 DEF TypeOK, resets
<1>9. pass'[r] = a /\ \A s \in Requests : s # r => pass'[s] = pass[s]
  BY <1>1, <1>4 DEF TypeOK
<1>10. LoggedOutStaysOut'
  <2> SUFFICES ASSUME NEW s \in Requests, pass'[s] # Nil,
                      pass'[s].at = "serve", pass'[s].out, pass'[s].early
               PROVE  ~pass'[s].answered
    BY DEF LoggedOutStaysOut
  <2>1. CASE s = r
    BY <1>5, <1>7, <1>9, <2>1
  <2>2. CASE s # r
    BY <1>1, <1>9, <2>2 DEF SessionsSound, LoggedOutStaysOut
  <2> QED BY <2>1, <2>2
<1>11. SessionsSound'
  BY <1>1, <1>3, <1>7, <1>9, <1>10 DEF SessionsSound
<1> QED BY <1>1, <1>8, <1>11, ResetsFrame DEF IInv

LEMMA PassEndsKeeps ==
  ASSUME IInv, NEW r \in Requests, PassEnds(r)
  PROVE  IInv'
<1>1. /\ TypeOK /\ ResetsSound /\ SessionsSound
      /\ UNCHANGED <<jwt, revoked, out, now, live>> /\ UNCHANGED resets
      /\ pass' = [pass EXCEPT ![r] = Nil]
  BY DEF IInv, PassEnds
<1>2. TypeOK'
  BY <1>1 DEF TypeOK, resets
<1>3. pass'[r] = Nil /\ \A s \in Requests : s # r => pass'[s] = pass[s]
  BY <1>1 DEF TypeOK
<1>4. SessionsSound'
  BY <1>1, <1>3 DEF SessionsSound, LoggedOutStaysOut
<1> QED BY <1>1, <1>2, <1>4, ResetsFrame DEF IInv

LEMMA LogoutKeeps ==
  ASSUME IInv, NEW r \in Requests, Logout(r)
  PROVE  IInv'
<1>0. PICK j : j = pass[r].jti
  OBVIOUS
<1>1. /\ TypeOK /\ ResetsSound /\ SessionsSound /\ pass[r] # Nil
      /\ UNCHANGED <<jwt, now, live>> /\ UNCHANGED resets
      /\ revoked' = IF now < jwt[j].exp
                    THEN [revoked EXCEPT ![j] = jwt[j].exp] ELSE revoked
      /\ out' = out \cup {j} /\ pass' = [pass EXCEPT ![r] = Nil]
  BY <1>0 DEF IInv, Logout
<1>2. /\ j \in Jtis /\ jwt[j] # Nil /\ jwt[j].exp \in Nat /\ now \in Nat
      /\ revoked \in [Jtis -> Nat]
  BY <1>0, <1>1 DEF TypeOK, PassState, SessionsSound, Jwt
<1>3. revoked' \in [Jtis -> Nat]
  BY <1>1, <1>2
<1>4. TypeOK'
  BY <1>1, <1>2, <1>3 DEF TypeOK, resets
<1>5. pass'[r] = Nil /\ \A s \in Requests : s # r => pass'[s] = pass[s]
  BY <1>1 DEF TypeOK
<1>6. ASSUME NEW k \in out'
      PROVE  jwt[k] # Nil /\ (revoked'[k] = jwt[k].exp \/ jwt[k].exp <= now)
  <2>1. CASE k = j
    <3>1. CASE now < jwt[j].exp
      BY <1>1, <1>2, <2>1, <3>1
    <3>2. CASE ~(now < jwt[j].exp)
      BY <1>2, <2>1, <3>2
    <3> QED BY <3>1, <3>2
  <2>2. CASE k # j
    <3>1. k \in out /\ k \in Jtis
      BY <1>1, <1>6, <2>2 DEF TypeOK
    <3>2. revoked'[k] = revoked[k]
      BY <1>1, <1>2, <2>2, <3>1
    <3> QED BY <1>1, <3>1, <3>2 DEF SessionsSound
  <2> QED BY <2>1, <2>2
<1>7. SessionsSound'
  BY <1>1, <1>5, <1>6 DEF SessionsSound, LoggedOutStaysOut
<1> QED BY <1>1, <1>4, <1>7, ResetsFrame DEF IInv

-----------------------------------------------------------------------------
(* The theorems.                                                           *)

LEMMA InitInv == Init => IInv
BY DEF Init, IInv, TypeOK, ResetsSound, SessionsSound, LoggedOutStaysOut

LEMMA NextInv == IInv /\ [Next]_vars => IInv'
<1> SUFFICES ASSUME IInv, [Next]_vars
             PROVE  IInv'
  OBVIOUS
<1>1. ASSUME /\ UNCHANGED resets /\ UNCHANGED sessions
             /\ live' \subseteq Users /\ now' \in Nat /\ now' >= now
      PROVE  IInv'
  <2>1. TypeOK /\ ResetsSound /\ SessionsSound
    BY DEF IInv
  <2>2. TypeOK'
    BY <1>1, <2>1 DEF TypeOK, resets, sessions
  <2> QED BY <1>1, <2>1, <2>2, ResetsFrame, SessionsFrame DEF IInv
<1>2. now \in Nat /\ live \subseteq Users
  BY DEF IInv, TypeOK
<1>3. CASE UNCHANGED vars
  BY <1>1, <1>2, <1>3 DEF vars
<1>4. CASE Tick
  BY <1>1, <1>2, <1>4 DEF Tick
<1>5. ASSUME NEW u \in Users, SoftDelete(u)
      PROVE  IInv'
  BY <1>1, <1>2, <1>5 DEF SoftDelete
<1>6. ASSUME NEW j \in Jtis, NEW u \in Users,
             \/ LoginOtherwise(j, u)
             \/ \E p \in Passwords : Login(j, u, p)
      PROVE  IInv'
  BY <1>6, IssueJWTKeeps DEF LoginOtherwise, Login
<1>7. CASE Next
  BY <1>4, <1>5, <1>6, <1>7, RequestReadsKeeps, InvalidateAllForUserKeeps,
     CreateTokenKeeps, RequestFailsKeeps, ConfirmReadsKeeps,
     ConfirmWritesKeeps, ConfirmMarksKeeps, ConfirmFailsKeeps,
     AuthParsesKeeps, AuthChecksKeeps, PassEndsKeeps, LogoutKeeps DEF Next
<1> QED BY <1>3, <1>7

LEMMA Invariance == Spec => []IInv
BY InitInv, NextInv, PTL DEF Spec

\* Every row, key and request keeps its type.
THEOREM TypeCorrect == Spec => []TypeOK
<1>1. IInv => TypeOK
  BY DEF IInv
<1> QED BY <1>1, Invariance, PTL

-----------------------------------------------------------------------------
(* One good token.                                                         *)

\* What OneGoodToken rests on: a request of an account that is not crowded finds,
\* when it inserts, all tokens of the account used.
AllUsed(u) == \A t \in TokensOf(u) : reset[t].used

FreshSound ==
  /\ OneGoodToken
  /\ \A u \in Users \ crowded : Inserting(u) # {} => AllUsed(u)

\* A step that inserts no token and takes no request to its insert.
LEMMA FreshFrame ==
  ASSUME FreshSound, crowded' = crowded,
         \A t \in Tokens :
           reset'[t] # Nil => /\ reset[t] # Nil
                              /\ reset'[t].user = reset[t].user
                              /\ reset[t].used => reset'[t].used,
         \A r \in Requests : request'[r] = request[r] \/ request'[r] = Nil
  PROVE  FreshSound'
<1>1. ASSUME NEW u \in Users
      PROVE  /\ TokensOf(u)' \subseteq TokensOf(u)
             /\ Inserting(u)' \subseteq Inserting(u)
             /\ AllUsed(u) => AllUsed(u)'
  BY DEF TokensOf, Inserting, AllUsed
<1>2. OneGoodToken'
  BY <1>1 DEF FreshSound, OneGoodToken, TokensOf
<1> QED BY <1>1, <1>2 DEF FreshSound

\* Invalidating uses up the tokens of the account, whoever else is at it.
LEMMA InvalidateKeepsFresh ==
  ASSUME IInv, FreshSound, NEW r \in Requests, InvalidateAllForUser(r)
  PROVE  FreshSound'
<1> DEFINE v == request[r].user
<1>1. /\ crowded' = crowded /\ request[r] # Nil /\ v \in Users
      /\ \A q \in Requests \ {r} : request'[q] = request[q]
      /\ request'[r].user = v
  BY DEF IInv, TypeOK, InvalidateAllForUser, RequestState
<1>2. ASSUME NEW t \in Tokens, reset'[t] # Nil
      PROVE  /\ reset[t] # Nil /\ reset'[t].user = reset[t].user
             /\ reset[t].used => reset'[t].used
             /\ reset[t].user = v => reset'[t].used
  <2>1. CASE t \in TokensOf(v)
    <3>1. /\ reset[t] # Nil /\ reset[t] \in Reset
          /\ reset'[t] = [reset[t] EXCEPT !.used = TRUE]
      BY <2>1 DEF TokensOf, IInv, TypeOK, InvalidateAllForUser
    <3> QED BY <3>1 DEF Reset
  <2>2. CASE t \notin TokensOf(v)
    <3>1. reset'[t] = reset[t]
      BY <2>2 DEF InvalidateAllForUser
    <3> QED BY <1>2, <2>2, <3>1 DEF TokensOf
  <2> QED BY <2>1, <2>2
<1> HIDE DEF v
<1>3. ASSUME NEW u \in Users
      PROVE  /\ TokensOf(u)' \subseteq TokensOf(u)
             /\ AllUsed(u) => AllUsed(u)'
             /\ u = v => AllUsed(u)'
             /\ u # v => Inserting(u)' \subseteq Inserting(u)
  BY <1>1, <1>2 DEF TokensOf, AllUsed, Inserting
<1>4. OneGoodToken'
  BY <1>1, <1>2, <1>3 DEF FreshSound, OneGoodToken, TokensOf
<1> QED BY <1>1, <1>3, <1>4 DEF FreshSound

\* The new token is the only good one, or the account is crowded.
LEMMA CreateKeepsFresh ==
  ASSUME IInv, FreshSound, NEW r \in Requests, CreateToken(r)
  PROVE  FreshSound'
<1>0. PICK v \in Users : v = request[r].user
  BY DEF IInv, TypeOK, CreateToken, RequestState
<1>1. /\ request[r] # Nil /\ request[r].at = "create"
      /\ request'[r] = Nil
      /\ \A q \in Requests \ {r} : request'[q] = request[q]
      /\ crowded' = IF Inserting(v) = {r} THEN crowded ELSE crowded \cup {v}
  BY <1>0 DEF IInv, TypeOK, CreateToken
<1>2. r \in Inserting(v)
  BY <1>0, <1>1 DEF Inserting
<1>3. PICK new \in Tokens :
        /\ reset[new] = Nil
        /\ reset' = [reset EXCEPT ![new] =
             [user |-> v, expires |-> now + ResetTTL, used |-> FALSE]]
  BY <1>0 DEF CreateToken
<1>4. /\ reset'[new].user = v
      /\ \A t \in Tokens \ {new} : reset'[t] = reset[t]
  BY <1>3 DEF IInv, TypeOK
<1>5. /\ TokensOf(v)' \subseteq TokensOf(v) \cup {new}
      /\ \A u \in Users \ {v} : TokensOf(u)' \subseteq TokensOf(u) \ {new}
  BY <1>3, <1>4 DEF TokensOf
<1>6. ASSUME NEW u \in Users \ crowded', u # v
      PROVE  /\ \A s, t \in TokensOf(u)' :
                  ~reset'[s].used /\ ~reset'[t].used => s = t
             /\ Inserting(u)' # {} => AllUsed(u)'
  <2>1. u \notin crowded /\ Inserting(u)' \subseteq Inserting(u)
    BY <1>1, <1>6 DEF Inserting
  <2>2. \A t \in TokensOf(u)' : t \in TokensOf(u) /\ reset'[t] = reset[t]
    BY <1>4, <1>5, <1>6 DEF TokensOf
  <2> QED BY <2>1, <2>2 DEF FreshSound, OneGoodToken, AllUsed
<1>7. ASSUME v \notin crowded'
      PROVE  /\ \A s, t \in TokensOf(v)' :
                  ~reset'[s].used /\ ~reset'[t].used => s = t
             /\ Inserting(v)' = {}
  <2>1. v \notin crowded /\ Inserting(v) = {r}
    BY <1>1, <1>7
  <2>2. \A t \in TokensOf(v) : reset[t].used
    BY <1>2, <2>1 DEF FreshSound, AllUsed
  <2>3. \A t \in TokensOf(v)' : t = new \/ reset'[t].used
    BY <1>3, <1>4, <1>5, <2>2 DEF TokensOf
  <2>4. Inserting(v)' = {}
    BY <1>1, <2>1 DEF Inserting
  <2> QED BY <2>3, <2>4
<1>8. OneGoodToken'
  BY <1>6, <1>7 DEF OneGoodToken
<1> QED BY <1>6, <1>7, <1>8 DEF FreshSound

LEMMA NextFresh == IInv /\ FreshSound /\ [Next]_vars => FreshSound'
<1> SUFFICES ASSUME IInv, FreshSound, [Next]_vars
             PROVE  FreshSound'
  OBVIOUS
<1>1. ASSUME UNCHANGED <<reset, crowded>>,
             \A r \in Requests : request'[r] = request[r] \/ request'[r] = Nil
      PROVE  FreshSound'
  BY <1>1, FreshFrame
<1>2. CASE UNCHANGED resets
  BY <1>1, <1>2 DEF resets
<1>3. ASSUME NEW r \in Requests, NEW u \in Users, RequestReads(r, u)
      PROVE  FreshSound'
  <2>1. /\ UNCHANGED <<reset, crowded>>
        /\ \A q \in Requests \ {r} : request'[q] = request[q]
        /\ request'[r].at = "invalidate"
    BY <1>3 DEF RequestReads, IInv, TypeOK
  <2>2. ASSUME NEW w \in Users
        PROVE  /\ TokensOf(w)' = TokensOf(w)
               /\ Inserting(w)' \subseteq Inserting(w)
    BY <2>1 DEF TokensOf, Inserting
  <2> QED BY <2>1, <2>2 DEF FreshSound, OneGoodToken, AllUsed
<1>4. ASSUME NEW r \in Requests, RequestFails(r)
      PROVE  FreshSound'
  BY <1>1, <1>4 DEF RequestFails, IInv, TypeOK
<1>5. ASSUME NEW r \in Requests, ConfirmMarks(r)
      PROVE  FreshSound'
  <2>1. /\ confirm[r] # Nil /\ confirm[r].token \in Tokens
        /\ reset[confirm[r].token] # Nil /\ reset[confirm[r].token] \in Reset
    BY <1>5 DEF ConfirmMarks, IInv, TypeOK, ConfirmState, ResetsSound
  <2>2. \A t \in Tokens :
          reset'[t] # Nil => /\ reset[t] # Nil
                             /\ reset'[t].user = reset[t].user
                             /\ reset[t].used => reset'[t].used
    BY <1>5, <2>1 DEF ConfirmMarks, IInv, TypeOK, Reset
  <2> QED BY <1>5, <2>2, FreshFrame DEF ConfirmMarks
<1>6. ASSUME NEW r \in Requests,
             \/ \E t \in Tokens, p \in Passwords : ConfirmReads(r, t, p)
             \/ ConfirmWrites(r) \/ ConfirmFails(r)
      PROVE  FreshSound'
  BY <1>1, <1>6 DEF ConfirmReads, ConfirmWrites, ConfirmFails
<1>7. ASSUME NEW r \in Requests,
             \/ \E j \in Jtis : AuthParses(r, j)
             \/ AuthChecks(r) \/ PassEnds(r) \/ Logout(r)
      PROVE  FreshSound'
  BY <1>2, <1>7 DEF AuthParses, AuthChecks, PassEnds, Logout
<1>8. ASSUME NEW u \in Users,
             \/ SoftDelete(u)
             \/ \E j \in Jtis : \/ LoginOtherwise(j, u)
                                \/ \E p \in Passwords : Login(j, u, p)
      PROVE  FreshSound'
  BY <1>2, <1>8 DEF SoftDelete, LoginOtherwise, Login, IssueJWT
<1>9. CASE Tick \/ UNCHANGED vars
  BY <1>2, <1>9 DEF Tick, vars
<1> QED
  BY <1>3, <1>4, <1>5, <1>6, <1>7, <1>8, <1>9, InvalidateKeepsFresh,
     CreateKeepsFresh DEF Next

\* Invalidating and inserting are two statements, and any of them may fail: an
\* account still has one good reset token at most, unless two requests for it
\* were between the two statements at the same time.
THEOREM FreshReplacesStale == Spec => []OneGoodToken
<1>1. Init => FreshSound
  BY DEF Init, FreshSound, OneGoodToken, TokensOf, Inserting
<1>2. FreshSound => OneGoodToken
  BY DEF FreshSound
<1> QED BY <1>1, <1>2, Invariance, NextFresh, PTL DEF Spec

-----------------------------------------------------------------------------
(* The other properties.                                                   *)

\* Redis keeps the key of a JWT that was logged out until the JWT expires.
THEOREM LoggedOutIsOut == Spec => []LoggedOutStaysOut
<1>1. IInv => LoggedOutStaysOut
  BY DEF IInv, SessionsSound
<1> QED BY <1>1, Invariance, PTL

\* Only ConfirmWrites changes a password, and a confirmation that was let in
\* came with a token that was not spent, since spent tokens are used.
THEOREM SpentTokensAreRejected == Spec => SpentTokensRejected
<1> DEFINE Allowed ==
      \A u \in Users :
        password'[u] # password[u] =>
          \E r \in Requests : /\ confirm[r] # Nil
                              /\ confirm[r].at = "write"
                              /\ reset[confirm[r].token].user = u
                              /\ ~confirm[r].late
<1>1. ASSUME IInv, Next
      PROVE  Allowed
  <2>1. ASSUME password' = password
        PROVE  Allowed
    BY <2>1
  <2>2. ASSUME NEW r \in Requests, ConfirmWrites(r)
        PROVE  Allowed
    <3>1. /\ confirm[r] # Nil /\ confirm[r].at = "write" /\ ~confirm[r].late
          /\ password' = [password EXCEPT ![reset[confirm[r].token].user] =
               confirm[r].password]
          /\ password \in [Users -> Passwords \cup {Nil}]
      BY <1>1, <2>2 DEF ConfirmWrites, IInv, ResetsSound, TypeOK
    <3> SUFFICES ASSUME NEW u \in Users, password'[u] # password[u]
                 PROVE  reset[confirm[r].token].user = u
      BY <3>1
    <3> QED BY <3>1
  <2>3. \/ password' = password
        \/ \E r \in Requests : ConfirmWrites(r)
    BY <1>1 DEF Next, Tick, SoftDelete, RequestReads, InvalidateAllForUser,
       CreateToken, RequestFails, ConfirmReads, ConfirmMarks, ConfirmFails,
       LoginOtherwise, Login, IssueJWT, AuthParses, AuthChecks, PassEnds,
       Logout, resets
  <2> QED BY <2>1, <2>2, <2>3
<1>2. ASSUME UNCHANGED vars
      PROVE  Allowed
  BY <1>2 DEF vars, resets
<1>3. IInv /\ [Next]_vars => [Allowed]_vars
  BY <1>1, <1>2
<1> QED BY <1>3, Invariance, PTL DEF Spec, SpentTokensRejected
=============================================================================
