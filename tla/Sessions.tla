------------------------------ MODULE Sessions ------------------------------
(***************************************************************************)
(* What lets a client in: JWTs, which live in no table and are revoked by  *)
(* a key in Redis that expires with them, and password reset tokens, of    *)
(* which the database keeps the hash.                                      *)
(*                                                                         *)
(* A request for a reset invalidates and inserts in two statements, a      *)
(* confirmation reads, writes the account and writes the token in three,   *)
(* and the middleware parses a JWT before it asks Redis; requests          *)
(* interleave at each of these steps, any of which may fail, and time      *)
(* passes between them.  One clock is assumed for all processes.           *)
(*                                                                         *)
(* A token stands for its hash as well; a password stands for its bcrypt   *)
(* hash.  How accounts come about is module Accounts.                      *)
(***************************************************************************)
EXTENDS Integers

CONSTANTS Users, Passwords,
          Jtis,      \* ids of JWTs (uuid.NewString: never given out twice)
          Tokens,    \* reset tokens (32 random bytes: neither are these)
          Requests,  \* bound: requests that may run at the same time
          JwtTTL,    \* config JWT.TTL
          Leeway,    \* what the parser adds to an expiry: 5 s
          ResetTTL,  \* how long a reset token is good for
          Nil,
          MaxTime    \* bound: the last moment

Jwt   == [user : Users, exp : Nat]
Reset == [user : Users, expires : Nat, used : BOOLEAN]

RequestState == [at : {"invalidate", "create"}, user : Users,
                 old : SUBSET Tokens]
ConfirmState == [at : {"write", "mark"}, token : Tokens,
                 password : Passwords, late : BOOLEAN]
PassState    == [at : {"check", "serve"}, jti : Jtis, out : BOOLEAN,
                 early : BOOLEAN, answered : BOOLEAN]

ASSUME SessionsAssumption ==
  /\ JwtTTL \in Nat \ {0} /\ Leeway \in Nat /\ ResetTTL \in Nat \ {0}
  /\ MaxTime \in Nat
  /\ Nil \notin Passwords
  /\ Nil \notin Jwt \cup Reset \cup RequestState \cup ConfirmState
                \cup PassState

VARIABLES now,
          live,     \* the accounts that are not deleted
          password, \* of an account; Nil: it only logs in with Google
          reset,    \* table password_reset_tokens; Nil: no row
          mailed,   \* reset tokens whose link has been published
          jwt,      \* the JWTs that have been signed
          revoked,  \* Redis: when the key of a JWT expires; 0: no key
          request,  \* RequestPasswordReset under way
          confirm,  \* ConfirmPasswordReset under way
          pass,     \* authenticated requests under way
          spent,    \* history: reset tokens a confirmation has used, or a
                    \* later request has replaced, and answered 204
          crowded,  \* history: accounts for which two overlapping requests have
                    \* inserted a reset token
          out       \* history: JWTs whose Logout was answered 204
resets   == <<password, reset, mailed, request, confirm, spent, crowded>>
sessions == <<jwt, revoked, pass, out>>
vars     == <<now, live, resets, sessions>>

Init ==
  /\ now = 0 /\ live = Users
  /\ password \in [Users -> Passwords \cup {Nil}]
  /\ reset = [t \in Tokens |-> Nil] /\ mailed = {}
  /\ jwt = [j \in Jtis |-> Nil] /\ revoked = [j \in Jtis |-> 0]
  /\ request = [r \in Requests |-> Nil]
  /\ confirm = [r \in Requests |-> Nil]
  /\ pass = [r \in Requests |-> Nil]
  /\ spent = {} /\ crowded = {} /\ out = {}

IsIdle(r) == request[r] = Nil /\ confirm[r] = Nil /\ pass[r] = Nil

Tick == /\ now < MaxTime
        /\ now' = now + 1
        /\ UNCHANGED live /\ UNCHANGED resets /\ UNCHANGED sessions

\* DeleteUser: the account's JWTs stay good.
SoftDelete(u) == /\ u \in live
                 /\ live' = live \ {u}
                 /\ UNCHANGED now /\ UNCHANGED resets /\ UNCHANGED sessions
-----------------------------------------------------------------------------
(* RequestPasswordReset.                                                   *)

TokensOf(u) == {t \in Tokens : reset[t] # Nil /\ reset[t].user = u}

\* An unknown or deleted account is answered 204 as well, and no more.
\* old: the tokens this request is going to replace.
RequestReads(r, u) ==
  /\ IsIdle(r)
  /\ u \in live
  /\ request' = [request EXCEPT ![r] =
       [at |-> "invalidate", user |-> u, old |-> TokensOf(u)]]
  /\ UNCHANGED <<password, reset, mailed, confirm, spent, crowded>>
  /\ UNCHANGED <<now, live>> /\ UNCHANGED sessions

\* Mutant: an unused token is left alone if it is still good.
InvalidateAllForUser_Expired(r) ==
  /\ request[r] # Nil
  /\ request[r].at = "invalidate"
  /\ reset' = [t \in Tokens |->
       IF t \in TokensOf(request[r].user) /\ reset[t].expires <= now
       THEN [reset[t] EXCEPT !.used = TRUE] ELSE reset[t]]
  /\ request' = [request EXCEPT ![r].at = "create"]
  /\ UNCHANGED <<password, mailed, confirm, spent, crowded>>
  /\ UNCHANGED <<now, live>> /\ UNCHANGED sessions

InvalidateAllForUser(r) ==
  /\ request[r] # Nil
  /\ request[r].at = "invalidate"
  /\ reset' = [t \in Tokens |->
       IF t \in TokensOf(request[r].user)
       THEN [reset[t] EXCEPT !.used = TRUE] ELSE reset[t]]
  /\ request' = [request EXCEPT ![r].at = "create"]
  /\ UNCHANGED <<password, mailed, confirm, spent, crowded>>
  /\ UNCHANGED <<now, live>> /\ UNCHANGED sessions

\* The requests of an account between their two statements.
Inserting(u) == {q \in Requests : /\ request[q] # Nil
                                  /\ request[q].at = "create"
                                  /\ request[q].user = u}

\* The link is published after the insert, or not at all: the answer is 204.
CreateToken(r) ==
  /\ request[r] # Nil
  /\ request[r].at = "create"
  /\ \E t \in Tokens :
       /\ reset[t] = Nil
       /\ reset' = [reset EXCEPT ![t] =
            [user |-> request[r].user, expires |-> now + ResetTTL,
             used |-> FALSE]]
       /\ mailed' \in {mailed, mailed \cup {t}}
  /\ spent' = spent \cup request[r].old
  /\ LET u == request[r].user IN
     crowded' = IF Inserting(u) = {r} THEN crowded ELSE crowded \cup {u}
  /\ request' = [request EXCEPT ![r] = Nil]
  /\ UNCHANGED <<password, confirm>>
  /\ UNCHANGED <<now, live>> /\ UNCHANGED sessions

RequestFails(r) ==
  /\ request[r] # Nil
  /\ request' = [request EXCEPT ![r] = Nil]
  /\ UNCHANGED <<password, reset, mailed, confirm, spent, crowded>>
  /\ UNCHANGED <<now, live>> /\ UNCHANGED sessions
-----------------------------------------------------------------------------
(* ConfirmPasswordReset.                                                   *)

\* GetByHash: the row must be unused and not expired.  late: the token was
\* spent before the confirmation came.
ConfirmReads(r, t, p) ==
  /\ IsIdle(r)
  /\ t \in mailed
  /\ ~reset[t].used
  /\ reset[t].expires > now
  /\ confirm' = [confirm EXCEPT ![r] =
       [at |-> "write", token |-> t, password |-> p, late |-> t \in spent]]
  /\ UNCHANGED <<password, reset, mailed, request, spent, crowded>>
  /\ UNCHANGED <<now, live>> /\ UNCHANGED sessions

\* ResetPassword: the password comes first, and no other request knows.
ConfirmWrites(r) ==
  /\ confirm[r] # Nil
  /\ confirm[r].at = "write"
  /\ LET u == reset[confirm[r].token].user IN
     /\ u \in live
     /\ password' = [password EXCEPT ![u] = confirm[r].password]
  /\ confirm' = [confirm EXCEPT ![r].at = "mark"]
  /\ UNCHANGED <<reset, mailed, request, spent, crowded>>
  /\ UNCHANGED <<now, live>> /\ UNCHANGED sessions

\* MarkUsed; that the token is used by now is tolerated.
ConfirmMarks(r) ==
  /\ confirm[r] # Nil
  /\ confirm[r].at = "mark"
  /\ reset' = [reset EXCEPT ![confirm[r].token].used = TRUE]
  /\ spent' = spent \cup {confirm[r].token}
  /\ confirm' = [confirm EXCEPT ![r] = Nil]
  /\ UNCHANGED <<password, mailed, request, crowded>>
  /\ UNCHANGED <<now, live>> /\ UNCHANGED sessions

\* The account is gone, or the database does not answer.
ConfirmFails(r) ==
  /\ confirm[r] # Nil
  /\ confirm' = [confirm EXCEPT ![r] = Nil]
  /\ UNCHANGED <<password, reset, mailed, request, spent, crowded>>
  /\ UNCHANGED <<now, live>> /\ UNCHANGED sessions
-----------------------------------------------------------------------------
(* JWTs.                                                                   *)

IssueJWT(j, u) ==
  /\ u \in live
  /\ jwt[j] = Nil
  /\ jwt' = [jwt EXCEPT ![j] = [user |-> u, exp |-> now + JwtTTL]]
  /\ UNCHANGED <<revoked, pass, out>>
  /\ UNCHANGED <<now, live>> /\ UNCHANGED resets

\* auth.Login: accounts without a password cannot.
Login(j, u, p) == password[u] = p /\ IssueJWT(j, u)

\* Register and VerifyAndLogin.
LoginOtherwise(j, u) == IssueJWT(j, u)

\* ParseJWT: WithLeeway.
Parses(j) == jwt[j] # Nil /\ now < jwt[j].exp + Leeway

\* JWTAuth: the token is parsed ...
AuthParses(r, j) ==
  /\ IsIdle(r)
  /\ Parses(j)
  /\ pass' = [pass EXCEPT ![r] =
       [at |-> "check", jti |-> j, out |-> FALSE, early |-> FALSE,
        answered |-> FALSE]]
  /\ UNCHANGED <<jwt, revoked, out>>
  /\ UNCHANGED <<now, live>> /\ UNCHANGED resets

\* ... and let in unless Redis answers that it is revoked.
\* out, early: logged out by now, expired only later.
AuthChecks(r) ==
  /\ pass[r] # Nil
  /\ pass[r].at = "check"
  /\ LET j == pass[r].jti IN
     \E answered \in BOOLEAN :
       /\ answered => ~(now < revoked[j])
       /\ pass' = [pass EXCEPT ![r] =
            [at |-> "serve", jti |-> j, out |-> j \in out,
             early |-> now < jwt[j].exp, answered |-> answered]]
  /\ UNCHANGED <<jwt, revoked, out>>
  /\ UNCHANGED <<now, live>> /\ UNCHANGED resets

\* Rejected, failed, or served by any handler but Logout.
PassEnds(r) ==
  /\ pass[r] # Nil
  /\ pass' = [pass EXCEPT ![r] = Nil]
  /\ UNCHANGED <<jwt, revoked, out>>
  /\ UNCHANGED <<now, live>> /\ UNCHANGED resets

\* Mutant: the parser's leeway is taken off the life of the key.
Logout_LessLeeway(r) ==
  /\ pass[r] # Nil
  /\ pass[r].at = "serve"
  /\ LET j == pass[r].jti IN
     /\ Parses(j)
     /\ revoked' = IF now < jwt[j].exp - Leeway
                   THEN [revoked EXCEPT ![j] = jwt[j].exp - Leeway]
                   ELSE revoked
     /\ out' = out \cup {j}
  /\ pass' = [pass EXCEPT ![r] = Nil]
  /\ UNCHANGED jwt /\ UNCHANGED <<now, live>> /\ UNCHANGED resets

\* auth.Logout parses once more; a JWT that has expired, though the leeway
\* still lets it in, is not revoked, and the answer is 204.
Logout(r) ==
  /\ pass[r] # Nil
  /\ pass[r].at = "serve"
  /\ LET j == pass[r].jti IN
     /\ Parses(j)
     /\ revoked' = IF now < jwt[j].exp
                   THEN [revoked EXCEPT ![j] = jwt[j].exp] ELSE revoked
     /\ out' = out \cup {j}
  /\ pass' = [pass EXCEPT ![r] = Nil]
  /\ UNCHANGED jwt /\ UNCHANGED <<now, live>> /\ UNCHANGED resets

Next ==
  \/ Tick
  \/ \E u \in Users :
       \/ SoftDelete(u)
       \/ \E r \in Requests : RequestReads(r, u)
       \/ \E j \in Jtis : \/ LoginOtherwise(j, u)
                          \/ \E p \in Passwords : Login(j, u, p)
  \/ \E r \in Requests :
       \/ InvalidateAllForUser(r) \/ CreateToken(r) \/ RequestFails(r)
       \/ \E t \in Tokens, p \in Passwords : ConfirmReads(r, t, p)
       \/ ConfirmWrites(r) \/ ConfirmMarks(r) \/ ConfirmFails(r)
       \/ \E j \in Jtis : AuthParses(r, j)
       \/ AuthChecks(r) \/ PassEnds(r) \/ Logout(r)

Spec == Init /\ [][Next]_vars
-----------------------------------------------------------------------------
(* Properties.                                                             *)

TypeOK ==
  /\ now \in Nat /\ live \subseteq Users
  /\ password \in [Users -> Passwords \cup {Nil}]
  /\ reset \in [Tokens -> Reset \cup {Nil}] /\ mailed \subseteq Tokens
  /\ jwt \in [Jtis -> Jwt \cup {Nil}] /\ revoked \in [Jtis -> Nat]
  /\ request \in [Requests -> RequestState \cup {Nil}]
  /\ confirm \in [Requests -> ConfirmState \cup {Nil}]
  /\ pass \in [Requests -> PassState \cup {Nil}]
  /\ spent \subseteq Tokens /\ crowded \subseteq Users /\ out \subseteq Jtis

\* A fresh token always replaces stale ones: a password changes only through
\* a confirmation with a token of the same account that nobody had used and
\* no later request had replaced when the confirmation came.  Requests that
\* overlap can leave several good tokens, and confirmations that overlap can
\* use one twice.
SpentTokensRejected ==
  [][\A u \in Users :
       password'[u] # password[u] =>
         \E r \in Requests : /\ confirm[r] # Nil
                             /\ confirm[r].at = "write"
                             /\ reset[confirm[r].token].user = u
                             /\ ~confirm[r].late]_vars

\* InvalidateAllForUser, "to ensure a fresh token always replaces stale ones":
\* an account has one good token at most, however requests fail between their
\* statements and confirmations race with them, unless two requests for it were
\* between their statements at the same time.
OneGoodToken ==
  \A u \in Users \ crowded :
    \A s, t \in TokensOf(u) : ~reset[s].used /\ ~reset[t].used => s = t

\* Logout: until it would have expired, a JWT that was logged out is let in
\* only when Redis did not answer (the middleware fails open).  After that
\* the key is gone while the parser's leeway still lets it in.
LoggedOutStaysOut ==
  \A r \in Requests :
    /\ pass[r] # Nil
    /\ pass[r].at = "serve"
    /\ pass[r].out /\ pass[r].early
    => ~pass[r].answered
=============================================================================
