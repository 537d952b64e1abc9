------------------------------ MODULE Sessions ------------------------------
(***************************************************************************)
(* Tokens and the requests that bring them: libs/token, the use cases      *)
(* user-login, user-refresh-token and user-logout, the Google callback,    *)
(* and the middleware and guard in front of every other controller.        *)
(*                                                                         *)
(* A request runs in steps, one per round trip to Redis, to PostgreSQL or  *)
(* to Google; the clock may advance between two of them, and what happens  *)
(* in the process after a round trip is part of the step that follows.     *)
(* The middleware hands a refusal to Express (next(error)) and goes on:    *)
(* the request is answered and its middleware still runs.                  *)
(***************************************************************************)
EXTENDS Naturals

CONSTANTS
  User, Nobody,          \* user ids, and the claim of a token without one
  Caller,                \* requests in flight at the same time, at most
  Second,                \* milliseconds in a second, coarsened to a few
  Lifetime,              \* TOKEN_EXPIRATION, in milliseconds
  MaxTime, MaxRequests,  \* bounds on the clock and on the requests
  FirstTokens            \* tokens in circulation when the process starts

(* What a token says: its claims and its expiry in seconds.  Signing is    *)
(* deterministic: the same claims signed in one second are the same token. *)
Claim == {"id", "userId", "none"}
Token == [claim : Claim, user : User \cup {Nobody}, exp : Nat]
Garbage == [claim |-> "none", user |-> Nobody, exp |-> 0]   \* a header no one signed

ASSUME ConstantsAssumption ==
  /\ Nobody \notin User
  /\ Second \in Nat \ {0} /\ Lifetime \in Nat
  /\ MaxTime \in Nat /\ MaxRequests \in Nat
  /\ FirstTokens \subseteq Token
  /\ \A t \in FirstTokens :
       (t.claim # "none" => t.user \in User) /\ t.exp <= Lifetime \div Second

VARIABLES
  now,         \* Date.now(), in milliseconds
  setting,     \* TOKEN_EXPIRATION is "digits" or has a "unit", as in .env
  standing,    \* what the tables say of each user
  tokens,      \* the tokens in circulation
  cache,       \* Redis: until when each token ever logged out is remembered
  req,         \* the requests in flight
  requests     \* how many requests have started

vars == <<now, setting, standing, tokens, cache, req, requests>>
Environment == <<now, setting, standing>>

(* deleted: the row is soft-deleted; roleless: none of the account's roles *)
(* is live; refused, permitted: what the guard will find for the handler.  *)
Standing == {"deleted", "roleless", "refused", "permitted"}

Step == {"idle", "lookup", "verify", "guard", "handler", "set", "refresh", "user", "sign", "google"}
(* A refusal is a 400, 401, 403 or 404, a failure a 408 or 500; logout,    *)
(* which answers 401 when all is well, is done all the same.               *)
Answer == {"none", "done", "refused", "failed"}

(* late and orphan are history: the token had been logged out when Redis   *)
(* was asked; the user it names has been deleted since before the request  *)
(* started.                                                                *)
Idle == [op |-> "none", step |-> "idle", answer |-> "none", next |-> "open",
         token |-> Garbage, body |-> Garbage, late |-> FALSE, orphan |-> FALSE]

Busy(c) == req[c].step # "idle"
Answered(code) == [Idle EXCEPT !.answer = code]
Proceeding(c, q) == req' = [req EXCEPT ![c] = q]

(* The end of a request whose handler may have been given up by the timer: *)
(* the first answer is the one that stands.                                *)
Ended(q, code) == Answered(IF q.answer = "none" THEN code ELSE q.answer)

----------------------------------------------------------------------------
(* Signing, verifying and remembering tokens.                              *)

Seconds(t) == t \div Second

(* Fault: the setting is taken for a number of seconds.                    *)
SignedForSeconds(claim, u) ==
  [claim |-> claim, user |-> u, exp |-> Seconds(now) + Lifetime]

(* jwt.sign: iat is cut to a second, and so is the lifetime.               *)
Signed(claim, u) == [claim |-> claim, user |-> u, exp |-> Seconds(now) + Seconds(Lifetime)]

Accepted(t) == Seconds(now) < t.exp

(* The key is gone from Redis when its PX milliseconds are over.           *)
LoggedOut == DOMAIN cache
Remembered(t) == t \in LoggedOut /\ now < cache[t]
Remember(t, until) ==
  cache' = [s \in LoggedOut \cup {t} |-> IF s = t THEN until ELSE cache[s]]

----------------------------------------------------------------------------
(* A request for a guarded controller.                                     *)

Begin(c, q) ==
  /\ ~Busy(c)
  /\ requests < MaxRequests
  /\ req' = [req EXCEPT ![c] = q]
  /\ requests' = requests + 1
  /\ UNCHANGED <<Environment, tokens, cache>>

Presented == tokens \cup {Garbage}
Orphan(t) == t.user # Nobody /\ standing[t.user] = "deleted"

CallWithoutToken(c) == Begin(c, Answered("refused"))

StartCall(c) ==
  \E t \in Presented :
    Begin(c, [Idle EXCEPT !.op = "call", !.step = "lookup", !.token = t, !.orphan = Orphan(t)])

StartLogout(c) ==
  \E t \in Presented, b \in tokens :
    Begin(c, [Idle EXCEPT !.op = "logout", !.step = "lookup", !.token = t, !.body = b,
                          !.orphan = Orphan(t)])

(* Fault: the refusal is answered, not handed to next.                     *)
AnsweredDirectly(q) == [q EXCEPT !.answer = IF q.next = "open" THEN "refused" ELSE @]

(* next(error): Express skips to the exception filter, which answers, and  *)
(* its cursor is then at the end: what next is told later goes nowhere.    *)
Refuse(q) ==
  IF q.next = "open" THEN [q EXCEPT !.answer = "refused", !.next = "closed"] ELSE q

(* Redis evaluates the get; its answer reaches the process later.          *)
Lookup(c) ==
  LET q == [req[c] EXCEPT !.step = "verify", !.late = req[c].token \in LoggedOut] IN
  /\ req[c].step = "lookup"
  /\ req' = [req EXCEPT ![c] = IF Remembered(q.token) THEN Refuse(q) ELSE q]
  /\ UNCHANGED <<Environment, tokens, cache, requests>>

(* Fault: a token that is refused ends the middleware without next.        *)
VerifySilently(c) ==
  LET q == req[c] IN
  /\ q.step = "verify"
  /\ req' = [req EXCEPT ![c] =
       IF q.next = "open" /\ Accepted(q.token) THEN [q EXCEPT !.step = "guard"]
       ELSE Answered(q.answer)]
  /\ UNCHANGED <<Environment, tokens, cache, requests>>

(* verify and then next(), whatever was refused before.                    *)
Verify(c) ==
  LET q == IF Accepted(req[c].token) THEN req[c] ELSE Refuse(req[c]) IN
  /\ req[c].step = "verify"
  /\ Proceeding(c, IF q.next = "open" THEN [q EXCEPT !.step = "guard"] ELSE Answered(q.answer))
  /\ UNCHANGED <<Environment, tokens, cache, requests>>

(* A token that names no user is refused before the query.                 *)
Guard(c) ==
  LET q == req[c] IN
  /\ q.step = "guard"
  /\ Proceeding(c,
       IF q.token.claim = "id" /\ standing[q.token.user] = "permitted"
         THEN [q EXCEPT !.step = "handler"]
         ELSE Answered("refused"))
  /\ UNCHANGED <<Environment, tokens, cache, requests>>

Handle(c) ==
  LET q == req[c] IN
  /\ q.step = "handler"
  /\ Proceeding(c, IF q.op = "logout" THEN [q EXCEPT !.step = "set"] ELSE Answered("done"))
  /\ UNCHANGED <<Environment, tokens, cache, requests>>

(* Fault: the entry is kept for a number of seconds.                       *)
SetRevokedInSeconds(c) ==
  /\ req[c].step = "set" /\ setting = "digits"
  /\ Remember(req[c].body, now + Seconds(Lifetime))
  /\ Proceeding(c, Ended(req[c], "done"))
  /\ UNCHANGED <<Environment, tokens, requests>>

(* set(token, token, {PX}).  Redis takes digits only; the controller       *)
(* answers 401 when all is well.                                           *)
SetRevoked(c) ==
  LET q == req[c] IN
  /\ q.step = "set"
  /\ IF setting = "digits"
       THEN /\ Remember(q.body, now + Lifetime)
            /\ Proceeding(c, Ended(q, "done"))
       ELSE /\ Proceeding(c, Ended(q, "failed"))
            /\ UNCHANGED cache
  /\ UNCHANGED <<Environment, tokens, requests>>

----------------------------------------------------------------------------
(* Signing in and renewing; no middleware, no guard.                       *)

(* The password relation is not loaded, so the login of every user found   *)
(* ends in a TypeError and signs nothing.                                  *)
StartLogin(c) ==
  \E u \in User :
    Begin(c, [Idle EXCEPT !.op = "login", !.step = "user", !.token.user = u])

StartRefresh(c) ==
  \E t \in Presented :
    Begin(c, [Idle EXCEPT !.op = "refresh", !.step = "refresh", !.token = t, !.orphan = Orphan(t)])

VerifyRefresh(c) ==
  LET q == req[c] IN
  /\ q.step = "refresh"
  /\ Proceeding(c, IF ~Accepted(q.token) THEN Answered("refused")
                   ELSE IF q.token.claim # "userId" THEN Answered("refused")
                   ELSE [q EXCEPT !.step = "user"])
  /\ UNCHANGED <<Environment, tokens, cache, requests>>

(* Fault: findOne returns soft-deleted users.                              *)
StoredUser(u) == standing[u] # "roleless"

(* A user, and an account with a role on it.                               *)
CanSignIn(u) == standing[u] \notin {"deleted", "roleless"}

FindUser(c) ==
  LET q == req[c] IN
  /\ q.step = "user"
  /\ Proceeding(c, IF ~CanSignIn(q.token.user) THEN Ended(q, "refused")
                   ELSE IF q.op = "login" THEN Ended(q, "failed")
                   ELSE [q EXCEPT !.step = "sign"])
  /\ UNCHANGED <<Environment, tokens, cache, requests>>

Sign(c) ==
  LET q == req[c] IN
  /\ q.step = "sign"
  /\ tokens' = tokens \cup {Signed("id", q.token.user), Signed("userId", q.token.user)}
  /\ Proceeding(c, Ended(req[c], "done"))
  /\ UNCHANGED <<Environment, cache, requests>>

(* The callback: two calls to Google, one query; it redirects to the page  *)
(* for a new password with a token that names no user.                     *)
StartGoogle(c) == Begin(c, [Idle EXCEPT !.op = "google", !.step = "google"])

RedirectGoogle(c) ==
  /\ req[c].step = "google"
  /\ tokens' = tokens \cup {Signed("none", Nobody)}
  /\ Proceeding(c, Ended(req[c], "done"))
  /\ UNCHANGED <<Environment, cache, requests>>

----------------------------------------------------------------------------
(* What may happen between two steps.                                      *)

(* Redis, PostgreSQL or Google fails the round trip.  The middleware does  *)
(* not touch Redis again once it has been refused.                         *)
Fails(c) ==
  /\ req[c].step \in {"lookup", "guard", "set", "user", "google"}
  /\ Proceeding(c, Ended(req[c], "failed"))
  /\ UNCHANGED <<Environment, tokens, cache, requests>>

(* The interceptor around every handler, and around nothing before it,     *)
(* gives up waiting and answers 408; the handler goes on.                  *)
TimesOut(c) ==
  /\ req[c].step \in {"set", "user", "sign", "google"}
  /\ req[c].answer = "none"
  /\ Proceeding(c, [req[c] EXCEPT !.answer = "failed"])
  /\ UNCHANGED <<Environment, tokens, cache, requests>>

Tick ==
  /\ now < MaxTime
  /\ now' = now + 1
  /\ UNCHANGED <<setting, standing, tokens, cache, req, requests>>

(* user-delete, the changes of roles and grants of AccessControl, and the  *)
(* saves of a user read before its deletion (user-update, and the reset    *)
(* that saves the whole user with its row), which revive it.               *)
StandingChanges(u) ==
  /\ \E s \in Standing \ {standing[u]} : standing' = [standing EXCEPT ![u] = s]
  /\ req' = [c \in Caller |-> [req[c] EXCEPT !.orphan = @ /\ req[c].token.user # u]]
  /\ UNCHANGED <<now, setting, tokens, cache, requests>>

Init ==
  /\ now = 0
  /\ setting \in {"digits", "unit"}
  /\ standing = [u \in User |-> "permitted"]
  /\ tokens = FirstTokens
  /\ cache = [t \in {} |-> 0]
  /\ req = [c \in Caller |-> Idle]
  /\ requests = 0

Start(c) ==
  \/ CallWithoutToken(c) \/ StartCall(c) \/ StartLogout(c)
  \/ StartLogin(c) \/ StartRefresh(c) \/ StartGoogle(c)
RoundTrip(c) ==
  \/ Lookup(c) \/ Guard(c) \/ SetRevoked(c) \/ FindUser(c) \/ RedirectGoogle(c) \/ Fails(c)
Resume(c) == Verify(c) \/ Handle(c) \/ VerifyRefresh(c) \/ Sign(c)
Proceed(c) == RoundTrip(c) \/ Resume(c) \/ TimesOut(c)

Next ==
  \/ \E c \in Caller : Start(c) \/ Proceed(c)
  \/ Tick
  \/ \E u \in User : StandingChanges(u)

(* Fairness: what has come back to the process is run by the event loop,   *)
(* and a timer that is due fires.  A round trip may never end: the client  *)
(* of Redis queues commands while it is offline and no command or query    *)
(* has a time limit of its own.                                            *)
Spec == Init /\ [][Next]_vars /\ \A c \in Caller : WF_vars(Resume(c)) /\ WF_vars(TimesOut(c))

----------------------------------------------------------------------------
(* Types.                                                                  *)

Request == [op : {"none", "call", "logout", "login", "refresh", "google"},
            step : Step, answer : Answer, next : {"open", "closed"},
            token : Token, body : Token,
            late : BOOLEAN, orphan : BOOLEAN]

(* Every variable keeps its type, and a guard or a query is reached only   *)
(* with a token that names a user or is about to be refused.               *)
TypeOK ==
  /\ now \in 0..MaxTime
  /\ setting \in {"digits", "unit"}
  /\ standing \in [User -> Standing]
  /\ tokens \subseteq Token
  /\ \A t \in tokens : t.claim # "none" => t.user \in User
  /\ LoggedOut \subseteq Token /\ cache \in [LoggedOut -> Nat]
  /\ req \in [Caller -> Request]
  /\ \A c \in Caller :
       /\ req[c].token.claim # "none" => req[c].token.user \in User
       /\ req[c].step \in {"user", "sign"} => req[c].token.user \in User
  /\ requests \in 0..MaxRequests

----------------------------------------------------------------------------
(* Properties.                                                             *)

(* RevokedIsRefused: a request whose token had been logged out when Redis  *)
(* was asked never reaches its handler: while the token is accepted Redis  *)
(* still remembers it, although one setting is cut to seconds by jwt.sign  *)
(* and taken in milliseconds by PX (user-logout.ts, libs/token/service.ts, *)
(* authentication.middleware.ts).                                          *)
RevokedIsRefused ==
  \A c \in Caller : req[c].late => req[c].step \notin {"guard", "handler", "set"}

(* RefusedIsNotHandled: a handler never runs for a request that has been   *)
(* refused, although the middleware calls next() once more after handing   *)
(* the refusal over (authentication.middleware.ts:45-60); of a request in  *)
(* flight only a handler the timer gave up has been answered otherwise.    *)
RefusedIsNotHandled ==
  \A c \in Caller : Busy(c) /\ req[c].answer # "none" =>
    IF req[c].answer = "refused" THEN req[c].step = "verify" /\ req[c].next = "closed"
    ELSE req[c].step \in {"set", "user", "sign", "google"}

(* DeletedUsersAreOut: a request that starts after its user was deleted    *)
(* runs no handler and renews no token for as long as the user stays       *)
(* deleted, whatever tokens the user holds and however long they live      *)
(* (guard, user-refresh-token.ts).  A deletion may be undone by a save of  *)
(* the user as it was (user-update.ts:35, schemas/reset-password.ts:23):   *)
(* the tokens of the user, never revoked, are then good again.             *)
DeletedUsersAreOut ==
  \A c \in Caller : req[c].orphan => req[c].step \notin {"handler", "set", "sign"}

(* IInv: the inductive strengthening.  No token outlives a token signed    *)
(* now, an entry is kept for as long as a token signed now lives, and what *)
(* each request has passed follows from what its token is.                 *)
Lates ==
  \A c \in Caller : req[c].late =>
    /\ req[c].token \in LoggedOut
    /\ req[c].step = "verify"
    /\ Accepted(req[c].token) => req[c].next = "closed"
Orphans ==
  \A c \in Caller : req[c].orphan =>
    /\ Orphan(req[c].token)
    /\ req[c].step \notin {"handler", "set", "sign"}
IInv ==
  /\ TypeOK
  /\ \A t \in tokens : t.exp * Second <= now + Lifetime
  /\ \A c \in Caller : req[c].body.exp * Second <= now + Lifetime
  /\ \A t \in LoggedOut : t.exp * Second <= cache[t]
  /\ Lates /\ Orphans /\ RefusedIsNotHandled

(* AnsweredUnlessItHangs: a request that starts is answered, by its        *)
(* handler or by the timer, or it waits for ever for the middleware's      *)
(* lookup in Redis or the guard's query, which no timer covers             *)
(* (authentication.middleware.ts:41, authorization.guard.ts:38).           *)
AnsweredUnlessItHangs ==
  \A c \in Caller :
    Busy(c) ~> (req[c].answer # "none" \/ [](req[c].step \in {"lookup", "guard"}))
=============================================================================
