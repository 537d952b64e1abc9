-------------------------- MODULE Sessions_proofs --------------------------
(***************************************************************************)
(* In every behaviour of Sessions, for any users, requests, lifetimes and  *)
(* clocks, no token outlives its entry in Redis, and what a request has    *)
(* passed follows from what its token is.  IInv is inductive.  It is a     *)
(* fact about the tables and one about every request (Sound); most actions *)
(* only replace a request and share the lemma RequestAdvances.             *)
(***************************************************************************)
EXTENDS Sessions, TLAPS

LEMMA Division ==
  ASSUME NEW t \in Nat, NEW s \in Nat \ {0}
  PROVE  t \div s \in Nat /\ (t \div s) * s <= t /\ t < (t \div s) * s + s
OBVIOUS

LEMMA DivisionGrows ==
  ASSUME NEW t \in Nat, NEW s \in Nat \ {0}
  PROVE  t \div s <= (t + 1) \div s
<1> DEFINE a == t \div s
           b == (t + 1) \div s
<1>1. a \in Nat /\ b \in Nat /\ a * s <= t /\ t + 1 < b * s + s
  BY Division
<1>2. a * s < (b + 1) * s
  BY <1>1
<1>3. a < b + 1
  BY <1>1, <1>2
<1> QED BY <1>1, <1>3

LEMMA DivisionReaches ==
  ASSUME NEW t \in Nat, NEW s \in Nat \ {0}, NEW e \in Nat, e * s <= t
  PROVE  e <= t \div s
<1> DEFINE a == t \div s
<1>1. a \in Nat /\ t < a * s + s
  BY Division
<1>2. e * s < (a + 1) * s
  BY <1>1
<1>3. e < a + 1
  BY <1>1, <1>2
<1> QED BY <1>1, <1>3

(* What IInv says of one request, and of everything else. *)
Sound(q) ==
  /\ q \in Request
  /\ q.token.claim # "none" => q.token.user \in User
  /\ q.step \in {"user", "sign"} => q.token.user \in User
  /\ q.body.exp * Second <= now + Lifetime
  /\ q.late => /\ q.token \in LoggedOut
               /\ q.step = "verify"
               /\ Accepted(q.token) => q.next = "closed"
  /\ q.orphan => Orphan(q.token) /\ q.step \notin {"handler", "set", "sign"}
  /\ q.step # "idle" /\ q.answer # "none" =>
       IF q.answer = "refused" THEN q.step = "verify" /\ q.next = "closed"
       ELSE q.step \in {"set", "user", "sign", "google"}
Tables ==
  /\ now \in 0..MaxTime
  /\ setting \in {"digits", "unit"}
  /\ standing \in [User -> Standing]
  /\ tokens \subseteq Token
  /\ \A t \in tokens : t.claim # "none" => t.user \in User
  /\ \A t \in tokens : t.exp * Second <= now + Lifetime
  /\ LoggedOut \subseteq Token /\ cache \in [LoggedOut -> Nat]
  /\ \A t \in LoggedOut : t.exp * Second <= cache[t]
  /\ requests \in 0..MaxRequests

LEMMA Split == IInv <=> Tables /\ req \in [Caller -> Request] /\ \A c \in Caller : Sound(req[c])
<1>1. IInv => Tables /\ req \in [Caller -> Request]
  BY DEF IInv, TypeOK, Tables
<1>2. ASSUME IInv, NEW c \in Caller PROVE Sound(req[c])
  BY <1>2 DEF IInv, TypeOK, Lates, Orphans, RefusedIsNotHandled, Busy, Sound
<1>3. ASSUME Tables, req \in [Caller -> Request], \A c \in Caller : Sound(req[c])
      PROVE  IInv
  <2>1. TypeOK
    BY <1>3 DEF TypeOK, Tables, Sound
  <2>2. Lates /\ Orphans /\ RefusedIsNotHandled
    BY <1>3 DEF Lates, Orphans, RefusedIsNotHandled, Busy, Sound
  <2> QED BY <1>3, <2>1, <2>2 DEF IInv, Tables, Sound
<1> QED BY <1>1, <1>2, <1>3

LEMMA GarbageFacts ==
  /\ Garbage \in Token /\ Garbage.claim = "none" /\ Garbage.user = Nobody
  /\ Garbage.exp = 0
BY DEF Garbage, Token, Claim

LEMMA IdleFacts ==
  /\ Idle \in Request
  /\ Idle.token = Garbage /\ Idle.body = Garbage /\ Idle.step = "idle"
  /\ Idle.late = FALSE /\ Idle.orphan = FALSE /\ Idle.answer = "none" /\ Idle.next = "open"
BY GarbageFacts DEF Idle, Request, Step, Answer

(* A request that has been answered is sound whatever it was. *)
LEMMA AnsweredIsSound ==
  ASSUME Tables, NEW code \in Answer
  PROVE  Sound(Answered(code))
<1>1. 0 * Second <= now + Lifetime
  BY ConstantsAssumption DEF Tables
<1> QED BY <1>1, IdleFacts, GarbageFacts DEF Sound, Answered, Idle, Request, Answer, Step

(* So is one that ends with the answer it was given first, or with this one. *)
LEMMA EndedIsSound ==
  ASSUME Tables, NEW r \in Request, NEW code \in Answer
  PROVE  Sound(Ended(r, code))
<1>1. (IF r.answer = "none" THEN code ELSE r.answer) \in Answer
  BY DEF Request
<1> QED BY <1>1, AnsweredIsSound DEF Ended

(* A step that replaces one request by a sound one, lets no token outlive  *)
(* its lifetime and leaves clock, users and Redis alone keeps IInv.        *)
LEMMA RequestAdvances ==
  ASSUME IInv, NEW c \in Caller, NEW q, Sound(q),
         req' = [req EXCEPT ![c] = q],
         tokens \subseteq tokens', tokens' \subseteq Token,
         \A t \in tokens' : t.claim # "none" => t.user \in User,
         \A t \in tokens' : t.exp * Second <= now + Lifetime,
         requests' \in 0..MaxRequests,
         UNCHANGED <<now, setting, standing, cache>>
  PROVE  IInv'
<1>1. Tables /\ req \in [Caller -> Request] /\ \A d \in Caller : Sound(req[d])
  BY Split
<1>2. Tables'
  BY <1>1 DEF Tables, LoggedOut
<1>3. req' \in [Caller -> Request]
  BY <1>1 DEF Sound
<1>4. ASSUME NEW p, Sound(p) PROVE Sound(p)'
  BY <1>4 DEF Sound, LoggedOut, Accepted, Seconds, Orphan
<1>5. \A d \in Caller : Sound(req'[d])
  BY <1>1
<1>6. \A d \in Caller : Sound(req[d])'
  BY <1>5, <1>4 DEF Sound, LoggedOut, Accepted, Seconds, Orphan
<1>7. TypeOK'
  BY <1>2, <1>3, <1>6 DEF TypeOK, Tables, Sound
<1>8. (Lates /\ Orphans /\ RefusedIsNotHandled)'
  BY <1>3, <1>6 DEF Lates, Orphans, RefusedIsNotHandled, Busy, Sound
<1> QED BY <1>2, <1>6, <1>7, <1>8 DEF IInv, Tables, Sound

(* The common case: the tokens are those there were. *)
LEMMA RequestMoves ==
  ASSUME IInv, NEW c \in Caller, NEW q, Sound(q), Proceeding(c, q),
         UNCHANGED <<Environment, tokens, cache, requests>>
  PROVE  IInv'
BY RequestAdvances DEF IInv, TypeOK, Proceeding, Environment

LEMMA InitIInv == Init => IInv
<1> SUFFICES ASSUME Init PROVE IInv
  OBVIOUS
<1> USE ConstantsAssumption DEF Init
<1>1. \A t \in FirstTokens : t \in Token /\ t.exp * Second <= Lifetime
  <2> SUFFICES ASSUME NEW t \in FirstTokens PROVE t \in Token /\ t.exp * Second <= Lifetime
    OBVIOUS
  <2>1. t \in Token /\ t.exp \in Nat /\ t.exp <= Lifetime \div Second
    BY DEF Token
  <2>2. (Lifetime \div Second) \in Nat /\ (Lifetime \div Second) * Second <= Lifetime
    BY Division
  <2>3. t.exp * Second <= (Lifetime \div Second) * Second
    BY <2>1, <2>2
  <2> QED BY <2>1, <2>2, <2>3
<1>2. \A t \in FirstTokens : t.claim # "none" => t.user \in User
  OBVIOUS
<1>3. Tables
  BY <1>1, <1>2 DEF Tables, Standing, LoggedOut
<1>4. req \in [Caller -> Request]
  BY IdleFacts
<1>5. 0 * Second <= now + Lifetime
  OBVIOUS
<1>6. ASSUME NEW c \in Caller PROVE Sound(req[c])
  BY <1>5, IdleFacts, GarbageFacts DEF Sound
<1> QED BY <1>3, <1>4, <1>6, Split

(* Starting a request with a token that is in circulation, or garbage. *)
LEMMA PresentedFacts ==
  ASSUME IInv, NEW t \in Presented
  PROVE  /\ t \in Token
         /\ t.claim # "none" => t.user \in User
         /\ t.exp * Second <= now + Lifetime
<1>1. 0 * Second <= now + Lifetime
  BY ConstantsAssumption DEF IInv, TypeOK
<1> QED BY <1>1, GarbageFacts DEF IInv, TypeOK, Presented

LEMMA BeginsSound ==
  ASSUME IInv, NEW c \in Caller, NEW q, Sound(q), Begin(c, q)
  PROVE  IInv'
<1>1. requests' \in 0..MaxRequests
  BY ConstantsAssumption DEF Begin, IInv, TypeOK
<1> QED BY <1>1, RequestAdvances DEF Begin, Environment, IInv, TypeOK

LEMMA Starts == ASSUME IInv, NEW c \in Caller, Start(c) PROVE IInv'
<1>0. Tables /\ 0 * Second <= now + Lifetime
  <2>1. Tables
    BY Split
  <2> QED BY <2>1, ConstantsAssumption DEF Tables
<1>1. CASE CallWithoutToken(c)
  BY <1>1, <1>0, AnsweredIsSound, BeginsSound DEF CallWithoutToken, Answer
<1>2. CASE StartCall(c)
  <2> PICK t \in Presented :
        Begin(c, [Idle EXCEPT !.op = "call", !.step = "lookup", !.token = t, !.orphan = Orphan(t)])
    BY <1>2 DEF StartCall
  <2> DEFINE q == [Idle EXCEPT !.op = "call", !.step = "lookup", !.token = t, !.orphan = Orphan(t)]
  <2>1. Sound(q)
    BY <1>0, PresentedFacts, GarbageFacts DEF Sound, Idle, Request, Step, Answer, Orphan
  <2> QED BY <2>1, BeginsSound
<1>3. CASE StartLogout(c)
  <2> PICK t \in Presented, b \in tokens :
        Begin(c, [Idle EXCEPT !.op = "logout", !.step = "lookup", !.token = t, !.body = b,
                              !.orphan = Orphan(t)])
    BY <1>3 DEF StartLogout
  <2> DEFINE q == [Idle EXCEPT !.op = "logout", !.step = "lookup", !.token = t, !.body = b,
                               !.orphan = Orphan(t)]
  <2>1. b \in Presented
    BY DEF Presented
  <2>2. Sound(q)
    BY <2>1, PresentedFacts, GarbageFacts DEF Sound, Idle, Request, Step, Answer, Orphan
  <2> QED BY <2>2, BeginsSound
<1>4. CASE StartLogin(c)
  <2> PICK u \in User : Begin(c, [Idle EXCEPT !.op = "login", !.step = "user", !.token.user = u])
    BY <1>4 DEF StartLogin
  <2> DEFINE q == [Idle EXCEPT !.op = "login", !.step = "user", !.token.user = u]
  <2>1. q.token = [Garbage EXCEPT !.user = u] /\ q.token \in Token /\ q.token.user = u
    BY GarbageFacts DEF Idle, Token, Garbage, Claim
  <2>2. Sound(q)
    BY <1>0, <2>1, GarbageFacts DEF Sound, Idle, Request, Step, Answer
  <2> QED BY <2>2, BeginsSound
<1>5. CASE StartRefresh(c)
  <2> PICK t \in Presented :
        Begin(c, [Idle EXCEPT !.op = "refresh", !.step = "refresh", !.token = t, !.orphan = Orphan(t)])
    BY <1>5 DEF StartRefresh
  <2> DEFINE q == [Idle EXCEPT !.op = "refresh", !.step = "refresh", !.token = t, !.orphan = Orphan(t)]
  <2>1. Sound(q)
    BY <1>0, PresentedFacts, GarbageFacts DEF Sound, Idle, Request, Step, Answer, Orphan
  <2> QED BY <2>1, BeginsSound
<1>6. CASE StartGoogle(c)
  <2> DEFINE q == [Idle EXCEPT !.op = "google", !.step = "google"]
  <2>1. Sound(q)
    BY <1>0, GarbageFacts DEF Sound, Idle, Request, Step, Answer
  <2> QED BY <1>6, <2>1, BeginsSound DEF StartGoogle
<1> QED BY <1>1, <1>2, <1>3, <1>4, <1>5, <1>6 DEF Start

(* What a token that was logged out can still do. *)
LEMMA RememberedFacts ==
  ASSUME Tables, NEW t \in Token, t \in LoggedOut, ~Remembered(t)
  PROVE  ~Accepted(t)
<1>1. t.exp * Second <= cache[t] /\ cache[t] <= now /\ now \in Nat /\ t.exp \in Nat
      /\ cache[t] \in Nat /\ Second \in Nat \ {0}
  BY ConstantsAssumption DEF Tables, Remembered, Token
<1>2. t.exp * Second \in Nat
  BY <1>1
<1>3. t.exp * Second <= now
  BY <1>1, <1>2
<1>4. t.exp <= now \div Second /\ now \div Second \in Nat
  BY <1>1, <1>3, Division, DivisionReaches
<1> QED BY <1>1, <1>4 DEF Accepted, Seconds

LEMMA RefusedKeeps ==
  ASSUME NEW q \in Request, NEW p, p = Refuse(q)
  PROVE  /\ p \in Request /\ p.next = "closed" /\ p.answer \in Answer
         /\ p.step = q.step /\ p.token = q.token /\ p.body = q.body
         /\ p.orphan = q.orphan /\ p.late = q.late
         /\ p.answer \in {"refused", q.answer}
BY DEF Refuse, Request, Answer

LEMMA LookupStep == ASSUME IInv, NEW c \in Caller, Lookup(c) PROVE IInv'
<1> DEFINE b == req[c].token \in LoggedOut
           q == [req[c] EXCEPT !.step = "verify", !.late = b]
           p == IF Remembered(q.token) THEN Refuse(q) ELSE q
<1>1. Tables /\ Sound(req[c]) /\ req[c] \in Request
  BY Split
<1>2. req[c].step = "lookup" /\ Proceeding(c, p) /\ UNCHANGED <<Environment, tokens, cache, requests>>
  BY DEF Lookup, Proceeding
<1>3. req[c].answer = "none"
  BY <1>1, <1>2 DEF Sound
<1>4. b \in BOOLEAN
  OBVIOUS
<1> HIDE DEF b
<1>5. q \in Request /\ q.step = "verify" /\ q.token = req[c].token /\ q.body = req[c].body
      /\ q.orphan = req[c].orphan /\ q.answer = "none" /\ q.late = b
  BY <1>1, <1>3, <1>4 DEF Request, Step
<1>6. q.token \in Token /\ (q.late => q.token \in LoggedOut)
  <2>1. q.late => b
    BY <1>5
  <2> QED BY <1>1, <1>5, <2>1 DEF Request, b
<1> HIDE DEF q
<1>7. ASSUME Remembered(q.token) PROVE Sound(p)
  <2>1. p = Refuse(q)
    BY <1>7
  <2> HIDE DEF p
  <2>2. p \in Request /\ p.next = "closed" /\ p.step = "verify" /\ p.token = q.token
        /\ p.body = q.body /\ p.orphan = q.orphan /\ p.late = q.late
        /\ p.answer \in {"refused", "none"}
    BY <1>5, <2>1, RefusedKeeps
  <2> QED BY <1>1, <1>5, <1>6, <2>2 DEF Sound
<1>8. ASSUME ~Remembered(q.token) PROVE Sound(p)
  <2>1. p = q
    BY <1>8
  <2>2. q.late => ~Accepted(q.token)
    BY <1>1, <1>5, <1>6, <1>8, RememberedFacts
  <2> QED BY <1>1, <1>5, <1>6, <2>1, <2>2 DEF Sound
<1>9. Sound(p)
  BY <1>7, <1>8
<1> HIDE DEF p
<1> QED BY <1>2, <1>9, RequestMoves

LEMMA VerifyStep == ASSUME IInv, NEW c \in Caller, Verify(c) PROVE IInv'
<1> DEFINE r == req[c]
           q == IF Accepted(r.token) THEN r ELSE Refuse(r)
           p == IF q.next = "open" THEN [q EXCEPT !.step = "guard"] ELSE Answered(q.answer)
<1>1. Tables /\ Sound(r) /\ r \in Request /\ r.step = "verify" /\ Proceeding(c, p)
      /\ UNCHANGED <<Environment, tokens, cache, requests>>
  BY Split DEF Verify
<1>2. ASSUME ~Accepted(r.token) PROVE Sound(p)
  <2>1. q = Refuse(r)
    BY <1>2
  <2> HIDE DEF q
  <2>2. q.answer \in Answer /\ q.next = "closed"
    BY <1>1, <2>1, RefusedKeeps
  <2>3. p = Answered(q.answer)
    BY <2>2
  <2> QED BY <1>1, <2>2, <2>3, AnsweredIsSound
<1>3. ASSUME Accepted(r.token) /\ r.next # "open" PROVE Sound(p)
  <2>1. p = Answered(r.answer) /\ r.answer \in Answer
    BY <1>1, <1>3 DEF Request
  <2> QED BY <1>1, <2>1, AnsweredIsSound
<1>4. ASSUME Accepted(r.token) /\ r.next = "open" PROVE Sound(p)
  <2>1. p = [r EXCEPT !.step = "guard"]
    BY <1>4
  <2> HIDE DEF p, r
  <2>2. p \in Request /\ p.step = "guard" /\ p.token = r.token /\ p.late = r.late
        /\ p.orphan = r.orphan /\ p.body = r.body /\ p.answer = r.answer
    BY <1>1, <2>1 DEF Request, Step
  <2>3. r.answer = "none" /\ ~r.late
    BY <1>1, <1>4 DEF Sound
  <2> QED BY <1>1, <2>2, <2>3 DEF Sound
<1>5. Sound(p)
  BY <1>2, <1>3, <1>4
<1> HIDE DEF p
<1> QED BY <1>1, <1>5, RequestMoves

(* Of a request that moves on with nothing but its step changed. *)
LEMMA StepOnly ==
  ASSUME NEW r \in Request, NEW s \in Step, NEW q, q = [r EXCEPT !.step = s],
         Sound(r), ~r.late,
         r.answer = "none" \/ (s = "sign" /\ r.answer # "refused"),
         s \in {"user", "sign"} => r.token.user \in User,
         r.orphan => s \notin {"handler", "set", "sign"}
  PROVE  Sound(q)
<1>1. q \in Request /\ q.step = s /\ q.token = r.token /\ q.late = r.late
      /\ q.orphan = r.orphan /\ q.body = r.body /\ q.answer = r.answer
  BY DEF Request
<1> QED BY <1>1 DEF Sound

LEMMA GuardStep == ASSUME IInv, NEW c \in Caller, Guard(c) PROVE IInv'
<1> DEFINE r == req[c]
<1>1. Tables /\ Sound(r) /\ r \in Request /\ r.step = "guard" /\ r.answer = "none" /\ ~r.late
  BY Split DEF Guard, Sound
<1>2. UNCHANGED <<Environment, tokens, cache, requests>>
  BY DEF Guard
<1>3. "refused" \in Answer /\ "handler" \in Step
  BY DEF Answer, Step
<1>4. CASE r.token.claim # "id" \/ standing[r.token.user] # "permitted"
  <2>1. Proceeding(c, Answered("refused"))
    BY <1>4 DEF Guard
  <2> QED BY <1>1, <1>2, <1>3, <2>1, AnsweredIsSound, RequestMoves
<1>5. CASE r.token.claim = "id" /\ standing[r.token.user] = "permitted"
  <2>1. Proceeding(c, [r EXCEPT !.step = "handler"])
    BY <1>5 DEF Guard
  <2>2. ~r.orphan
    BY <1>1, <1>5 DEF Sound, Orphan
  <2>3. Sound([r EXCEPT !.step = "handler"])
    BY <1>1, <1>3, <2>2, StepOnly
  <2> QED BY <1>2, <2>1, <2>3, RequestMoves
<1> QED BY <1>4, <1>5

LEMMA HandleStep == ASSUME IInv, NEW c \in Caller, Handle(c) PROVE IInv'
<1> DEFINE r == req[c]
<1>1. Tables /\ Sound(r) /\ r \in Request /\ r.step = "handler"
  BY Split DEF Handle
<1>2. r.answer = "none" /\ ~r.late /\ ~r.orphan
  BY <1>1 DEF Sound
<1>3. UNCHANGED <<Environment, tokens, cache, requests>>
  BY DEF Handle
<1>4. "set" \in Step /\ "done" \in Answer
  BY DEF Step, Answer
<1>5. Sound([r EXCEPT !.step = "set"]) /\ Sound(Answered("done"))
  BY <1>1, <1>2, <1>4, StepOnly, AnsweredIsSound
<1>6. Proceeding(c, [r EXCEPT !.step = "set"]) \/ Proceeding(c, Answered("done"))
  BY DEF Handle
<1> QED BY <1>3, <1>5, <1>6, RequestMoves

LEMMA VerifyRefreshStep == ASSUME IInv, NEW c \in Caller, VerifyRefresh(c) PROVE IInv'
<1> DEFINE r == req[c]
<1>1. Tables /\ Sound(r) /\ r \in Request /\ r.step = "refresh"
  BY Split DEF VerifyRefresh
<1>2. r.answer = "none" /\ ~r.late
  BY <1>1 DEF Sound
<1>3. UNCHANGED <<Environment, tokens, cache, requests>>
  BY DEF VerifyRefresh
<1>4. "user" \in Step /\ "refused" \in Answer
  BY DEF Step, Answer
<1>5. CASE r.token.claim = "userId" /\ Accepted(r.token)
  <2>1. Proceeding(c, [r EXCEPT !.step = "user"])
    BY <1>5 DEF VerifyRefresh
  <2>2. r.token.user \in User
    BY <1>1, <1>5 DEF Sound
  <2>3. Sound([r EXCEPT !.step = "user"])
    BY <1>1, <1>2, <1>4, <2>2, StepOnly
  <2> QED BY <1>3, <2>1, <2>3, RequestMoves
<1>6. CASE ~(r.token.claim = "userId" /\ Accepted(r.token))
  <2>1. Proceeding(c, Answered("refused"))
    BY <1>6 DEF VerifyRefresh
  <2> QED BY <1>1, <1>3, <1>4, <2>1, AnsweredIsSound, RequestMoves
<1> QED BY <1>5, <1>6

LEMMA FindUserStep == ASSUME IInv, NEW c \in Caller, FindUser(c) PROVE IInv'
<1> DEFINE r == req[c]
<1>1. Tables /\ Sound(r) /\ r \in Request /\ r.step = "user"
  BY Split DEF FindUser
<1>2. r.answer # "refused" /\ ~r.late /\ r.token.user \in User
  BY <1>1 DEF Sound
<1>3. UNCHANGED <<Environment, tokens, cache, requests>>
  BY DEF FindUser
<1>4. "sign" \in Step /\ "refused" \in Answer /\ "failed" \in Answer
  BY DEF Step, Answer
<1>5. CASE ~CanSignIn(r.token.user)
  <2>1. Proceeding(c, Ended(r, "refused"))
    BY <1>5 DEF FindUser
  <2> QED BY <1>1, <1>3, <1>4, <2>1, EndedIsSound, RequestMoves
<1>6. CASE CanSignIn(r.token.user) /\ r.op = "login"
  <2>1. Proceeding(c, Ended(r, "failed"))
    BY <1>6 DEF FindUser
  <2> QED BY <1>1, <1>3, <1>4, <2>1, EndedIsSound, RequestMoves
<1>7. CASE CanSignIn(r.token.user) /\ r.op # "login"
  <2>1. Proceeding(c, [r EXCEPT !.step = "sign"])
    BY <1>7 DEF FindUser
  <2>2. ~r.orphan
    BY <1>1, <1>7 DEF Sound, Orphan, CanSignIn
  <2>3. Sound([r EXCEPT !.step = "sign"])
    BY <1>1, <1>2, <1>4, <2>2, StepOnly
  <2> QED BY <1>3, <2>1, <2>3, RequestMoves
<1> QED BY <1>5, <1>6, <1>7

LEMMA FailsStep == ASSUME IInv, NEW c \in Caller, Fails(c) PROVE IInv'
<1>1. Tables /\ req[c] \in Request /\ "failed" \in Answer
  BY Split DEF Sound, Answer
<1> QED BY <1>1, EndedIsSound, RequestMoves DEF Fails

LEMMA TimesOutStep == ASSUME IInv, NEW c \in Caller, TimesOut(c) PROVE IInv'
<1> DEFINE r == req[c]
           q == [r EXCEPT !.answer = "failed"]
<1>1. Tables /\ Sound(r) /\ r \in Request /\ r.step \in {"set", "user", "sign", "google"}
  BY Split DEF TimesOut, Sound
<1>2. q \in Request /\ q.step = r.step /\ q.answer = "failed" /\ q.token = r.token
      /\ q.body = r.body /\ q.late = r.late /\ q.orphan = r.orphan
  BY <1>1 DEF Request, Answer
<1>3. Sound(q)
  BY <1>1, <1>2 DEF Sound
<1> QED BY <1>3, RequestMoves DEF TimesOut

(* No token signed now outlives the lifetime that starts now. *)
LEMMA SignedFacts ==
  ASSUME Tables, NEW claim \in Claim, NEW u \in User \cup {Nobody},
         claim # "none" => u \in User
  PROVE  /\ Signed(claim, u) \in Token
         /\ Signed(claim, u).claim = claim /\ Signed(claim, u).user = u
         /\ Signed(claim, u).exp * Second <= now + Lifetime
<1> DEFINE a == now \div Second
           b == Lifetime \div Second
<1>1. now \in Nat /\ Lifetime \in Nat /\ Second \in Nat \ {0}
  BY ConstantsAssumption DEF Tables
<1>2. a \in Nat /\ b \in Nat /\ a * Second <= now /\ b * Second <= Lifetime
  BY <1>1, Division
<1>3. Signed(claim, u) = [claim |-> claim, user |-> u, exp |-> a + b]
  BY DEF Signed, Seconds
<1> HIDE DEF a, b
<1>4. (a + b) * Second = a * Second + b * Second
  BY <1>1, <1>2
<1>5. (a + b) * Second <= now + Lifetime
  BY <1>1, <1>2, <1>4
<1> QED BY <1>2, <1>3, <1>5 DEF Token

(* A step that signs tokens and answers its request. *)
LEMMA Signs ==
  ASSUME IInv, NEW c \in Caller, NEW new \in SUBSET Token,
         \A t \in new : (t.claim # "none" => t.user \in User) /\ t.exp * Second <= now + Lifetime,
         tokens' = tokens \cup new,
         Proceeding(c, Ended(req[c], "done")),
         UNCHANGED <<Environment, cache, requests>>
  PROVE  IInv'
<1>1. Sound(Ended(req[c], "done"))
  BY Split, EndedIsSound DEF Sound, Answer
<1> QED BY <1>1, RequestAdvances DEF IInv, TypeOK, Proceeding, Environment

LEMMA SignStep == ASSUME IInv, NEW c \in Caller, Sign(c) PROVE IInv'
<1> DEFINE u == req[c].token.user
           new == {Signed("id", u), Signed("userId", u)}
<1>1. Tables /\ u \in User
  BY Split DEF Sign, Sound
<1>2. "id" \in Claim /\ "userId" \in Claim
  BY DEF Claim
<1>3. /\ \A t \in new : (t.claim # "none" => t.user \in User) /\ t.exp * Second <= now + Lifetime
      /\ new \in SUBSET Token
  BY <1>1, <1>2, SignedFacts
<1>4. tokens' = tokens \cup new /\ Proceeding(c, Ended(req[c], "done"))
      /\ UNCHANGED <<Environment, cache, requests>>
  BY DEF Sign
<1> HIDE DEF new
<1> QED BY <1>3, <1>4, Signs

LEMMA RedirectGoogleStep == ASSUME IInv, NEW c \in Caller, RedirectGoogle(c) PROVE IInv'
<1> DEFINE new == {Signed("none", Nobody)}
<1>1. Tables
  BY Split
<1>2. "none" \in Claim
  BY DEF Claim
<1>3. /\ \A t \in new : (t.claim # "none" => t.user \in User) /\ t.exp * Second <= now + Lifetime
      /\ new \in SUBSET Token
  BY <1>1, <1>2, SignedFacts
<1>4. tokens' = tokens \cup new /\ Proceeding(c, Ended(req[c], "done"))
      /\ UNCHANGED <<Environment, cache, requests>>
  BY DEF RedirectGoogle
<1> HIDE DEF new
<1> QED BY <1>3, <1>4, Signs

(* The entry made now outlives every token signed so far. *)
LEMMA SetRevokedStep == ASSUME IInv, NEW c \in Caller, SetRevoked(c) PROVE IInv'
<1> DEFINE b == req[c].body
           until == now + Lifetime
<1>1. Tables /\ req \in [Caller -> Request] /\ \A d \in Caller : Sound(req[d])
  BY Split
<1>2. CASE setting # "digits"
  <2>1. Proceeding(c, Ended(req[c], "failed")) /\ UNCHANGED <<Environment, tokens, cache, requests>>
        /\ "failed" \in Answer
    BY <1>2 DEF SetRevoked, Answer
  <2> QED BY <1>1, <2>1, EndedIsSound, RequestMoves DEF Sound
<1>3. CASE setting = "digits"
  <2>1. Remember(b, until) /\ Proceeding(c, Ended(req[c], "done"))
        /\ UNCHANGED <<now, setting, standing, tokens, requests>>
    BY <1>3 DEF SetRevoked, Environment
  <2>2. b \in Token /\ until \in Nat /\ b.exp * Second <= until
    BY <1>1, ConstantsAssumption DEF Tables, Sound, Request
  <2> HIDE DEF b, until
  <2>3. LoggedOut' = LoggedOut \cup {b} /\ cache' \in [LoggedOut' -> Nat]
        /\ \A t \in LoggedOut' : cache'[t] = IF t = b THEN until ELSE cache[t]
    BY <1>1, <2>1, <2>2 DEF Remember, LoggedOut, Tables
  <2>4. Tables'
    BY <1>1, <2>1, <2>2, <2>3 DEF Tables
  <2>5. Sound(Ended(req[c], "done"))
    BY <1>1, EndedIsSound DEF Sound, Answer
  <2>6. req' = [req EXCEPT ![c] = Ended(req[c], "done")]
    BY <2>1 DEF Proceeding
  <2>7. ASSUME NEW p, Sound(p) PROVE Sound(p)'
    BY <2>1, <2>3, <2>7 DEF Sound, Accepted, Seconds, Orphan
  <2>8. \A d \in Caller : Sound(req'[d])
    BY <1>1, <2>5, <2>6
  <2>9. \A d \in Caller : Sound(req[d])'
    BY <2>1, <2>3, <2>8 DEF Sound, Accepted, Seconds, Orphan
  <2>10. req' \in [Caller -> Request]
    BY <1>1, <2>5, <2>6 DEF Sound
  <2>11. TypeOK'
    BY <2>4, <2>9, <2>10 DEF TypeOK, Tables, Sound
  <2>12. (Lates /\ Orphans /\ RefusedIsNotHandled)'
    BY <2>9, <2>10 DEF Lates, Orphans, RefusedIsNotHandled, Busy, Sound
  <2> QED BY <2>4, <2>9, <2>11, <2>12 DEF IInv, Tables, Sound
<1> QED BY <1>2, <1>3

LEMMA ProceedStep == ASSUME IInv, NEW c \in Caller, Proceed(c) PROVE IInv'
BY LookupStep, VerifyStep, GuardStep, HandleStep, SetRevokedStep, VerifyRefreshStep,
   FindUserStep, SignStep, RedirectGoogleStep, FailsStep, TimesOutStep DEF Proceed, RoundTrip, Resume

(* The clock only takes away what a token is good for. *)
LEMMA TickStep == ASSUME IInv, Tick PROVE IInv'
<1>1. Tables /\ req \in [Caller -> Request] /\ \A c \in Caller : Sound(req[c])
  BY Split
<1>2. now \in Nat /\ now' = now + 1 /\ now' \in 0..MaxTime /\ Second \in Nat \ {0} /\ Lifetime \in Nat
      /\ UNCHANGED <<setting, standing, tokens, cache, req, requests>>
  BY <1>1, ConstantsAssumption DEF Tables, Tick
<1>3. \A e \in Nat : e * Second \in Nat
  BY <1>2
<1>4. \A t \in Token : t.exp \in Nat
  BY DEF Token
<1>5. Tables'
  BY <1>1, <1>2, <1>3, <1>4 DEF Tables, LoggedOut
<1>6. \A t \in Token : Accepted(t)' => Accepted(t)
  <2>1. now \div Second \in Nat /\ (now + 1) \div Second \in Nat
        /\ now \div Second <= (now + 1) \div Second
    BY <1>2, Division, DivisionGrows
  <2> QED BY <1>2, <1>4, <2>1 DEF Accepted, Seconds
<1>7. \A c \in Caller : Sound(req[c])'
  <2> SUFFICES ASSUME NEW c \in Caller PROVE Sound(req[c])'
    OBVIOUS
  <2>1. Sound(req[c]) /\ req[c].token \in Token /\ req[c].body \in Token
    BY <1>1 DEF Request
  <2>2. req[c].body.exp * Second <= now' + Lifetime
    BY <1>2, <1>3, <1>4, <2>1 DEF Sound
  <2>3. Accepted(req[c].token)' => Accepted(req[c].token)
    BY <1>2, <1>6, <2>1 DEF Accepted, Seconds
  <2> QED BY <1>2, <2>1, <2>2, <2>3 DEF Sound, LoggedOut, Orphan
<1>8. TypeOK'
  BY <1>1, <1>2, <1>5, <1>7 DEF TypeOK, Tables, Sound
<1>9. (Lates /\ Orphans /\ RefusedIsNotHandled)'
  BY <1>2, <1>7 DEF Lates, Orphans, RefusedIsNotHandled, Busy, Sound
<1> QED BY <1>5, <1>7, <1>8, <1>9 DEF IInv, Tables, Sound

(* Whatever becomes of a user, its requests no longer count on its deletion. *)
LEMMA StandingStep == ASSUME IInv, NEW u \in User, StandingChanges(u) PROVE IInv'
<1>1. Tables /\ req \in [Caller -> Request] /\ \A c \in Caller : Sound(req[c])
  BY Split
<1>2. PICK s \in Standing : standing' = [standing EXCEPT ![u] = s]
  BY DEF StandingChanges
<1>3. /\ UNCHANGED <<now, setting, tokens, cache, requests>>
      /\ req' = [c \in Caller |-> [req[c] EXCEPT !.orphan = @ /\ req[c].token.user # u]]
  BY DEF StandingChanges
<1>4. Tables'
  BY <1>1, <1>2, <1>3 DEF Tables, LoggedOut
<1>5. \A c \in Caller : req'[c] \in Request /\ Sound(req[c])'
  <2> SUFFICES ASSUME NEW c \in Caller PROVE req'[c] \in Request /\ Sound(req[c])'
    OBVIOUS
  <2> DEFINE r == req[c]
             o == r.orphan /\ r.token.user # u
  <2>1. PICK q : q = [r EXCEPT !.orphan = o] /\ req'[c] = q
    BY <1>3
  <2>2. Sound(r) /\ r \in Request /\ r.token.user \in User \cup {Nobody}
    BY <1>1 DEF Request, Token
  <2>3. o \in BOOLEAN
    OBVIOUS
  <2> HIDE DEF o
  <2>4. q \in Request /\ q.orphan = o /\ q.step = r.step /\ q.answer = r.answer
        /\ q.token = r.token /\ q.body = r.body /\ q.late = r.late /\ q.next = r.next
    BY <2>1, <2>2, <2>3 DEF Request
  <2>5. o => /\ r.orphan /\ r.step \notin {"handler", "set", "sign"}
             /\ r.token.user # Nobody /\ standing'[r.token.user] = "deleted"
    BY <1>1, <1>2, <2>2 DEF o, Sound, Orphan, Tables
  <2> HIDE DEF r
  <2>6. Sound(q)'
    BY <1>3, <2>2, <2>4, <2>5 DEF Sound, LoggedOut, Orphan, Accepted, Seconds
  <2> QED BY <2>1, <2>4, <2>6 DEF Sound, LoggedOut, Orphan, Accepted, Seconds
<1>6. req' \in [Caller -> Request]
  BY <1>3, <1>5
<1>7. TypeOK'
  BY <1>4, <1>5, <1>6 DEF TypeOK, Tables, Sound
<1>8. (Lates /\ Orphans /\ RefusedIsNotHandled)'
  BY <1>5, <1>6 DEF Lates, Orphans, RefusedIsNotHandled, Busy, Sound
<1> QED BY <1>4, <1>5, <1>7, <1>8 DEF IInv, Tables, Sound

LEMMA StutterStep == ASSUME IInv, UNCHANGED vars PROVE IInv'
<1>1. TypeOK'
  BY DEF IInv, TypeOK, vars, LoggedOut, Request, Token
<1>2. (Lates /\ Orphans /\ RefusedIsNotHandled)'
  BY DEF IInv, vars, Lates, Orphans, RefusedIsNotHandled, Busy, LoggedOut, Orphan, Accepted, Seconds
<1> QED BY <1>1, <1>2 DEF IInv, vars, LoggedOut

(* IInv holds in every reachable state: the tables agree with what the     *)
(* requests in flight have been found to be.                               *)
THEOREM Inductive == Spec => []IInv
<1>1. IInv /\ [Next]_vars => IInv'
  BY Starts, ProceedStep, TickStep, StandingStep, StutterStep DEF Next
<1> QED BY <1>1, InitIInv, PTL DEF Spec

(* Every variable keeps its type. *)
THEOREM TypeCorrect == Spec => []TypeOK
<1>1. IInv => TypeOK
  BY DEF IInv
<1> QED BY <1>1, Inductive, PTL

(* A token that had been logged out when Redis was asked never brings its  *)
(* request to a handler, whatever the lifetime and the length of a second: *)
(* while it is accepted, Redis remembers it.                               *)
THEOREM LoggedOutStaysOut == Spec => []RevokedIsRefused
<1>1. IInv => RevokedIsRefused
  BY DEF IInv, Lates, RevokedIsRefused
<1> QED BY <1>1, Inductive, PTL

(* A request that was refused never runs a handler, although its           *)
(* middleware goes on.                                                     *)
THEOREM RefusalsStand == Spec => []RefusedIsNotHandled
<1>1. IInv => RefusedIsNotHandled
  BY DEF IInv
<1> QED BY <1>1, Inductive, PTL

(* The tokens of a user who has been deleted since before the request that *)
(* brings them open nothing and renew nothing, for as long as no save of   *)
(* the user as it was revives it.                                          *)
THEOREM DeletedStayOut == Spec => []DeletedUsersAreOut
<1>1. IInv => DeletedUsersAreOut
  BY DEF IInv, Orphans, DeletedUsersAreOut
<1> QED BY <1>1, Inductive, PTL

----------------------------------------------------------------------------
(* Every request comes nearer to its answer: what AnsweredUnlessItHangs    *)
(* rests on, besides fairness.                                             *)

(* The round trips and turns of the event loop a request has before it, at *)
(* most.                                                                   *)
Remaining == [lookup |-> 6, verify |-> 5, guard |-> 4, handler |-> 3, set |-> 2,
              refresh |-> 3, user |-> 2, sign |-> 1, google |-> 1, idle |-> 0]

(* Who was handed to next(error) has been answered. *)
ClosedAnswered == \A c \in Caller : req[c].next = "closed" => req[c].answer # "none"

(* A request takes one of its steps: it is nearer to its end or has just   *)
(* been answered, it ends with an answer, and an answer it has got stands. *)
Nearer(r, q) ==
  /\ \/ Remaining[q.step] < Remaining[r.step]
     \/ q.step = r.step /\ r.answer = "none" /\ q.answer # "none"
  /\ q.step = "idle" => q.answer # "none"
  /\ q.next = "closed" => q.answer # "none"
  /\ r.answer # "none" => q.answer = r.answer

LEMMA AnsweredFacts ==
  ASSUME NEW code \in Answer
  PROVE  LET q == Answered(code) IN
         q \in Request /\ q.step = "idle" /\ q.next = "open" /\ q.answer = code
BY IdleFacts DEF Answered, Idle, Request, Step

LEMMA EndsNearer ==
  ASSUME NEW r \in Request, r.step # "idle", NEW code \in Answer, code # "none",
         r.answer # "none" => code = r.answer
  PROVE  Nearer(r, Answered(code))
<1>1. 0 < Remaining[r.step] /\ Remaining["idle"] = 0
  BY DEF Remaining, Request, Step
<1>2. PICK q \in Request : q = Answered(code) /\ q.step = "idle" /\ q.next = "open" /\ q.answer = code
  BY AnsweredFacts
<1>3. Nearer(r, q)
  BY <1>1, <1>2 DEF Nearer
<1> QED BY <1>2, <1>3

LEMMA EndsFirstNearer ==
  ASSUME NEW r \in Request, r.step # "idle", NEW code \in Answer, code # "none"
  PROVE  Nearer(r, Ended(r, code))
BY EndsNearer DEF Ended, Request

LEMMA GoesNearer ==
  ASSUME NEW r \in Request, NEW s \in Step, s # "idle", Remaining[s] < Remaining[r.step],
         r.next = "closed" => r.answer # "none"
  PROVE  Nearer(r, [r EXCEPT !.step = s])
<1>1. PICK q : q = [r EXCEPT !.step = s]
  OBVIOUS
<1>2. q.step = s /\ q.answer = r.answer /\ q.next = r.next
  BY <1>1 DEF Request
<1>3. Nearer(r, q)
  BY <1>2 DEF Nearer
<1> QED BY <1>1, <1>3

(* Redis has answered: the token is remembered or not. *)
LEMMA LooksUpNearer ==
  ASSUME NEW r \in Request, r.step = "lookup", r.answer = "none", r.next # "closed",
         NEW late \in BOOLEAN,
         NEW q, q = [r EXCEPT !.step = "verify", !.late = late],
         NEW p, p = q \/ p = Refuse(q)
  PROVE  Nearer(r, p)
<1>1. q \in Request /\ q.step = "verify" /\ q.answer = "none" /\ q.next = r.next
  BY DEF Request, Step
<1>2. p.step = "verify"
  BY <1>1, RefusedKeeps
<1>3. p.next = "closed" => p.answer # "none"
  <2>1. CASE p = q
    BY <1>1, <2>1
  <2>2. CASE p = Refuse(q)
    <3>1. q.next = "open"
      BY <1>1 DEF Request
    <3>2. p = [q EXCEPT !.answer = "refused", !.next = "closed"]
      BY <2>2, <3>1 DEF Refuse
    <3> QED BY <1>1, <3>2 DEF Request
  <2> QED BY <2>1, <2>2
<1>4. Remaining["verify"] < Remaining["lookup"]
  BY DEF Remaining
<1> QED BY <1>2, <1>3, <1>4 DEF Nearer

(* The token has been verified, for a request refused before or not. *)
LEMMA VerifiesNearer ==
  ASSUME NEW r \in Request, r.step = "verify", r.next = "closed" => r.answer # "none",
         r.next = "open" => r.answer = "none",
         NEW q, q = r \/ q = Refuse(r)
  PROVE  Nearer(r, IF q.next = "open" THEN [q EXCEPT !.step = "guard"] ELSE Answered(q.answer))
<1>1. CASE r.next = "open" /\ q = r
  <2>1. "guard" \in Step /\ Remaining["guard"] < Remaining["verify"]
    BY DEF Step, Remaining
  <2>2. Nearer(r, [r EXCEPT !.step = "guard"])
    BY <1>1, <2>1, GoesNearer
  <2> QED BY <1>1, <2>2
<1>2. CASE r.next = "open" /\ q = Refuse(r)
  <2>1. q = [r EXCEPT !.answer = "refused", !.next = "closed"]
    BY <1>2 DEF Refuse
  <2>2. q.next = "closed" /\ q.answer = "refused" /\ r.answer = "none"
    BY <1>2, <2>1 DEF Request
  <2>3. Nearer(r, Answered(q.answer))
    BY <2>2, EndsNearer DEF Answer
  <2> QED BY <2>2, <2>3
<1>3. CASE r.next = "closed"
  <2>1. q = r
    BY <1>3 DEF Refuse
  <2>2. Nearer(r, Answered(r.answer))
    BY <1>3, EndsNearer DEF Request
  <2> QED BY <1>3, <2>1, <2>2
<1> QED BY <1>1, <1>2, <1>3 DEF Request

LEMMA ProceedsNearer ==
  ASSUME IInv, ClosedAnswered, NEW c \in Caller, Proceed(c)
  PROVE  \E q : req' = [req EXCEPT ![c] = q] /\ Nearer(req[c], q)
<1> DEFINE r == req[c]
<1>1. Sound(r) /\ r \in Request
  BY Split
<1>2. r.next = "closed" => r.answer # "none"
  BY DEF ClosedAnswered
<1>3. /\ r.step # "idle" /\ r.answer # "none" =>
           IF r.answer = "refused" THEN r.step = "verify" /\ r.next = "closed"
           ELSE r.step \in {"set", "user", "sign", "google"}
  BY <1>1 DEF Sound
<1>4. ASSUME NEW code \in {"done", "refused", "failed"}, Proceeding(c, Answered(code)),
             r.step \in {"guard", "handler", "refresh"}
      PROVE  \E q : req' = [req EXCEPT ![c] = q] /\ Nearer(r, q)
  <2>1. Nearer(r, Answered(code))
    BY <1>1, <1>3, <1>4, EndsNearer DEF Answer
  <2> QED BY <1>4, <2>1 DEF Proceeding
<1>40. ASSUME NEW code \in {"done", "refused", "failed"}, Proceeding(c, Ended(r, code)),
              r.step # "idle"
       PROVE  \E q : req' = [req EXCEPT ![c] = q] /\ Nearer(r, q)
  <2>1. Nearer(r, Ended(r, code))
    BY <1>1, <1>40, EndsFirstNearer DEF Answer
  <2> QED BY <1>40, <2>1 DEF Proceeding
<1>5. ASSUME NEW s \in Step, s # "idle", Remaining[s] < Remaining[r.step],
             Proceeding(c, [r EXCEPT !.step = s])
      PROVE  \E q : req' = [req EXCEPT ![c] = q] /\ Nearer(r, q)
  BY <1>1, <1>2, <1>5, GoesNearer DEF Proceeding
<1>6. CASE Lookup(c)
  <2> DEFINE late == r.token \in LoggedOut
             q == [r EXCEPT !.step = "verify", !.late = late]
             p == IF Remembered(q.token) THEN Refuse(q) ELSE q
  <2>1. req' = [req EXCEPT ![c] = p] /\ r.step = "lookup"
    BY <1>6 DEF Lookup
  <2>2. r.answer = "none" /\ r.next # "closed" /\ late \in BOOLEAN
    BY <1>2, <1>3, <2>1
  <2>3. p = q \/ p = Refuse(q)
    OBVIOUS
  <2> HIDE DEF late, p
  <2>4. Nearer(r, p)
    BY <1>1, <2>1, <2>2, <2>3, LooksUpNearer
  <2> QED BY <2>1, <2>4
<1>7. CASE Verify(c)
  <2> DEFINE q == IF Accepted(r.token) THEN r ELSE Refuse(r)
  <2>1. /\ r.step = "verify"
        /\ Proceeding(c, IF q.next = "open" THEN [q EXCEPT !.step = "guard"] ELSE Answered(q.answer))
    BY <1>7 DEF Verify
  <2>2. r.next = "open" => r.answer = "none"
    BY <1>3, <2>1
  <2>3. q = r \/ q = Refuse(r)
    OBVIOUS
  <2> HIDE DEF q
  <2>4. Nearer(r, IF q.next = "open" THEN [q EXCEPT !.step = "guard"] ELSE Answered(q.answer))
    BY <1>1, <1>2, <2>1, <2>2, <2>3, VerifiesNearer
  <2> QED BY <2>1, <2>4 DEF Proceeding
<1>8. CASE Guard(c)
  <2>1. r.step = "guard" /\ (Proceeding(c, [r EXCEPT !.step = "handler"]) \/ Proceeding(c, Answered("refused")))
    BY <1>8 DEF Guard
  <2>2. "handler" \in Step /\ Remaining["handler"] < Remaining["guard"]
    BY DEF Step, Remaining
  <2> QED BY <1>4, <1>5, <2>1, <2>2
<1>9. CASE Handle(c)
  <2>1. r.step = "handler" /\ (Proceeding(c, [r EXCEPT !.step = "set"]) \/ Proceeding(c, Answered("done")))
    BY <1>9 DEF Handle
  <2>2. "set" \in Step /\ Remaining["set"] < Remaining["handler"]
    BY DEF Step, Remaining
  <2> QED BY <1>4, <1>5, <2>1, <2>2
<1>10. CASE SetRevoked(c)
  <2>1. r.step = "set" /\ (Proceeding(c, Ended(r, "done")) \/ Proceeding(c, Ended(r, "failed")))
    BY <1>10 DEF SetRevoked
  <2> QED BY <1>40, <2>1
<1>11. CASE VerifyRefresh(c)
  <2>1. r.step = "refresh" /\ (Proceeding(c, [r EXCEPT !.step = "user"]) \/ Proceeding(c, Answered("refused")))
    BY <1>11 DEF VerifyRefresh
  <2>2. "user" \in Step /\ Remaining["user"] < Remaining["refresh"]
    BY DEF Step, Remaining
  <2> QED BY <1>4, <1>5, <2>1, <2>2
<1>12. CASE FindUser(c)
  <2>1. /\ r.step = "user"
        /\ \/ Proceeding(c, [r EXCEPT !.step = "sign"])
           \/ Proceeding(c, Ended(r, "refused")) \/ Proceeding(c, Ended(r, "failed"))
    BY <1>12 DEF FindUser
  <2>2. "sign" \in Step /\ Remaining["sign"] < Remaining["user"]
    BY DEF Step, Remaining
  <2> QED BY <1>40, <1>5, <2>1, <2>2
<1>13. CASE Sign(c) \/ RedirectGoogle(c)
  <2>1. r.step \in {"sign", "google"} /\ Proceeding(c, Ended(r, "done"))
    BY <1>13 DEF Sign, RedirectGoogle
  <2> QED BY <1>40, <2>1
<1>14. CASE Fails(c)
  <2>1. r.step \in {"lookup", "guard", "set", "user", "google"} /\ Proceeding(c, Ended(r, "failed"))
    BY <1>14 DEF Fails
  <2> QED BY <1>40, <2>1
<1>15. CASE TimesOut(c)
  <2>1. /\ r.step \in {"set", "user", "sign", "google"} /\ r.answer = "none"
        /\ Proceeding(c, [r EXCEPT !.answer = "failed"])
    BY <1>15 DEF TimesOut
  <2>2. PICK q : q = [r EXCEPT !.answer = "failed"]
    OBVIOUS
  <2>3. q.step = r.step /\ q.answer = "failed"
    BY <1>1, <2>2 DEF Request
  <2>4. Nearer(r, q)
    BY <2>1, <2>3 DEF Nearer
  <2> QED BY <2>1, <2>2, <2>4 DEF Proceeding
<1> QED BY <1>6, <1>7, <1>8, <1>9, <1>10, <1>11, <1>12, <1>13, <1>14, <1>15
  DEF Proceed, RoundTrip, Resume

(* A request that starts takes a free place, and next is open to it. *)
LEMMA StartsOpen ==
  ASSUME IInv, NEW c \in Caller, Start(c)
  PROVE  ~Busy(c) /\ \E q : req' = [req EXCEPT ![c] = q] /\ q.next = "open"
<1>1. PICK q : Begin(c, q) /\ q.next = "open"
  <2>1. CASE CallWithoutToken(c)
    BY <2>1, AnsweredFacts DEF CallWithoutToken, Answer
  <2>2. CASE StartCall(c)
    <3>1. PICK t : Begin(c, [Idle EXCEPT !.op = "call", !.step = "lookup", !.token = t, !.orphan = Orphan(t)])
      BY <2>2 DEF StartCall
    <3>2. [Idle EXCEPT !.op = "call", !.step = "lookup", !.token = t, !.orphan = Orphan(t)].next = "open"
      BY DEF Idle
    <3> QED BY <3>1, <3>2
  <2>3. CASE StartLogout(c)
    <3>1. PICK t, b : Begin(c, [Idle EXCEPT !.op = "logout", !.step = "lookup", !.token = t, !.body = b,
                                            !.orphan = Orphan(t)])
      BY <2>3 DEF StartLogout
    <3>2. [Idle EXCEPT !.op = "logout", !.step = "lookup", !.token = t, !.body = b,
                       !.orphan = Orphan(t)].next = "open"
      BY DEF Idle
    <3> QED BY <3>1, <3>2
  <2>4. CASE StartRefresh(c)
    <3>1. PICK t : Begin(c, [Idle EXCEPT !.op = "refresh", !.step = "refresh", !.token = t, !.orphan = Orphan(t)])
      BY <2>4 DEF StartRefresh
    <3>2. [Idle EXCEPT !.op = "refresh", !.step = "refresh", !.token = t, !.orphan = Orphan(t)].next = "open"
      BY DEF Idle
    <3> QED BY <3>1, <3>2
  <2>5. CASE StartLogin(c)
    <3>1. PICK u : Begin(c, [Idle EXCEPT !.op = "login", !.step = "user", !.token.user = u])
      BY <2>5 DEF StartLogin
    <3>2. [Idle EXCEPT !.op = "login", !.step = "user", !.token.user = u].next = "open"
      BY DEF Idle
    <3> QED BY <3>1, <3>2
  <2>6. CASE StartGoogle(c)
    <3>1. [Idle EXCEPT !.op = "google", !.step = "google"].next = "open"
      BY DEF Idle
    <3> QED BY <2>6, <3>1 DEF StartGoogle
  <2> QED BY <2>1, <2>2, <2>3, <2>4, <2>5, <2>6 DEF Start
<1>2. ~Busy(c) /\ req' = [req EXCEPT ![c] = q]
  BY <1>1 DEF Begin
<1> QED BY <1>1, <1>2

(* What a step may do to a request in flight: besides the history of its   *)
(* user's deletion, what the request does next and what it has answered.   *)
Advances ==
  \A c \in Caller : Busy(c) =>
    LET r == req[c]
        q == req'[c] IN
    \/ q.step = r.step /\ q.answer = r.answer /\ q.next = r.next
    \/ /\ \/ Remaining[q.step] < Remaining[r.step]
          \/ q.step = r.step /\ r.answer = "none" /\ q.answer # "none"
       /\ q.step = "idle" => q.answer # "none"
       /\ r.answer # "none" => q.answer = r.answer

(* A request never loses its way: each step it takes brings it nearer to   *)
(* its end or is the timer's answer, nothing else touches it, it ends with *)
(* an answer, and the first answer given is the one that stands: the 408   *)
(* of the timer although the handler goes on                               *)
(* (request-timeout.interceptor.ts:29), the refusal of a middleware that   *)
(* calls next() once more (authentication.middleware.ts:45-60).            *)
THEOREM RequestsAdvance == Spec => [][Advances]_vars
<1>1. Init => ClosedAnswered
  BY IdleFacts DEF Init, ClosedAnswered
<1>2. ASSUME IInv, ClosedAnswered, Next PROVE ClosedAnswered' /\ Advances
  <2>0. req \in [Caller -> Request]
    BY <1>2, Split
  <2>1. CASE UNCHANGED req
    BY <1>2, <2>1 DEF ClosedAnswered, Advances
  <2>2. ASSUME NEW c \in Caller, Start(c) PROVE ClosedAnswered' /\ Advances
    <3>1. PICK q : req' = [req EXCEPT ![c] = q] /\ q.next = "open" /\ ~Busy(c)
      BY <1>2, <2>2, StartsOpen
    <3>2. req'[c] = q /\ \A d \in Caller \ {c} : req'[d] = req[d]
      BY <2>0, <3>1
    <3> QED BY <1>2, <3>1, <3>2 DEF ClosedAnswered, Advances
  <2>3. ASSUME NEW c \in Caller, Proceed(c) PROVE ClosedAnswered' /\ Advances
    <3>1. PICK q : req' = [req EXCEPT ![c] = q] /\ Nearer(req[c], q)
      BY <1>2, <2>3, ProceedsNearer
    <3>2. req'[c] = q /\ \A d \in Caller \ {c} : req'[d] = req[d]
      BY <2>0, <3>1
    <3> QED BY <1>2, <3>1, <3>2 DEF ClosedAnswered, Advances, Nearer, Busy
  <2>4. ASSUME NEW u \in User, StandingChanges(u) PROVE ClosedAnswered' /\ Advances
    <3> SUFFICES ASSUME NEW c \in Caller
                 PROVE  req'[c].step = req[c].step /\ req'[c].answer = req[c].answer
                        /\ req'[c].next = req[c].next
      BY <1>2 DEF ClosedAnswered, Advances
    <3>1. req'[c] = [req[c] EXCEPT !.orphan = @ /\ req[c].token.user # u]
      BY <2>4 DEF StandingChanges
    <3>2. req[c] \in Request
      BY <2>0
    <3> QED BY <3>1, <3>2 DEF Request
  <2> QED BY <1>2, <2>1, <2>2, <2>3, <2>4 DEF Next, Tick
<1>3. IInv /\ ClosedAnswered /\ [Next]_vars => ClosedAnswered' /\ [Advances]_vars
  BY <1>2 DEF ClosedAnswered, vars
<1> QED BY <1>1, <1>3, Inductive, PTL DEF Spec
=============================================================================
