-------------------------- MODULE Pipeline_proofs --------------------------
(***************************************************************************)
(* In every behaviour of Pipeline, for any number of requests, any timeout *)
(* and any number of retries: a request is observed as it is answered, and *)
(* another service is asked in measure.  Neither holds of a request by     *)
(* itself without what its step says of the interceptors and of its calls  *)
(* (Sound), which every action keeps.                                      *)
(***************************************************************************)
EXTENDS Pipeline, TLAPS

Status == {0, 200} \cup 400..599
Request == [step : Step, left : 0..RequestTimeout, watched : BOOLEAN, attempt : 0..Retries,
            failed : Ends, span : {"none", "open", "ended"}, counted : Status, answer : Status,
            timedOut : BOOLEAN]

(* ObservedAsAnswered of one request. *)
Observed(q) ==
  /\ q.counted # 0 <=> q.span = "ended"
  /\ q.span = "open" => q.watched \/ q.timedOut
  /\ q.counted # 0 => q.answer = q.counted \/ <<q.counted, q.answer>> \in {<<500, 400>>, <<500, 408>>}
  /\ q.timedOut => q.answer = 408 /\ q.counted = 0

(* a: how often the service was asked, s: it has answered with a success.  *)
Sound(q, a, s) ==
  /\ q \in Request /\ a \in 0..Retries + 1 /\ s \in BOOLEAN
  /\ Observed(q)
  /\ q.watched => q.span = "open" /\ q.counted = 0 /\ ~q.timedOut
  /\ q.step \in {"guard", "enter"} => q.span = "none" /\ q.counted = 0 /\ ~q.timedOut
  /\ q.step \in {"guard", "enter"} \/ (q.step = "handler" /\ a = 0) =>
       a = 0 /\ ~s /\ q.attempt = 0 /\ q.failed = Value
  /\ q.step \in {"outgoing", "backoff"} => a = q.attempt + 1 /\ ~s
  /\ q.step = "outgoing" => q.failed = Value
  /\ q.step = "backoff" =>
       q.attempt < Retries /\ (q.failed.kind = "upstream" => q.failed.status \in Retriable)

IInv ==
  /\ req \in [Caller -> Request] /\ asked \in [Caller -> 0..Retries + 1]
  /\ served \in [Caller -> BOOLEAN]
  /\ \A c \in Caller : Sound(req[c], asked[c], served[c])

LEMMA IInvImpliesInv == IInv => Inv
<1> SUFFICES ASSUME IInv PROVE Inv
  OBVIOUS
<1>1. TypeOK
  BY DEF IInv, TypeOK, Request, Status
<1>2. ObservedAsAnswered
  <2>1. \A c \in Caller : Observed(req[c])
    BY DEF IInv, Sound
  <2> QED BY <2>1 DEF Observed, ObservedAsAnswered
<1> QED BY <1>1, <1>2 DEF Inv

LEMMA IdleFacts ==
  /\ Value \in Ends /\ Value.kind = "value" /\ Value.status = 0
  /\ Idle \in Request /\ Idle.step = "idle" /\ ~Idle.watched /\ Idle.span = "none"
  /\ Idle.counted = 0 /\ Idle.answer = 0 /\ ~Idle.timedOut /\ Idle.attempt = 0 /\ Idle.failed = Value
<1>1. Value \in Ends /\ Value.kind = "value" /\ Value.status = 0
  BY DEF Value, Ends
<1> QED BY <1>1, ConstantsAssumption DEF Idle, Request, Step, Status

LEMMA EndFacts ==
  ASSUME NEW e \in Ends
  PROVE  /\ MetricOf(e) \in Status /\ MetricOf(e) # 0 /\ StatusOf(e) \in Status
         /\ StatusOf(e) = MetricOf(e) \/ <<MetricOf(e), StatusOf(e)>> \in {<<500, 400>>, <<500, 408>>}
<1>1. CASE e.kind \in {"value", "zod", "plain", "aborted"}
  <2>1. /\ e.kind = "value" => MetricOf(e) = 200 /\ StatusOf(e) = 200
        /\ e.kind = "zod" => MetricOf(e) = 500 /\ StatusOf(e) = 400
    BY DEF MetricOf, StatusOf
  <2>2. /\ e.kind = "plain" => MetricOf(e) = 500 /\ StatusOf(e) = 500
        /\ e.kind = "aborted" => MetricOf(e) = 500 /\ StatusOf(e) = 408
    BY DEF MetricOf, StatusOf
  <2>3. CASE e.kind \in {"value", "zod"}
    BY <2>1, <2>3 DEF Status
  <2>4. CASE e.kind \in {"plain", "aborted"}
    BY <2>2, <2>4 DEF Status
  <2> QED BY <1>1, <2>3, <2>4
<1>2. CASE e.kind \in {"http", "upstream"}
  <2>1. e.status \in 400..599
    <3>1. e.status \in ClientError
      BY <1>2 DEF Ends
    <3> QED BY <3>1, ConstantsAssumption
  <2>2. MetricOf(e) = e.status /\ StatusOf(e) = e.status
    BY <1>2 DEF MetricOf, StatusOf
  <2> QED BY <2>1, <2>2 DEF Status
<1> QED BY <1>1, <1>2 DEF Ends

(* A step of one request that leaves it sound keeps IInv. *)
LEMMA RequestMoves ==
  ASSUME IInv, NEW c \in Caller, NEW q, NEW a, NEW s, Sound(q, a, s),
         req' = [req EXCEPT ![c] = q], asked' = [asked EXCEPT ![c] = a], served' = [served EXCEPT ![c] = s]
  PROVE  IInv'
<1>1. q \in Request /\ a \in 0..Retries + 1 /\ s \in BOOLEAN
  BY DEF Sound
<1>2. req' \in [Caller -> Request] /\ asked' \in [Caller -> 0..Retries + 1] /\ served' \in [Caller -> BOOLEAN]
  BY <1>1 DEF IInv
<1>3. \A d \in Caller : Sound(req'[d], asked'[d], served'[d])
  BY DEF IInv
<1> QED BY <1>2, <1>3 DEF IInv, Sound, Observed

LEMMA InitIInv == Init => IInv
<1> SUFFICES ASSUME Init PROVE IInv
  OBVIOUS
<1>1. Sound(Idle, 0, FALSE)
  BY IdleFacts, ConstantsAssumption DEF Sound, Observed
<1>2. \A c \in Caller : req[c] = Idle /\ asked[c] = 0 /\ served[c] = FALSE
  BY DEF Init
<1>3. req \in [Caller -> Request] /\ asked \in [Caller -> 0..Retries + 1] /\ served \in [Caller -> BOOLEAN]
  BY IdleFacts, ConstantsAssumption DEF Init
<1>4. \A c \in Caller : Sound(req[c], asked[c], served[c])
  BY <1>1, <1>2
<1> QED BY <1>3, <1>4 DEF IInv

----------------------------------------------------------------------------
(* The actions. *)

LEMMA Entering ==
  ASSUME IInv, NEW c \in Caller, Arrive(c) \/ GuardRefuses(c) \/ GuardPasses(c) \/ Enter(c)
  PROVE  IInv'
<1> DEFINE r == req[c]
<1>1. r \in Request /\ Sound(r, asked[c], served[c])
  BY DEF IInv
<1>2. CASE Arrive(c)
  <2> DEFINE q == [Idle EXCEPT !.step = "guard"]
  <2>1. req' = [req EXCEPT ![c] = q]
    BY <1>2 DEF Arrive, IInv
  <2>2. q \in Request /\ q.step = "guard" /\ ~q.watched /\ q.span = "none" /\ q.counted = 0
        /\ ~q.timedOut /\ q.attempt = 0 /\ q.failed = Value
    BY IdleFacts DEF Request, Step
  <2> HIDE DEF q
  <2>3. Sound(q, 0, FALSE)
    BY <2>2, ConstantsAssumption DEF Sound, Observed
  <2> QED BY <1>2, <2>1, <2>3, RequestMoves DEF Arrive
<1>3. CASE GuardRefuses(c)
  <2> DEFINE q == [Idle EXCEPT !.answer = 403]
  <2>1. req' = [req EXCEPT ![c] = q] /\ asked' = [asked EXCEPT ![c] = asked[c]]
        /\ served' = [served EXCEPT ![c] = served[c]]
    BY <1>3 DEF GuardRefuses, IInv
  <2>2. q \in Request /\ q.step = "idle" /\ ~q.watched /\ q.span = "none" /\ q.counted = 0 /\ ~q.timedOut
    BY IdleFacts DEF Request, Status
  <2> HIDE DEF q
  <2>3. Sound(q, asked[c], served[c])
    BY <1>1, <2>2 DEF Sound, Observed
  <2> QED BY <2>1, <2>3, RequestMoves
<1>4. CASE GuardPasses(c)
  <2> DEFINE q == [r EXCEPT !.step = "enter"]
  <2>1. req' = [req EXCEPT ![c] = q] /\ asked' = [asked EXCEPT ![c] = asked[c]]
        /\ served' = [served EXCEPT ![c] = served[c]]
    BY <1>4 DEF GuardPasses, IInv
  <2>2. q \in Request /\ q.step = "enter" /\ q.watched = r.watched /\ q.span = r.span /\ q.counted = r.counted
        /\ q.timedOut = r.timedOut /\ q.attempt = r.attempt /\ q.failed = r.failed /\ q.answer = r.answer
    BY <1>1 DEF Request, Step
  <2>3. r.step = "guard"
    BY <1>4 DEF GuardPasses
  <2> HIDE DEF q
  <2>4. Sound(q, asked[c], served[c])
    BY <1>1, <2>2, <2>3 DEF Sound, Observed
  <2> QED BY <2>1, <2>4, RequestMoves
<1>5. CASE Enter(c)
  <2> DEFINE q == [r EXCEPT !.step = "handler", !.left = RequestTimeout, !.watched = TRUE, !.span = "open"]
  <2>1. req' = [req EXCEPT ![c] = q] /\ asked' = [asked EXCEPT ![c] = asked[c]]
        /\ served' = [served EXCEPT ![c] = served[c]]
    BY <1>5 DEF Enter, IInv
  <2>2. q \in Request /\ q.step = "handler" /\ q.watched /\ q.span = "open" /\ q.counted = r.counted
        /\ q.timedOut = r.timedOut /\ q.attempt = r.attempt /\ q.failed = r.failed /\ q.answer = r.answer
    <3>1. RequestTimeout \in 0..RequestTimeout
      BY ConstantsAssumption
    <3> QED BY <1>1, <3>1 DEF Request, Step
  <2>3. r.step = "enter"
    BY <1>5 DEF Enter
  <2> HIDE DEF q
  <2>4. Sound(q, asked[c], served[c])
    BY <1>1, <2>2, <2>3 DEF Sound, Observed
  <2> QED BY <2>1, <2>4, RequestMoves
<1> QED BY <1>2, <1>3, <1>4, <1>5

LEMMA Calling ==
  ASSUME IInv, NEW c \in Caller, CallOut(c) \/ ServiceSucceeds(c) \/ ServiceFails(c) \/ Retry(c)
  PROVE  IInv'
<1> DEFINE r == req[c]
<1>1. r \in Request /\ Sound(r, asked[c], served[c]) /\ asked[c] \in 0..Retries + 1 /\ r.attempt \in 0..Retries
  BY DEF IInv, Request
<1>2. CASE CallOut(c)
  <2> DEFINE q == [r EXCEPT !.step = "outgoing"]
  <2>1. req' = [req EXCEPT ![c] = q] /\ asked' = [asked EXCEPT ![c] = 1]
        /\ served' = [served EXCEPT ![c] = served[c]] /\ r.step = "handler" /\ asked[c] = 0
    BY <1>2 DEF CallOut, IInv
  <2>2. q \in Request /\ q.step = "outgoing" /\ q.watched = r.watched /\ q.span = r.span /\ q.counted = r.counted
        /\ q.timedOut = r.timedOut /\ q.attempt = r.attempt /\ q.failed = r.failed /\ q.answer = r.answer
    BY <1>1 DEF Request, Step
  <2> HIDE DEF q
  <2>3. Sound(q, 1, served[c])
    BY <1>1, <2>1, <2>2, ConstantsAssumption DEF Sound, Observed
  <2> QED BY <2>1, <2>3, RequestMoves
<1>3. CASE ServiceSucceeds(c)
  <2> DEFINE q == [r EXCEPT !.step = "handler"]
  <2>1. req' = [req EXCEPT ![c] = q] /\ asked' = [asked EXCEPT ![c] = asked[c]]
        /\ served' = [served EXCEPT ![c] = TRUE] /\ r.step = "outgoing"
    BY <1>3 DEF ServiceSucceeds, IInv
  <2>2. q \in Request /\ q.step = "handler" /\ q.watched = r.watched /\ q.span = r.span /\ q.counted = r.counted
        /\ q.timedOut = r.timedOut /\ q.attempt = r.attempt /\ q.failed = r.failed /\ q.answer = r.answer
    BY <1>1 DEF Request, Step
  <2>3. asked[c] # 0
    BY <1>1, <2>1 DEF Sound
  <2> HIDE DEF q
  <2>4. Sound(q, asked[c], TRUE)
    BY <1>1, <2>1, <2>2, <2>3 DEF Sound, Observed
  <2> QED BY <2>1, <2>4, RequestMoves
<1>4. CASE ServiceFails(c)
  <2> PICK e \in {x \in Ends : x.kind \in {"upstream", "aborted"}} :
         req' = [req EXCEPT ![c].failed = e,
                            ![c].step = IF Repeats(e, req[c].attempt) THEN "backoff" ELSE "handler"]
    BY <1>4 DEF ServiceFails
  <2> DEFINE next == IF Repeats(e, r.attempt) THEN "backoff" ELSE "handler"
             q == [r EXCEPT !.failed = e, !.step = next]
  <2>1. req' = [req EXCEPT ![c] = q] /\ asked' = [asked EXCEPT ![c] = asked[c]]
        /\ served' = [served EXCEPT ![c] = served[c]] /\ r.step = "outgoing"
    BY <1>4 DEF ServiceFails, IInv
  <2>2. q \in Request /\ q.step = next /\ q.watched = r.watched /\ q.span = r.span /\ q.counted = r.counted
        /\ q.timedOut = r.timedOut /\ q.attempt = r.attempt /\ q.failed = e /\ q.answer = r.answer
    BY <1>1 DEF Request, Step
  <2>3. asked[c] # 0
    BY <1>1, <2>1 DEF Sound
  <2>4. next = "backoff" => r.attempt < Retries /\ (e.kind = "upstream" => e.status \in Retriable)
    BY DEF Repeats
  <2>5. next \in {"backoff", "handler"}
    OBVIOUS
  <2> HIDE DEF q, next
  <2>6. Sound(q, asked[c], served[c])
    BY <1>1, <2>1, <2>2, <2>3, <2>4, <2>5 DEF Sound, Observed
  <2> QED BY <2>1, <2>6, RequestMoves
<1>5. CASE Retry(c)
  <2> DEFINE q == [r EXCEPT !.step = "outgoing", !.attempt = r.attempt + 1, !.failed = Value]
  <2>1. req' = [req EXCEPT ![c] = q] /\ asked' = [asked EXCEPT ![c] = asked[c] + 1]
        /\ served' = [served EXCEPT ![c] = served[c]] /\ r.step = "backoff"
    BY <1>5 DEF Retry, IInv
  <2>2. r.attempt < Retries /\ asked[c] = r.attempt + 1
    BY <1>1, <2>1 DEF Sound
  <2>3. q \in Request /\ q.step = "outgoing" /\ q.watched = r.watched /\ q.span = r.span /\ q.counted = r.counted
        /\ q.timedOut = r.timedOut /\ q.attempt = r.attempt + 1 /\ q.failed = Value /\ q.answer = r.answer
    <3>1. r.attempt + 1 \in 0..Retries
      BY <1>1, <2>2, ConstantsAssumption
    <3> QED BY <1>1, <3>1, IdleFacts DEF Request, Step
  <2> HIDE DEF q
  <2>4. Sound(q, asked[c] + 1, served[c])
    BY <1>1, <2>1, <2>2, <2>3, ConstantsAssumption DEF Sound, Observed
  <2> QED BY <2>1, <2>4, RequestMoves
<1> QED BY <1>2, <1>3, <1>4, <1>5

(* Subscribed, the interceptors hear of the handler's end; the timeout has *)
(* unsubscribed them.                                                      *)
LEMMA Leaving ==
  ASSUME IInv, NEW c \in Caller, HandlerEnds(c) \/ TimesOut(c) \/ Leave(c) \/ Tick(c)
  PROVE  IInv'
<1> DEFINE r == req[c]
<1>1. r \in Request /\ Sound(r, asked[c], served[c])
  BY DEF IInv
<1>2. asked' = [asked EXCEPT ![c] = asked[c]] /\ served' = [served EXCEPT ![c] = served[c]]
  BY DEF IInv, HandlerEnds, TimesOut, Leave, Tick
<1>3. CASE HandlerEnds(c)
  <2>1. PICK e \in Ends : req' = [req EXCEPT ![c] = Leaves(r, e)]
    <3>1. r.failed \in Ends
      BY <1>1 DEF Request
    <3> QED BY <1>3, <3>1 DEF HandlerEnds, IInv
  <2>2. Sound(Leaves(r, e), asked[c], served[c])
    <3>1. CASE r.watched
      <4> DEFINE q == [r EXCEPT !.step = "idle", !.watched = FALSE, !.span = "ended",
                                !.counted = MetricOf(e), !.answer = StatusOf(e)]
      <4>1. q \in Request /\ q.step = "idle" /\ ~q.watched /\ q.span = "ended"
            /\ q.counted = MetricOf(e) /\ q.answer = StatusOf(e) /\ q.timedOut = r.timedOut
        <5>1. MetricOf(e) \in Status /\ StatusOf(e) \in Status
          BY EndFacts
        <5> QED BY <1>1, <5>1 DEF Request, Step
      <4>2. Leaves(r, e) = q
        BY <3>1 DEF Leaves
      <4> HIDE DEF q
      <4> QED BY <1>1, <3>1, <4>1, <4>2, EndFacts DEF Sound, Observed
    <3>2. CASE ~r.watched
      <4> DEFINE q == [r EXCEPT !.step = "idle"]
      <4>1. q \in Request /\ q.step = "idle" /\ q.watched = r.watched /\ q.span = r.span
            /\ q.counted = r.counted /\ q.timedOut = r.timedOut /\ q.answer = r.answer
        BY <1>1 DEF Request, Step
      <4>2. Leaves(r, e) = q
        BY <3>2 DEF Leaves
      <4> HIDE DEF q
      <4> QED BY <1>1, <3>2, <4>1, <4>2 DEF Sound, Observed
    <3> QED BY <3>1, <3>2
  <2> QED BY <1>2, <2>1, <2>2, RequestMoves
<1>4. CASE TimesOut(c)
  <2> DEFINE code == 408
             q == [r EXCEPT !.watched = FALSE, !.answer = code, !.timedOut = TRUE]
  <2>1. req' = [req EXCEPT ![c] = q] /\ r.watched
    BY <1>4 DEF TimesOut, IInv
  <2>2. code = 408 /\ code \in Status
    BY DEF Status
  <2> HIDE DEF code
  <2>3. q \in Request /\ q.step = r.step /\ q.watched = FALSE /\ q.span = r.span /\ q.counted = r.counted
        /\ q.timedOut = TRUE /\ q.attempt = r.attempt /\ q.failed = r.failed /\ q.answer = code
    <3> DEFINE p == [r EXCEPT !.watched = FALSE, !.answer = code]
    <3>1. r \in Request /\ code \in Status
      BY <1>1, <2>2
    <3>2. p \in Request
      BY <3>1 DEF Request
    <3>3. [p EXCEPT !.timedOut = TRUE] \in Request
      <4> HIDE DEF p
      <4> QED BY <3>2 DEF Request
    <3>4. q = [p EXCEPT !.timedOut = TRUE]
      OBVIOUS
    <3>5. q.step = r.step /\ q.span = r.span /\ q.counted = r.counted /\ q.attempt = r.attempt
          /\ q.failed = r.failed /\ q.answer = code
      BY <3>1 DEF Request
    <3>6. q.watched = FALSE /\ q.timedOut = TRUE
      BY <3>1 DEF Request
    <3> QED BY <3>3, <3>4, <3>5, <3>6
  <2> HIDE DEF q
  <2>4. Sound(q, asked[c], served[c])
    BY <1>1, <2>1, <2>2, <2>3 DEF Sound, Observed
  <2> QED BY <1>2, <2>1, <2>4, RequestMoves
<1>5. CASE Leave(c)
  <2>1. Sound(Idle, asked[c], served[c])
    BY <1>1, IdleFacts DEF Sound, Observed
  <2>2. req' = [req EXCEPT ![c] = Idle]
    BY <1>5 DEF Leave
  <2> QED BY <1>2, <2>1, <2>2, RequestMoves
<1>6. CASE Tick(c)
  <2> DEFINE q == [r EXCEPT !.left = r.left - 1]
  <2>1. req' = [req EXCEPT ![c] = q] /\ r.left > 0
    BY <1>6 DEF Tick, IInv
  <2>2. q \in Request /\ q.step = r.step /\ q.watched = r.watched /\ q.span = r.span /\ q.counted = r.counted
        /\ q.timedOut = r.timedOut /\ q.attempt = r.attempt /\ q.failed = r.failed /\ q.answer = r.answer
    BY <1>1, <2>1, ConstantsAssumption DEF Request
  <2> HIDE DEF q
  <2>3. Sound(q, asked[c], served[c])
    BY <1>1, <2>2 DEF Sound, Observed
  <2> QED BY <1>2, <2>1, <2>3, RequestMoves
<1> QED BY <1>3, <1>4, <1>5, <1>6

LEMMA StepKeepsIInv == IInv /\ [Next]_vars => IInv'
<1> SUFFICES ASSUME IInv, [Next]_vars PROVE IInv'
  OBVIOUS
<1>1. CASE Next
  BY <1>1, Entering, Calling, Leaving DEF Next
<1>2. CASE UNCHANGED vars
  BY <1>2 DEF vars, IInv, Sound, Observed
<1> QED BY <1>1, <1>2

LEMMA Inductive == Spec => []IInv
<1>1. Init => IInv
  BY InitIInv
<1>2. IInv /\ [Next]_vars => IInv'
  BY StepKeepsIInv
<1> QED BY <1>1, <1>2, PTL DEF Spec

(* Types are kept and every request is observed as it was answered.        *)
THEOREM Observation == Spec => []Inv
BY IInvImpliesInv, Inductive, PTL

(* A service is asked no more than once and Retries times again, and never *)
(* after a success or a status that is not to be repeated.                 *)
THEOREM Measure == Spec => AskedInMeasure
<1> DEFINE A == \A c \in Caller : asked'[c] > asked[c] =>
                  /\ ~served[c] /\ asked'[c] <= Retries + 1
                  /\ req[c].failed.kind = "upstream" => req[c].failed.status \in Retriable
<1>1. IInv /\ [Next]_vars => [A]_vars
  <2> SUFFICES ASSUME IInv, Next, NEW c \in Caller, asked'[c] > asked[c]
               PROVE  /\ ~served[c] /\ asked'[c] <= Retries + 1
                      /\ req[c].failed.kind = "upstream" => req[c].failed.status \in Retriable
    OBVIOUS
  <2>1. Sound(req[c], asked[c], served[c]) /\ asked[c] \in 0..Retries + 1 /\ req[c].attempt \in 0..Retries
    BY DEF IInv, Request
  <2>2. CallOut(c) \/ Retry(c)
    <3>1. asked \in [Caller -> 0..Retries + 1]
      BY DEF IInv
    <3>2. ~(asked'[c] = asked[c] \/ asked'[c] = 0)
      BY <2>1, ConstantsAssumption
    <3>3. ASSUME NEW d \in Caller, Arrive(d) \/ GuardRefuses(d) \/ GuardPasses(d) \/ Enter(d)
          PROVE asked'[c] = asked[c] \/ asked'[c] = 0
      BY <3>1, <3>3 DEF Arrive, GuardRefuses, GuardPasses, Enter
    <3>4. ASSUME NEW d \in Caller, ServiceSucceeds(d) \/ ServiceFails(d) \/ HandlerEnds(d)
          PROVE asked'[c] = asked[c]
      BY <3>4 DEF ServiceSucceeds, ServiceFails, HandlerEnds
    <3>5. ASSUME NEW d \in Caller, TimesOut(d) \/ Leave(d) \/ Tick(d)
          PROVE asked'[c] = asked[c]
      BY <3>5 DEF TimesOut, Leave, Tick
    <3>6. ASSUME NEW d \in Caller, d # c, CallOut(d) \/ Retry(d)
          PROVE asked'[c] = asked[c]
      BY <3>1, <3>6 DEF CallOut, Retry
    <3> QED BY <3>2, <3>3, <3>4, <3>5, <3>6 DEF Next
  <2>3. CASE CallOut(c)
    BY <2>1, <2>3, IdleFacts, ConstantsAssumption DEF CallOut, Sound, IInv
  <2>4. CASE Retry(c)
    BY <2>1, <2>4, ConstantsAssumption DEF Retry, Sound, IInv
  <2> QED BY <2>2, <2>3, <2>4
<1>2. Spec => [][A]_vars
  BY <1>1, Inductive, PTL DEF Spec
<1> QED BY <1>2 DEF AskedInMeasure

----------------------------------------------------------------------------
(* Nobody waits forever: what EveryRequestIsAnswered rests on, besides     *)
(* fairness.                                                               *)

Waits(q) == q # Idle /\ q.answer = 0
(* How many turns of the guard and of the timer, at most, until the timeout*)
(* interceptor answers.                                                    *)
Patience(q) ==
  IF q.step = "guard" THEN RequestTimeout + 3
  ELSE IF q.step = "enter" THEN RequestTimeout + 2 ELSE q.left + 1

(* Who waits is before the interceptors or watched by the timeout one.     *)
IsTimed(q) == Waits(q) => q.step \in {"guard", "enter"} \/ q.watched
Timed == \A c \in Caller : IsTimed(req[c])

(* One step of a request: it is answered or loses no patience.             *)
Bears(r, q) ==
  /\ IsTimed(q)
  /\ Waits(r) => q.answer # 0 \/ (Waits(q) /\ Patience(q) <= Patience(r))

LEMMA SamePatience ==
  ASSUME NEW r \in Request, NEW q \in Request, IsTimed(r), r.step \notin {"guard", "enter", "idle"},
         q.step \notin {"guard", "enter", "idle"}, q.watched = r.watched, q.answer = r.answer,
         q.left = r.left
  PROVE  Bears(r, q)
<1>1. r # Idle /\ q # Idle
  BY IdleFacts
<1>2. IsTimed(q)
  BY <1>1 DEF IsTimed, Waits
<1>3. Patience(q) = Patience(r) /\ Patience(r) \in Nat
  BY ConstantsAssumption DEF Patience, Request
<1> QED BY <1>1, <1>2, <1>3 DEF Bears, Waits

LEMMA GivesAnswer == ASSUME NEW r, NEW q, q.answer # 0 PROVE Bears(r, q)
<1>1. ~Waits(q)
  BY DEF Waits
<1>2. IsTimed(q)
  BY <1>1 DEF IsTimed
<1> QED BY <1>2 DEF Bears

LEMMA BearsToEnter ==
  ASSUME IInv, Timed, NEW c \in Caller, Arrive(c) \/ GuardRefuses(c) \/ GuardPasses(c) \/ Enter(c)
  PROVE  Bears(req[c], req'[c])
<1> DEFINE r == req[c]
<1>1. r \in Request /\ Sound(r, asked[c], served[c])
  BY DEF IInv
<1>2. CASE Arrive(c)
  <2>1. r = Idle /\ req'[c].step = "guard"
    BY <1>2, IdleFacts DEF Arrive, IInv, Request
  <2> QED BY <2>1 DEF Bears, IsTimed, Waits
<1>3. CASE GuardRefuses(c)
  <2>1. req'[c].answer = 403
    BY <1>3 DEF GuardRefuses, Idle, IInv
  <2> QED BY <2>1, GivesAnswer
<1>4. CASE GuardPasses(c)
  <2>1. r.step = "guard" /\ req'[c] = [r EXCEPT !.step = "enter"]
    BY <1>4 DEF GuardPasses, IInv
  <2>2. req'[c].step = "enter" /\ req'[c].answer = r.answer
    BY <1>1, <2>1 DEF Request
  <2>3. IsTimed(req'[c]) /\ (Waits(r) => req'[c].answer # 0 \/ Waits(req'[c]))
    BY <2>2, IdleFacts DEF IsTimed, Waits
  <2>4. Patience(req'[c]) <= Patience(r)
    BY <2>1, <2>2, ConstantsAssumption DEF Patience
  <2> QED BY <2>3, <2>4 DEF Bears
<1>5. CASE Enter(c)
  <2>1. /\ r.step = "enter"
        /\ req'[c] = [r EXCEPT !.step = "handler", !.left = RequestTimeout, !.watched = TRUE, !.span = "open"]
    BY <1>5 DEF Enter, IInv
  <2>2. req'[c].step = "handler" /\ req'[c].answer = r.answer /\ req'[c].left = RequestTimeout /\ req'[c].watched
    BY <1>1, <2>1 DEF Request
  <2>3. IsTimed(req'[c]) /\ (Waits(r) => req'[c].answer # 0 \/ Waits(req'[c]))
    BY <2>2, IdleFacts DEF IsTimed, Waits
  <2>4. Patience(req'[c]) <= Patience(r)
    BY <2>1, <2>2, ConstantsAssumption DEF Patience
  <2> QED BY <2>3, <2>4 DEF Bears
<1> QED BY <1>2, <1>3, <1>4, <1>5

LEMMA BearsCalling ==
  ASSUME IInv, Timed, NEW c \in Caller, CallOut(c) \/ ServiceSucceeds(c) \/ ServiceFails(c) \/ Retry(c)
  PROVE  Bears(req[c], req'[c])
<1> DEFINE r == req[c]
<1>1. r \in Request /\ IsTimed(r) /\ req \in [Caller -> Request] /\ req' \in [Caller -> Request]
  BY StepKeepsIInv DEF IInv, Timed, Next
<1>2. r.step \in {"handler", "outgoing", "backoff"}
  BY DEF CallOut, ServiceSucceeds, ServiceFails, Retry
<1>3. /\ req'[c].step \in {"handler", "outgoing", "backoff"}
      /\ req'[c].watched = r.watched /\ req'[c].answer = r.answer /\ req'[c].left = r.left
  <2>1. CASE CallOut(c)
    BY <1>1, <2>1 DEF CallOut, Request
  <2>2. CASE ServiceSucceeds(c)
    BY <1>1, <2>2 DEF ServiceSucceeds, Request
  <2>3. CASE ServiceFails(c)
    <3>1. PICK e : req' = [req EXCEPT ![c].failed = e,
                                      ![c].step = IF Repeats(e, r.attempt) THEN "backoff" ELSE "handler"]
      BY <2>3 DEF ServiceFails
    <3>2. PICK s \in {"backoff", "handler"} : s = IF Repeats(e, r.attempt) THEN "backoff" ELSE "handler"
      OBVIOUS
    <3>3. req'[c] = [r EXCEPT !.failed = e, !.step = s]
      BY <1>1, <3>1, <3>2
    <3> QED BY <1>1, <3>3 DEF Request
  <2>4. CASE Retry(c)
    BY <1>1, <2>4 DEF Retry, Request
  <2> QED BY <2>1, <2>2, <2>3, <2>4
<1> QED BY <1>1, <1>2, <1>3, SamePatience

LEMMA BearsLeaving ==
  ASSUME IInv, Timed, NEW c \in Caller, HandlerEnds(c) \/ TimesOut(c) \/ Leave(c) \/ Tick(c)
  PROVE  Bears(req[c], req'[c])
<1> DEFINE r == req[c]
<1>1. r \in Request /\ IsTimed(r) /\ Sound(r, asked[c], served[c])
  BY DEF IInv, Timed
<1>2. CASE HandlerEnds(c)
  <2>1. PICK e \in Ends : req'[c] = Leaves(r, e)
    BY <1>1, <1>2 DEF HandlerEnds, IInv, Request
  <2>2. r.step = "handler" /\ StatusOf(e) # 0
    BY <1>2, EndFacts DEF HandlerEnds
  <2>3. req'[c].answer # 0
    <3>1. CASE r.watched
      BY <1>1, <2>1, <2>2, <3>1 DEF Leaves, Request
    <3>2. CASE ~r.watched
      <4>1. r.answer # 0
        BY <1>1, <2>2, <3>2, IdleFacts DEF IsTimed, Waits
      <4>2. req'[c] = [r EXCEPT !.step = "idle"]
        BY <2>1, <3>2 DEF Leaves
      <4> QED BY <1>1, <4>1, <4>2 DEF Request
    <3> QED BY <3>1, <3>2
  <2> QED BY <2>3, GivesAnswer
<1>3. CASE TimesOut(c)
  <2>1. req'[c].answer = 408
    BY <1>1, <1>3 DEF TimesOut, IInv, Request
  <2> QED BY <2>1, GivesAnswer
<1>4. CASE Leave(c)
  <2>1. req'[c] = Idle /\ r.answer # 0
    BY <1>4 DEF Leave, Answered, IInv
  <2> QED BY <2>1 DEF Bears, IsTimed, Waits
<1>5. CASE Tick(c)
  <2>1. r.watched /\ r.left > 0 /\ req'[c] = [r EXCEPT !.left = r.left - 1]
    BY <1>5 DEF Tick, IInv
  <2>2. req'[c].step = r.step /\ req'[c].answer = r.answer /\ req'[c].watched /\ req'[c].left = r.left - 1
    BY <1>1, <2>1 DEF Request
  <2>3. r.step \notin {"guard", "enter"} /\ req'[c] # Idle
    BY <1>1, <2>1, <2>2, IdleFacts DEF Sound
  <2>4. Patience(req'[c]) <= Patience(r)
    BY <1>1, <2>2, <2>3, ConstantsAssumption DEF Patience, Request
  <2> QED BY <2>2, <2>3, <2>4 DEF Bears, IsTimed, Waits
<1> QED BY <1>2, <1>3, <1>4, <1>5

(* The steps that fairness speaks of take patience away. *)
LEMMA LosesSome ==
  ASSUME IInv, NEW c \in Caller, GuardPasses(c) \/ Enter(c) \/ Tick(c)
  PROVE  Patience(req'[c]) < Patience(req[c])
<1> DEFINE r == req[c]
<1>1. r \in Request /\ Sound(r, asked[c], served[c])
  BY DEF IInv
<1>2. CASE GuardPasses(c)
  <2>1. r.step = "guard" /\ req'[c] = [r EXCEPT !.step = "enter"]
    BY <1>2 DEF GuardPasses, IInv
  <2>2. req'[c].step = "enter"
    BY <1>1, <2>1 DEF Request
  <2> QED BY <2>1, <2>2, ConstantsAssumption DEF Patience
<1>3. CASE Enter(c)
  <2>1. /\ r.step = "enter"
        /\ req'[c] = [r EXCEPT !.step = "handler", !.left = RequestTimeout, !.watched = TRUE, !.span = "open"]
    BY <1>3 DEF Enter, IInv
  <2>2. req'[c].step = "handler" /\ req'[c].left = RequestTimeout
    BY <1>1, <2>1 DEF Request
  <2> QED BY <2>1, <2>2, ConstantsAssumption DEF Patience
<1>4. CASE Tick(c)
  <2>1. r.watched /\ r.left > 0 /\ req'[c] = [r EXCEPT !.left = r.left - 1]
    BY <1>4 DEF Tick, IInv
  <2>2. req'[c].step = r.step /\ req'[c].left = r.left - 1 /\ r.step \notin {"guard", "enter"}
    BY <1>1, <2>1 DEF Request, Sound
  <2> QED BY <1>1, <2>2, ConstantsAssumption DEF Patience, Request
<1> QED BY <1>2, <1>3, <1>4

LEMMA TimedStays == IInv /\ Timed /\ [Next]_vars =>
  Timed' /\ \A c \in Caller : Bears(req[c], req'[c]) \/ req'[c] = req[c]
<1> SUFFICES ASSUME IInv, Timed, [Next]_vars
             PROVE  Timed' /\ \A c \in Caller : Bears(req[c], req'[c]) \/ req'[c] = req[c]
  OBVIOUS
<1>1. CASE UNCHANGED vars
  BY <1>1 DEF vars, Timed, IsTimed, Waits
<1>2. CASE Next
  <2>1. PICK c \in Caller : /\ Bears(req[c], req'[c])
                            /\ \A d \in Caller \ {c} : req'[d] = req[d]
    <3>1. PICK c \in Caller :
            \/ Arrive(c) \/ GuardRefuses(c) \/ GuardPasses(c) \/ Enter(c)
            \/ CallOut(c) \/ ServiceSucceeds(c) \/ ServiceFails(c) \/ Retry(c)
            \/ HandlerEnds(c) \/ TimesOut(c) \/ Leave(c) \/ Tick(c)
      BY <1>2 DEF Next
    <3>2. CASE Arrive(c) \/ GuardRefuses(c) \/ GuardPasses(c) \/ Enter(c)
      BY <3>2, BearsToEnter DEF Arrive, GuardRefuses, GuardPasses, Enter, IInv
    <3>3. CASE CallOut(c) \/ ServiceSucceeds(c) \/ ServiceFails(c) \/ Retry(c)
      BY <3>3, BearsCalling DEF CallOut, ServiceSucceeds, ServiceFails, Retry, IInv
    <3>4. CASE HandlerEnds(c) \/ TimesOut(c) \/ Leave(c) \/ Tick(c)
      BY <3>4, BearsLeaving DEF HandlerEnds, TimesOut, Leave, Tick, IInv
    <3> QED BY <3>1, <3>2, <3>3, <3>4
  <2>2. \A d \in Caller : IsTimed(req'[d])
    BY <2>1 DEF Timed, Bears
  <2>3. Timed'
    BY <2>2 DEF Timed, IsTimed, Waits
  <2> QED BY <2>1, <2>3
<1> QED BY <1>1, <1>2

(* What a step may do to a request that waits. *)
LosesPatience ==
  \A c \in Caller : Waits(req[c]) =>
    \/ req'[c].answer # 0
    \/ /\ Waits(req'[c]) /\ Patience(req'[c]) <= Patience(req[c])
       /\ GuardPasses(c) \/ Enter(c) \/ Tick(c) => Patience(req'[c]) < Patience(req[c])

(* Who waits is at the guard, whose query nothing hurries, about to enter, *)
(* or watched by the timeout interceptor, and no retry, late answer or     *)
(* other request gives the timer more time: each step answers the request  *)
(* or leaves it waiting no longer than before, and each one of guard,      *)
(* entry and timer takes some of it (request-timeout.interceptor.ts).      *)
THEOREM NobodyIsForgotten == Spec => []Timed /\ [][LosesPatience]_vars
<1>1. Init => Timed
  BY DEF Init, Timed, IsTimed, Waits
<1>2. IInv /\ Timed /\ [Next]_vars => [LosesPatience]_vars
  <2> SUFFICES ASSUME IInv, Timed, Next, NEW c \in Caller, Waits(req[c]), req'[c].answer = 0
               PROVE  /\ Waits(req'[c]) /\ Patience(req'[c]) <= Patience(req[c])
                      /\ GuardPasses(c) \/ Enter(c) \/ Tick(c) => Patience(req'[c]) < Patience(req[c])
    BY DEF LosesPatience
  <2>1. CASE Bears(req[c], req'[c])
    BY <2>1, LosesSome DEF Bears
  <2>2. CASE req'[c] = req[c]
    <3>1. Patience(req[c]) \in Nat
      BY ConstantsAssumption DEF IInv, Request, Patience
    <3> QED BY <2>2, <3>1, LosesSome
  <2> QED BY <2>1, <2>2, TimedStays
<1> QED BY <1>1, <1>2, TimedStays, Inductive, PTL DEF Spec
=============================================================================
