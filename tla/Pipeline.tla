------------------------------ MODULE Pipeline ------------------------------
(***************************************************************************)
(* What surrounds a handler: the guard, the interceptors of app.module.ts  *)
(* from the outermost to the innermost (timeout, exception handler, logger,*)
(* tracing, metrics), the exception filter, and the retries of a call to   *)
(* another service that the handler waits for.                             *)
(*                                                                         *)
(* The interceptors see the handler's end in one synchronous step, the     *)
(* innermost first.  When the timeout comes before it they are unsubscribed*)
(* and the handler goes on unobserved.                                     *)
(***************************************************************************)
EXTENDS Naturals

CONSTANTS
  Caller,             \* requests in flight at the same time, at most
  RequestTimeout,     \* ticks until the timeout interceptor gives up
  Retries,            \* axios-retry repeats a request three times by default
  ClientError         \* statuses an exception or another service may bring

ASSUME ConstantsAssumption ==
  /\ RequestTimeout \in Nat \ {0} /\ Retries \in Nat
  /\ ClientError \subseteq 400..599

VARIABLES
  req,       \* the requests in flight
  asked,     \* how often each handler's call has reached the other service
  served     \* history: the other service has answered it with a success

vars == <<req, asked, served>>

Step == {"idle", "guard", "enter", "handler", "outgoing", "backoff"}
(* How a handler ends: a value; a ZodError; an HttpException or an error   *)
(* of the other service with its status; any other error; an aborted call. *)
Retriable == {503, 422, 408}
Ends == [kind : {"value", "zod", "plain", "aborted"}, status : {0}]
        \cup [kind : {"http", "upstream"}, status : ClientError]
Value == [kind |-> "value", status |-> 0]

(* left: ticks of the timeout interceptor; watched: it is subscribed;      *)
(* failed: how the last call to the other service ended.                   *)
Idle == [step |-> "idle", left |-> 0, watched |-> FALSE, attempt |-> 0, failed |-> Value,
         span |-> "none", counted |-> 0, answer |-> 0, timedOut |-> FALSE]

Answered(c) == req[c].answer # 0

----------------------------------------------------------------------------
(* Statuses.                                                               *)

(* metrics.interceptor: err.status || err.statusCode || 500.  An aborted   *)
(* call was given 500 by the response interceptor of the HTTP client.      *)
MetricOf(e) ==
  CASE e.kind = "value" -> 200
    [] e.kind \in {"zod", "plain", "aborted"} -> 500
    [] e.kind \in {"http", "upstream"} -> e.status

(* exception-handler.interceptor and the filter after it.                  *)
StatusOf(e) ==
  CASE e.kind = "value" -> 200
    [] e.kind = "zod" -> 400
    [] e.kind = "aborted" -> 408
    [] e.kind = "plain" -> 500
    [] e.kind \in {"http", "upstream"} -> e.status

----------------------------------------------------------------------------
(* In.                                                                     *)

Arrive(c) ==
  /\ req[c] = Idle
  /\ req' = [req EXCEPT ![c].step = "guard"]
  /\ asked' = [asked EXCEPT ![c] = 0]
  /\ served' = [served EXCEPT ![c] = FALSE]

(* The guard runs before the interceptors: no span, no metric.             *)
GuardRefuses(c) ==
  /\ req[c].step = "guard"
  /\ req' = [req EXCEPT ![c] = [Idle EXCEPT !.answer = 403]]
  /\ UNCHANGED <<asked, served>>

GuardPasses(c) ==
  /\ req[c].step = "guard"
  /\ req' = [req EXCEPT ![c].step = "enter"]
  /\ UNCHANGED <<asked, served>>

Enter(c) ==
  /\ req[c].step = "enter"
  /\ req' = [req EXCEPT ![c] = [@ EXCEPT !.step = "handler", !.left = RequestTimeout,
                                         !.watched = TRUE, !.span = "open"]]
  /\ UNCHANGED <<asked, served>>

----------------------------------------------------------------------------
(* The handler and its call to another service.                            *)

(* Fault: the timer is dropped when the handler waits for someone else.    *)
CallOutUntimed(c) ==
  /\ req[c].step = "handler" /\ asked[c] = 0
  /\ req' = [req EXCEPT ![c].step = "outgoing", ![c].watched = FALSE]
  /\ asked' = [asked EXCEPT ![c] = 1]
  /\ UNCHANGED served

CallOut(c) ==
  /\ req[c].step = "handler" /\ asked[c] = 0
  /\ req' = [req EXCEPT ![c].step = "outgoing"]
  /\ asked' = [asked EXCEPT ![c] = 1]
  /\ UNCHANGED served

ServiceSucceeds(c) ==
  /\ req[c].step = "outgoing"
  /\ req' = [req EXCEPT ![c].step = "handler"]
  /\ served' = [served EXCEPT ![c] = TRUE]
  /\ UNCHANGED asked

(* Fault: whatever fails is repeated, and as long as it fails.             *)
RepeatsAll(e, attempt) == TRUE

(* retryCondition; an aborted or reset connection is made a 408.           *)
Repeats(e, attempt) ==
  attempt < Retries /\ (e.kind = "aborted" \/ e.status \in Retriable)

ServiceFails(c) ==
  /\ req[c].step = "outgoing"
  /\ \E e \in {x \in Ends : x.kind \in {"upstream", "aborted"}} :
       req' = [req EXCEPT ![c].failed = e,
                          ![c].step = IF Repeats(e, req[c].attempt) THEN "backoff" ELSE "handler"]
  /\ UNCHANGED <<asked, served>>

(* After 2^n seconds; the service may have done the work already.          *)
Retry(c) ==
  /\ req[c].step = "backoff"
  /\ req' = [req EXCEPT ![c].step = "outgoing", ![c].attempt = @ + 1, ![c].failed = Value]
  /\ asked' = [asked EXCEPT ![c] = @ + 1]
  /\ UNCHANGED served

----------------------------------------------------------------------------
(* Out.                                                                    *)

(* Fault: the interceptors are told of an end they no longer wait for.     *)
LeavesUnwatched(q, e) ==
  [q EXCEPT !.step = "idle", !.watched = FALSE, !.span = "ended", !.counted = MetricOf(e),
            !.answer = StatusOf(e)]

(* Metrics count; tracing, or for an error the exception handler, ends the *)
(* span; the timer is cleared; the filter answers an error.  Unsubscribed, *)
(* none of them hears of it.                                               *)
Leaves(q, e) ==
  IF q.watched
    THEN [q EXCEPT !.step = "idle", !.watched = FALSE, !.span = "ended", !.counted = MetricOf(e),
                   !.answer = StatusOf(e)]
    ELSE [q EXCEPT !.step = "idle"]

(* A failed call is the handler's end; else it ends as it likes.           *)
HandlerEnds(c) ==
  /\ req[c].step = "handler"
  /\ \E e \in IF req[c].failed = Value THEN {x \in Ends : x.kind \notin {"upstream", "aborted"}}
              ELSE {req[c].failed} :
       req' = [req EXCEPT ![c] = Leaves(@, e)]
  /\ UNCHANGED <<asked, served>>

(* A new ApiTimeoutException, outside the exception handler: the span is   *)
(* not ended and nothing is counted.                                       *)
TimesOut(c) ==
  /\ req[c].watched /\ req[c].left = 0
  /\ req' = [req EXCEPT ![c] = [@ EXCEPT !.watched = FALSE, !.answer = 408, !.timedOut = TRUE]]
  /\ UNCHANGED <<asked, served>>

(* The handler has ended and the request is answered: its place is free.   *)
Leave(c) ==
  /\ req[c].step = "idle" /\ Answered(c)
  /\ req' = [req EXCEPT ![c] = Idle]
  /\ UNCHANGED <<asked, served>>

Tick(c) ==
  /\ req[c].watched /\ req[c].left > 0
  /\ req' = [req EXCEPT ![c].left = @ - 1]
  /\ UNCHANGED <<asked, served>>

Init ==
  /\ req = [c \in Caller |-> Idle]
  /\ asked = [c \in Caller |-> 0]
  /\ served = [c \in Caller |-> FALSE]

Next == \E c \in Caller :
  \/ Arrive(c) \/ GuardRefuses(c) \/ GuardPasses(c) \/ Enter(c)
  \/ CallOut(c) \/ ServiceSucceeds(c) \/ ServiceFails(c) \/ Retry(c)
  \/ HandlerEnds(c) \/ TimesOut(c) \/ Leave(c) \/ Tick(c)

(* Fairness: the timer runs and fires.  A handler need not end, nor the    *)
(* other service answer, nor the guard's query: none has a timeout.        *)
Spec ==
  /\ Init /\ [][Next]_vars
  /\ \A c \in Caller : WF_vars(Enter(c)) /\ WF_vars(TimesOut(c)) /\ WF_vars(Tick(c))

----------------------------------------------------------------------------
(* Properties.                                                             *)

TypeOK ==
  /\ req \in [Caller -> [step : Step, left : 0..RequestTimeout, watched : BOOLEAN,
                         attempt : 0..Retries, failed : Ends, span : {"none", "open", "ended"},
                         counted : {0, 200} \cup 400..599, answer : {0, 200} \cup 400..599,
                         timedOut : BOOLEAN]]
  /\ asked \in [Caller -> 0..Retries + 1]
  /\ served \in [Caller -> BOOLEAN]

(* ObservedAsAnswered: whichever of handler, retries and timeout came      *)
(* first, a request that was let in is answered either by its handler, and *)
(* then it is counted, its span ended and the count bears the status of    *)
(* the answer but for a ZodError and an aborted call; or by the timeout,   *)
(* and then it is neither, also when its handler ends after all.           *)
ObservedAsAnswered ==
  \A c \in Caller : LET q == req[c] IN
    /\ q.counted # 0 <=> q.span = "ended"
    /\ q.span = "open" => q.watched \/ q.timedOut
    /\ q.counted # 0 => q.answer = q.counted \/ <<q.counted, q.answer>> \in {<<500, 400>>, <<500, 408>>}
    /\ q.timedOut => q.answer = 408 /\ q.counted = 0

Inv == TypeOK /\ ObservedAsAnswered

(* AskedInMeasure: another service is asked at most once and three times   *)
(* again, and never again after it has answered with success or a status   *)
(* that is not to be repeated (utils/axios.ts).                            *)
AskedInMeasure ==
  [][\A c \in Caller : asked'[c] > asked[c] =>
       /\ ~served[c] /\ asked'[c] <= Retries + 1
       /\ req[c].failed.kind = "upstream" => req[c].failed.status \in Retriable]_vars

(* EveryRequestIsAnswered: one that the guard lets in, also when its       *)
(* handler never ends, whatever the other service does; the others wait    *)
(* for the guard's query alone, which is outside the interceptors.         *)
EveryRequestIsAnswered ==
  \A c \in Caller : req[c].step # "idle" ~> (Answered(c) \/ [](req[c].step = "guard"))
=============================================================================
