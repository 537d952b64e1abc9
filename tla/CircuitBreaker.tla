--------------------------- MODULE CircuitBreaker ---------------------------
(***************************************************************************)
(* The CircuitBreaker decorator: a registry of opossum breakers, one per   *)
(* class and group, and the state machine of a breaker as the decorator    *)
(* sets it up.                                                             *)
(*                                                                         *)
(* Calls overlap.  A call is settled by its method or by its timeout,      *)
(* whichever comes first; a method that was timed out goes on, and what it *)
(* returns is ignored.  Time passes in ticks of one statistics bucket;     *)
(* timers fire when they are due or later.                                 *)
(***************************************************************************)
EXTENDS Naturals, Sequences, FiniteSetsExt

CONSTANTS
  Method, NoMethod,   \* decorated methods, each with the object it is called on
  Key,                \* class name and circuitGroup
  KeyOf,              \* the key of each method
  Slot,               \* calls in flight at the same time, at most
  Threshold,          \* errorThresholdPercentage
  Volume,             \* volumeThreshold
  Buckets,            \* rollingCountTimeout, in ticks: the statistics and the warm-up
  ResetTimeout,       \* resetTimeout, in ticks
  Timeout,            \* opossum's timeout of a call, in ticks
  WarmUp,             \* allowWarmUp
  MaxFires            \* calls of a breaker within its statistics, at most

ASSUME ConstantsAssumption ==
  /\ KeyOf \in [Method -> Key]
  /\ NoMethod \notin Method
  /\ Threshold \in 0..100 /\ WarmUp \in BOOLEAN
  /\ {Volume, MaxFires} \subseteq Nat /\ {Buckets, ResetTimeout, Timeout} \subseteq Nat \ {0}

VARIABLES
  bound,         \* breakerInstances: the method each breaker was made for
  state,         \* closed, open or halfOpen
  pendingClose,  \* half open, and the probe has not been let through
  warm,          \* ticks of warm-up left
  timer,         \* ticks until an open breaker is half opened
  window,        \* the buckets of the statistics, the newest first
  calls,         \* what each slot runs
  healthy        \* calls made from now on succeed in time

vars == <<bound, state, pendingClose, warm, timer, window, calls, healthy>>

Bucket == [fires : Nat, failures : Nat]
Empty == [fires |-> 0, failures |-> 0]
Free == [status |-> "free", method |-> NoMethod, runs |-> NoMethod, left |-> 0, sound |-> FALSE]

NoStatistics == [i \in 1..Buckets |-> Empty]
Fires(k) == FoldSet(LAMBDA i, n : window[k][i].fires + n, 0, 1..Buckets)
Failures(k) == FoldSet(LAMBDA i, n : window[k][i].failures + n, 0, 1..Buckets)

Exists(k) == bound[k] # NoMethod

----------------------------------------------------------------------------
(* A call of a decorated method.                                           *)

(* The breaker is made at the first call of any method with its key, for   *)
(* that method and its object, and warms up from then on.                  *)
Registered(m) ==
  /\ bound' = [bound EXCEPT ![KeyOf[m]] = IF @ = NoMethod THEN m ELSE @]
  /\ warm' = [warm EXCEPT ![KeyOf[m]] = IF ~Exists(KeyOf[m]) /\ WarmUp THEN Buckets ELSE @]

(* A call counts as fired before it is known whether it passes.            *)
Fired(k) == window' = [window EXCEPT ![k][1].fires = @ + 1]

Passes(k) == state[k] = "closed" \/ pendingClose[k]

Fire(s, m) ==
  LET k == KeyOf[m] IN
  /\ calls[s] = Free /\ Passes(k)
  /\ Fires(k) < MaxFires
  /\ Registered(m) /\ Fired(k)
  /\ pendingClose' = [pendingClose EXCEPT ![k] = FALSE]
  /\ calls' = [calls EXCEPT ![s] =
       [status |-> "running", method |-> m, runs |-> bound'[k], left |-> Timeout,
        sound |-> healthy]]
  /\ UNCHANGED <<state, timer, healthy>>

(* The caller gets the fallback or an error at once.                       *)
Reject(m) ==
  LET k == KeyOf[m] IN
  /\ Exists(k) /\ ~Passes(k)
  /\ Fires(k) < MaxFires
  /\ Fired(k)
  /\ UNCHANGED <<bound, state, pendingClose, warm, timer, calls, healthy>>

----------------------------------------------------------------------------
(* What the end of a call does to the breaker.                             *)

Opened(k) ==
  /\ state' = [state EXCEPT ![k] = "open"]
  /\ pendingClose' = [pendingClose EXCEPT ![k] = FALSE]
  /\ timer' = [timer EXCEPT ![k] = ResetTimeout]
Closed(k) ==
  /\ state' = [state EXCEPT ![k] = "closed"]
  /\ pendingClose' = [pendingClose EXCEPT ![k] = FALSE]
  /\ UNCHANGED timer
Stays == UNCHANGED <<state, pendingClose, timer>>

(* Fault: failures open the breaker while it warms up.                     *)
TripsCold(k, failures) ==
  \/ state[k] = "halfOpen"
  \/ Fires(k) >= Volume /\ 100 * failures > Threshold * Fires(k)

(* A failure opens the breaker: in half open always, else at the volume.   *)
Trips(k, failures) ==
  /\ warm[k] = 0
  /\ \/ state[k] = "halfOpen"
     \/ Fires(k) >= Volume /\ 100 * failures > Threshold * Fires(k)

Failed(k) ==
  /\ window' = [window EXCEPT ![k][1].failures = @ + 1]
  /\ IF Trips(k, Failures(k) + 1) /\ state[k] # "open" THEN Opened(k) ELSE Stays
  /\ UNCHANGED <<bound, warm, healthy>>

(* Fault: any success closes the breaker.                                  *)
SucceededAnyState(k) ==
  /\ IF state[k] # "closed" THEN Closed(k) ELSE Stays
  /\ UNCHANGED <<bound, warm, window, healthy>>

(* Whichever call it is that succeeds while the breaker is half open.      *)
Succeeded(k) ==
  /\ IF state[k] = "halfOpen" THEN Closed(k) ELSE Stays
  /\ UNCHANGED <<bound, warm, window, healthy>>

Ends(s, status) ==
  /\ calls[s].status = "running"
  /\ calls' = [calls EXCEPT ![s] = IF status = "late" THEN [@ EXCEPT !.status = "late", !.left = 0] ELSE Free]

MethodSucceeds(s) == Ends(s, "free") /\ Succeeded(KeyOf[calls[s].method])
MethodFails(s) == ~calls[s].sound /\ Ends(s, "free") /\ Failed(KeyOf[calls[s].method])

(* Fault: a call that is timed out is not a failure.                       *)
TimesOutUncounted(s) ==
  /\ calls[s].left = 0 /\ ~calls[s].sound /\ Ends(s, "late")
  /\ UNCHANGED <<bound, state, pendingClose, warm, timer, window, healthy>>

(* Fault: an open breaker drops its timers.                                *)
TimesOutWhileClosed(s) ==
  /\ calls[s].left = 0 /\ ~calls[s].sound /\ Ends(s, "late")
  /\ state[KeyOf[calls[s].method]] = "closed"
  /\ Failed(KeyOf[calls[s].method])

TimesOut(s) ==
  calls[s].left = 0 /\ ~calls[s].sound /\ Ends(s, "late") /\ Failed(KeyOf[calls[s].method])

LateResultIgnored(s) ==
  /\ calls[s].status = "late"
  /\ calls' = [calls EXCEPT ![s] = Free]
  /\ UNCHANGED <<bound, state, pendingClose, warm, timer, window, healthy>>

----------------------------------------------------------------------------
(* Timers and the surroundings.                                            *)

HalfOpens(k) ==
  /\ state[k] = "open" /\ timer[k] = 0
  /\ state' = [state EXCEPT ![k] = "halfOpen"]
  /\ pendingClose' = [pendingClose EXCEPT ![k] = TRUE]
  /\ UNCHANGED <<bound, warm, timer, window, calls, healthy>>

Less(n) == IF n = 0 THEN 0 ELSE n - 1
Tick ==
  /\ window' = [k \in Key |-> <<Empty>> \o SubSeq(window[k], 1, Buckets - 1)]
  /\ warm' = [k \in Key |-> Less(warm[k])]
  /\ timer' = [k \in Key |-> Less(timer[k])]
  /\ calls' = [s \in Slot |-> [calls[s] EXCEPT !.left = Less(@)]]
  /\ UNCHANGED <<bound, state, pendingClose, healthy>>

Heals == ~healthy /\ healthy' = TRUE /\ UNCHANGED <<bound, state, pendingClose, warm, timer, window, calls>>

Init ==
  /\ bound = [k \in Key |-> NoMethod]
  /\ state = [k \in Key |-> "closed"]
  /\ pendingClose = [k \in Key |-> FALSE]
  /\ warm = [k \in Key |-> 0]
  /\ timer = [k \in Key |-> 0]
  /\ window = [k \in Key |-> NoStatistics]
  /\ calls = [s \in Slot |-> Free]
  /\ healthy = FALSE

Next ==
  \/ \E s \in Slot, m \in Method : Fire(s, m)
  \/ \E m \in Method : Reject(m)
  \/ \E s \in Slot : MethodSucceeds(s) \/ MethodFails(s) \/ TimesOut(s) \/ LateResultIgnored(s)
  \/ \E k \in Key : HalfOpens(k)
  \/ Tick \/ Heals

(* Fairness: time passes, a timer that is due fires, and a sound call      *)
(* returns.  Another call need never return; that those timed out do once  *)
(* all is well only empties the slots, which bound the model, not the code.*)
Timers ==
  /\ WF_vars(Tick)
  /\ \A s \in Slot : WF_vars(TimesOut(s))
  /\ \A k \in Key : WF_vars(HalfOpens(k))
  /\ \A s \in Slot : WF_vars(calls[s].sound /\ MethodSucceeds(s)) /\ WF_vars(healthy /\ LateResultIgnored(s))
(* And callers go on calling: of the many that come while a breaker is     *)
(* half open one is let through.                                           *)
Traffic == \A k \in Key : SF_vars(state[k] = "halfOpen" /\ \E s \in Slot, m \in Method : KeyOf[m] = k /\ Fire(s, m))

Spec == Init /\ [][Next]_vars /\ Timers /\ Traffic

----------------------------------------------------------------------------
(* Properties.                                                             *)

Call == [status : {"free", "running", "late"}, method : Method \cup {NoMethod},
         runs : Method \cup {NoMethod}, left : 0..Timeout, sound : BOOLEAN]

TypeOK ==
  /\ bound \in [Key -> Method \cup {NoMethod}]
  /\ state \in [Key -> {"closed", "open", "halfOpen"}]
  /\ pendingClose \in [Key -> BOOLEAN]
  /\ warm \in [Key -> 0..Buckets]
  /\ timer \in [Key -> 0..ResetTimeout]
  /\ window \in [Key -> [1..Buckets -> Bucket]]
  /\ calls \in [Slot -> Call]
  /\ healthy \in BOOLEAN

(* Inv: the parts of a breaker agree in every interleaving of late and     *)
(* timely results: a breaker that warms up is closed, its timer runs only  *)
(* while it is open, the probe waits only in half open, a breaker never    *)
(* called is untouched, and a half open breaker whose probe was let        *)
(* through is being tried by a call of its key.                            *)
OnTrial(k) == \E s \in Slot : calls[s].status = "running" /\ KeyOf[calls[s].method] = k
Inv ==
  /\ TypeOK
  /\ \A k \in Key :
       /\ warm[k] > 0 => state[k] = "closed"
       /\ timer[k] > 0 => state[k] = "open"
       /\ pendingClose[k] => state[k] = "halfOpen"
       /\ state[k] # "closed" => Exists(k)
       /\ ~Exists(k) => window[k] = NoStatistics
       /\ state[k] = "halfOpen" /\ ~pendingClose[k] => OnTrial(k)

(* RestsWhenOpen: a call that comes while the breaker is open passes only  *)
(* after the full reset timeout, however the calls let through before it   *)
(* opened end meanwhile.                                                   *)
RestsWhenOpen ==
  [][\A k \in Key : state[k] = "open" =>
       /\ state'[k] \in {"open", "halfOpen"}
       /\ timer[k] > 0 => state'[k] = "open"
       /\ \A s \in Slot : calls[s] = Free /\ calls'[s] # Free => KeyOf[calls'[s].method] # k]_vars

(* EveryCallIsSettled: a call whose method never returns is settled by the *)
(* timeout, which the decorator leaves at opossum's default.               *)
EveryCallIsSettled == \A s \in Slot : calls[s].status = "running" ~> calls[s].status # "running"

(* RecoversWhenHealthy: once the methods succeed again and callers keep    *)
(* calling, every breaker ends up closed for good, although calls from     *)
(* before may still time out and open it once more.                        *)
RecoversWhenHealthy == \A k \in Key : healthy ~> [](state[k] = "closed")

(* EachMethodHasABreaker: "It initializes a circuit breaker for each       *)
(* method it decorates": a call runs the method that was called.           *)
EachMethodHasABreaker ==
  \A s \in Slot : calls[s].status # "free" => calls[s].runs = calls[s].method
=============================================================================
