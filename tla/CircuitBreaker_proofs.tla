----------------------- MODULE CircuitBreaker_proofs -----------------------
(***************************************************************************)
(* In every behaviour of CircuitBreaker, for any methods, keys, calls in   *)
(* flight, thresholds and timeouts: the parts of a breaker agree, and it   *)
(* rests while it is open.  To Inv it must be added that a call in flight  *)
(* has a breaker (IInv).  What the statistics count is not looked into:    *)
(* both hold whenever failures are found to be too many.                   *)
(***************************************************************************)
EXTENDS CircuitBreaker, SequenceTheorems, TLAPS

Called(s) ==
  calls[s].status # "free" => calls[s].method \in Method /\ Exists(KeyOf[calls[s].method])
Agrees(k) ==
  /\ warm[k] > 0 => state[k] = "closed"
  /\ timer[k] > 0 => state[k] = "open"
  /\ pendingClose[k] => state[k] = "halfOpen"
  /\ state[k] # "closed" => Exists(k)
  /\ ~Exists(k) => window[k] = NoStatistics
  /\ state[k] = "halfOpen" /\ ~pendingClose[k] => OnTrial(k)
IInv == TypeOK /\ (\A k \in Key : Agrees(k)) /\ (\A s \in Slot : Called(s))

LEMMA IInvImpliesInv == IInv => Inv
BY DEF IInv, Inv, Agrees

LEMMA WindowType ==
  /\ Empty \in Bucket /\ NoStatistics \in [1..Buckets -> Bucket] /\ 1 \in 1..Buckets
BY ConstantsAssumption DEF Empty, Bucket, NoStatistics

LEMMA FreeType == Free \in Call /\ Free.status = "free"
BY ConstantsAssumption DEF Free, Call

LEMMA InitIInv == Init => IInv
<1> SUFFICES ASSUME Init PROVE IInv
  OBVIOUS
<1>1. TypeOK
  <2>1. bound \in [Key -> Method \cup {NoMethod}] /\ healthy \in BOOLEAN /\ pendingClose \in [Key -> BOOLEAN]
    BY DEF Init
  <2>2. state \in [Key -> {"closed", "open", "halfOpen"}]
    BY DEF Init
  <2>3. warm \in [Key -> 0..Buckets] /\ timer \in [Key -> 0..ResetTimeout]
    BY ConstantsAssumption DEF Init
  <2>4. window \in [Key -> [1..Buckets -> Bucket]] /\ calls \in [Slot -> Call]
    BY WindowType, FreeType DEF Init
  <2> QED BY <2>1, <2>2, <2>3, <2>4 DEF TypeOK
<1>2. \A k \in Key : Agrees(k)
  BY DEF Init, Agrees, Exists
<1>3. \A s \in Slot : Called(s)
  BY FreeType DEF Init, Called
<1> QED BY <1>1, <1>2, <1>3 DEF IInv

(* The statistics of one breaker are counted up, the others left alone.    *)
LEMMA CountsFires ==
  ASSUME TypeOK, NEW k \in Key, Fired(k)
  PROVE  window' \in [Key -> [1..Buckets -> Bucket]] /\ \A j \in Key \ {k} : window'[j] = window[j]
<1>1. window[k] \in [1..Buckets -> Bucket] /\ window[k][1] \in Bucket
  BY WindowType DEF TypeOK
<1> DEFINE b == [window[k][1] EXCEPT !.fires = @ + 1]
           w == [window[k] EXCEPT ![1] = b]
<1>2. b \in Bucket
  BY <1>1 DEF Bucket
<1>3. window' = [window EXCEPT ![k] = w]
  BY DEF Fired, TypeOK
<1> HIDE DEF b
<1>4. w \in [1..Buckets -> Bucket]
  BY <1>1, <1>2
<1> HIDE DEF w
<1> QED BY <1>3, <1>4 DEF TypeOK

LEMMA CountsFailures ==
  ASSUME TypeOK, NEW k \in Key, window' = [window EXCEPT ![k][1].failures = @ + 1]
  PROVE  window' \in [Key -> [1..Buckets -> Bucket]] /\ \A j \in Key \ {k} : window'[j] = window[j]
<1>1. window[k] \in [1..Buckets -> Bucket] /\ window[k][1] \in Bucket
  BY WindowType DEF TypeOK
<1> DEFINE b == [window[k][1] EXCEPT !.failures = @ + 1]
           w == [window[k] EXCEPT ![1] = b]
<1>2. b \in Bucket
  BY <1>1 DEF Bucket
<1>3. window' = [window EXCEPT ![k] = w]
  BY DEF TypeOK
<1> HIDE DEF b
<1>4. w \in [1..Buckets -> Bucket]
  BY <1>1, <1>2
<1> HIDE DEF w
<1> QED BY <1>3, <1>4 DEF TypeOK

----------------------------------------------------------------------------
(* A call comes. *)

LEMMA FireStep == ASSUME IInv, NEW s \in Slot, NEW m \in Method, Fire(s, m) PROVE IInv'
<1> DEFINE k == KeyOf[m]
           call == [status |-> "running", method |-> m, runs |-> bound'[k], left |-> Timeout,
                    sound |-> healthy]
<1>1. k \in Key /\ TypeOK /\ m # NoMethod
  BY ConstantsAssumption DEF IInv
<1>2. /\ bound' \in [Key -> Method \cup {NoMethod}] /\ bound'[k] \in Method /\ bound'[k] # NoMethod
      /\ \A j \in Key \ {k} : bound'[j] = bound[j]
      /\ Exists(k) => bound'[k] = bound[k]
  BY <1>1, ConstantsAssumption DEF Fire, Registered, Exists, TypeOK
<1>3. /\ warm' \in [Key -> 0..Buckets] /\ \A j \in Key \ {k} : warm'[j] = warm[j]
      /\ Exists(k) => warm'[k] = warm[k]
  BY <1>1, ConstantsAssumption DEF Fire, Registered, TypeOK
<1>4. window' \in [Key -> [1..Buckets -> Bucket]] /\ \A j \in Key \ {k} : window'[j] = window[j]
  BY <1>1, CountsFires DEF Fire
<1>5. /\ pendingClose' \in [Key -> BOOLEAN] /\ pendingClose'[k] = FALSE
      /\ \A j \in Key \ {k} : pendingClose'[j] = pendingClose[j]
  BY <1>1 DEF Fire, TypeOK
<1>6. calls' = [calls EXCEPT ![s] = call] /\ calls[s] = Free
  BY DEF Fire
<1>7. call \in Call /\ call.status = "running" /\ call.method = m
  BY <1>1, <1>2, ConstantsAssumption DEF Call, TypeOK
<1> HIDE DEF call
<1>8. calls' \in [Slot -> Call] /\ calls'[s] = call /\ \A t \in Slot \ {s} : calls'[t] = calls[t]
  BY <1>1, <1>6, <1>7 DEF TypeOK
<1>9. UNCHANGED <<state, timer, healthy>>
  BY DEF Fire
<1>10. TypeOK'
  BY <1>1, <1>2, <1>3, <1>4, <1>5, <1>8, <1>9 DEF TypeOK
<1>11. OnTrial(k)'
  BY <1>7, <1>8 DEF OnTrial
<1>12. \A j \in Key : OnTrial(j) => OnTrial(j)'
  BY <1>6, <1>8, FreeType DEF OnTrial
<1>13. Agrees(k) /\ \A j \in Key : Agrees(j)
  BY <1>1 DEF IInv
<1>14. Agrees(k)'
  BY <1>2, <1>3, <1>5, <1>9, <1>11, <1>13 DEF Agrees, Exists
<1>15. \A j \in Key \ {k} : Agrees(j)'
  BY <1>2, <1>3, <1>4, <1>5, <1>9, <1>12, <1>13 DEF Agrees, Exists
<1>16. ASSUME NEW t \in Slot PROVE Called(t)'
  <2>1. CASE t = s
    BY <1>2, <1>7, <1>8, <2>1 DEF Called, Exists
  <2>2. CASE t # s
    <3>1. Called(t) /\ calls'[t] = calls[t]
      BY <1>8, <2>2 DEF IInv
    <3>2. \A j \in Key : Exists(j) => Exists(j)'
      BY <1>2 DEF Exists
    <3>3. calls[t].method \in Method => KeyOf[calls[t].method] \in Key
      BY ConstantsAssumption
    <3> QED BY <3>1, <3>2, <3>3 DEF Called
  <2> QED BY <2>1, <2>2
<1> QED BY <1>1, <1>10, <1>14, <1>15, <1>16 DEF IInv

LEMMA RejectStep == ASSUME IInv, NEW m \in Method, Reject(m) PROVE IInv'
<1> DEFINE k == KeyOf[m]
<1>1. k \in Key /\ TypeOK /\ Exists(k)
  BY ConstantsAssumption DEF IInv, Reject
<1>2. window' \in [Key -> [1..Buckets -> Bucket]] /\ \A j \in Key \ {k} : window'[j] = window[j]
  BY <1>1, CountsFires DEF Reject
<1>3. UNCHANGED <<bound, state, pendingClose, warm, timer, calls, healthy>>
  BY DEF Reject
<1>4. TypeOK'
  BY <1>1, <1>2, <1>3 DEF TypeOK
<1>5. \A j \in Key : Agrees(j)'
  BY <1>1, <1>2, <1>3 DEF IInv, Agrees, Exists, OnTrial
<1>6. \A s \in Slot : Called(s)'
  BY <1>3 DEF IInv, Called, Exists
<1> QED BY <1>4, <1>5, <1>6 DEF IInv

----------------------------------------------------------------------------
(* A call ends. *)

LEMMA Ending ==
  ASSUME IInv, NEW s \in Slot, NEW status \in {"free", "late"}, Ends(s, status)
  PROVE  /\ calls[s].method \in Method /\ KeyOf[calls[s].method] \in Key
         /\ Exists(KeyOf[calls[s].method])
         /\ calls' \in [Slot -> Call]
         /\ \A t \in Slot \ {s} : calls'[t] = calls[t]
         /\ calls'[s].status # "running"
         /\ calls'[s].status # "free" => calls'[s].method = calls[s].method
<1>1. calls[s].status = "running" /\ Called(s) /\ calls \in [Slot -> Call] /\ calls[s] \in Call
  BY DEF Ends, IInv, TypeOK
<1>2. calls[s].method \in Method /\ KeyOf[calls[s].method] \in Key /\ Exists(KeyOf[calls[s].method])
  BY <1>1, ConstantsAssumption DEF Called
<1> DEFINE late == [calls[s] EXCEPT !.status = "late", !.left = 0]
           call == IF status = "late" THEN late ELSE Free
<1>3. late \in Call /\ late.status = "late" /\ late.method = calls[s].method
  <2>1. 0 \in 0..Timeout
    BY ConstantsAssumption
  <2>2. late \in Call
    BY <1>1, <2>1 DEF Call
  <2>3. late.status = "late" /\ late.method = calls[s].method
    BY <1>1 DEF Call
  <2> QED BY <2>2, <2>3
<1>4. calls' = [calls EXCEPT ![s] = call]
  BY DEF Ends
<1> HIDE DEF late
<1>5. call \in Call /\ call.status # "running" /\ (call.status # "free" => call.method = calls[s].method)
  BY <1>3, FreeType
<1> HIDE DEF call
<1> QED BY <1>1, <1>2, <1>4, <1>5

(* A failure counts; in half open it opens the breaker, for one that is    *)
(* half open does not warm up.                                             *)
LEMMA FailStep ==
  ASSUME IInv, NEW s \in Slot, NEW status \in {"free", "late"}, Ends(s, status),
         Failed(KeyOf[calls[s].method])
  PROVE  IInv'
<1> PICK k \in Key : k = KeyOf[calls[s].method]
  BY Ending
<1>1. /\ k \in Key /\ Exists(k) /\ TypeOK
      /\ calls' \in [Slot -> Call] /\ calls[s].method \in Method
      /\ \A t \in Slot \ {s} : calls'[t] = calls[t]
      /\ calls'[s].status # "running"
      /\ calls'[s].status # "free" => calls'[s].method = calls[s].method
  BY Ending DEF IInv
<1>0. Failed(k) /\ k = KeyOf[calls[s].method]
  OBVIOUS
<1>2. window' \in [Key -> [1..Buckets -> Bucket]] /\ \A j \in Key \ {k} : window'[j] = window[j]
  BY <1>0, <1>1, CountsFailures DEF Failed
<1>3. UNCHANGED <<bound, warm, healthy>>
  BY <1>0 DEF Failed
<1>4. (state[k] # "open" /\ warm[k] = 0 /\ Opened(k)) \/ (state[k] # "halfOpen" /\ Stays)
  <2>1. warm[k] \in 0..Buckets /\ (warm[k] > 0 => state[k] = "closed")
    BY <1>1 DEF IInv, TypeOK, Agrees
  <2>2. state[k] = "halfOpen" => Trips(k, Failures(k) + 1)
    BY <2>1, ConstantsAssumption DEF Trips
  <2>3. Trips(k, Failures(k) + 1) => warm[k] = 0
    BY DEF Trips
  <2> QED BY <1>0, <2>2, <2>3 DEF Failed
<1>5. \A j \in Key \ {k} : OnTrial(j) => OnTrial(j)'
  BY <1>0, <1>1 DEF OnTrial
<1>6. \A j \in Key : Agrees(j)
  BY DEF IInv
<1>7. \A t \in Slot : Called(t)'
  BY <1>0, <1>1, <1>3 DEF IInv, Called, Exists
<1>8. CASE state[k] # "open" /\ warm[k] = 0 /\ Opened(k)
  <2>1. /\ state' = [state EXCEPT ![k] = "open"]
        /\ pendingClose' = [pendingClose EXCEPT ![k] = FALSE]
        /\ timer' = [timer EXCEPT ![k] = ResetTimeout]
    BY <1>8 DEF Opened
  <2>2. TypeOK'
    BY <1>1, <1>2, <1>3, <2>1, ConstantsAssumption DEF TypeOK
  <2>3. Agrees(k)'
    BY <1>1, <1>3, <1>8, <2>1 DEF Agrees, Exists, TypeOK
  <2>4. \A j \in Key \ {k} : Agrees(j)'
    BY <1>1, <1>2, <1>3, <1>5, <1>6, <2>1 DEF Agrees, Exists, TypeOK
  <2> QED BY <1>1, <1>7, <2>2, <2>3, <2>4 DEF IInv
<1>9. CASE state[k] # "halfOpen" /\ Stays
  <2>1. UNCHANGED <<state, pendingClose, timer>>
    BY <1>9 DEF Stays
  <2>2. TypeOK'
    BY <1>1, <1>2, <1>3, <2>1 DEF TypeOK
  <2>3. Agrees(k)'
    BY <1>1, <1>3, <1>6, <1>9, <2>1 DEF Agrees, Exists
  <2>4. \A j \in Key \ {k} : Agrees(j)'
    BY <1>2, <1>3, <1>5, <1>6, <2>1 DEF Agrees, Exists
  <2> QED BY <1>1, <1>7, <2>2, <2>3, <2>4 DEF IInv
<1> QED BY <1>4, <1>8, <1>9

LEMMA SucceedStep == ASSUME IInv, NEW s \in Slot, MethodSucceeds(s) PROVE IInv'
<1> PICK k \in Key : k = KeyOf[calls[s].method]
  BY Ending DEF MethodSucceeds
<1>1. /\ k \in Key /\ Exists(k) /\ TypeOK
      /\ calls' \in [Slot -> Call] /\ calls[s].method \in Method
      /\ \A t \in Slot \ {s} : calls'[t] = calls[t]
      /\ calls'[s].status # "running"
      /\ calls'[s].status # "free" => calls'[s].method = calls[s].method
  BY Ending DEF IInv, MethodSucceeds
<1>0. Succeeded(k)
  BY DEF MethodSucceeds
<1>00. k = KeyOf[calls[s].method]
  OBVIOUS
<1>2. UNCHANGED <<bound, warm, window, healthy>>
  BY <1>0 DEF Succeeded
<1>3. \A j \in Key \ {k} : OnTrial(j) => OnTrial(j)'
  BY <1>00, <1>1 DEF OnTrial
<1>4. \A j \in Key : Agrees(j)
  BY DEF IInv
<1>5. \A t \in Slot : Called(t)'
  BY <1>00, <1>1, <1>2 DEF IInv, Called, Exists
<1>6. CASE state[k] = "halfOpen"
  <2>1. /\ state' = [state EXCEPT ![k] = "closed"]
        /\ pendingClose' = [pendingClose EXCEPT ![k] = FALSE]
        /\ timer' = timer
    BY <1>0, <1>6 DEF Succeeded, Closed
  <2>2. TypeOK'
    BY <1>1, <1>2, <2>1 DEF TypeOK
  <2>3. Agrees(k)'
    BY <1>1, <1>2, <1>4, <1>6, <2>1 DEF Agrees, Exists, TypeOK
  <2>4. \A j \in Key \ {k} : Agrees(j)'
    BY <1>1, <1>2, <1>3, <1>4, <2>1 DEF Agrees, Exists, TypeOK
  <2> QED BY <1>1, <1>5, <2>2, <2>3, <2>4 DEF IInv
<1>7. CASE state[k] # "halfOpen"
  <2>1. UNCHANGED <<state, pendingClose, timer>>
    BY <1>0, <1>7 DEF Succeeded, Stays
  <2>2. TypeOK'
    BY <1>1, <1>2, <2>1 DEF TypeOK
  <2>3. Agrees(k)'
    BY <1>1, <1>2, <1>4, <1>7, <2>1 DEF Agrees, Exists
  <2>4. \A j \in Key \ {k} : Agrees(j)'
    BY <1>2, <1>3, <1>4, <2>1 DEF Agrees, Exists
  <2> QED BY <1>1, <1>5, <2>2, <2>3, <2>4 DEF IInv
<1> QED BY <1>6, <1>7

LEMMA LateStep == ASSUME IInv, NEW s \in Slot, LateResultIgnored(s) PROVE IInv'
<1>1. TypeOK /\ calls[s].status = "late" /\ calls' = [calls EXCEPT ![s] = Free]
      /\ UNCHANGED <<bound, state, pendingClose, warm, timer, window, healthy>>
  BY DEF IInv, LateResultIgnored
<1>2. TypeOK'
  BY <1>1, FreeType DEF TypeOK
<1>3. \A k \in Key : OnTrial(k) => OnTrial(k)'
  BY <1>1 DEF OnTrial, TypeOK
<1>4. \A k \in Key : Agrees(k)'
  BY <1>1, <1>3 DEF IInv, Agrees, Exists
<1>5. \A t \in Slot : Called(t)'
  BY <1>1, FreeType DEF IInv, Called, Exists, TypeOK
<1> QED BY <1>2, <1>4, <1>5 DEF IInv

----------------------------------------------------------------------------
(* Timers. *)

LEMMA HalfOpensStep == ASSUME IInv, NEW k \in Key, HalfOpens(k) PROVE IInv'
<1>1. /\ TypeOK /\ state[k] = "open" /\ timer[k] = 0
      /\ state' = [state EXCEPT ![k] = "halfOpen"]
      /\ pendingClose' = [pendingClose EXCEPT ![k] = TRUE]
      /\ UNCHANGED <<bound, warm, timer, window, calls, healthy>>
  BY DEF IInv, HalfOpens
<1>2. TypeOK'
  BY <1>1 DEF TypeOK
<1>3. Agrees(k)'
  BY <1>1 DEF IInv, Agrees, Exists, TypeOK
<1>4. \A j \in Key \ {k} : Agrees(j)'
  BY <1>1 DEF IInv, Agrees, Exists, OnTrial, TypeOK
<1>5. \A s \in Slot : Called(s)'
  BY <1>1 DEF IInv, Called, Exists
<1> QED BY <1>2, <1>3, <1>4, <1>5 DEF IInv

LEMMA LessType == ASSUME NEW n \in Nat, NEW i \in 0..n PROVE Less(i) \in 0..n /\ (Less(i) > 0 => i > 0)
BY DEF Less

(* A new bucket in front, the last one dropped: still as many, and none    *)
(* counts anything if none did before.                                     *)
LEMMA Rotated ==
  ASSUME NEW w \in [1..Buckets -> Bucket]
  PROVE  /\ <<Empty>> \o SubSeq(w, 1, Buckets - 1) \in [1..Buckets -> Bucket]
         /\ w = NoStatistics => <<Empty>> \o SubSeq(w, 1, Buckets - 1) = NoStatistics
<1> DEFINE t == SubSeq(w, 1, Buckets - 1)
           v == <<Empty>> \o t
<1>1. Buckets \in Nat /\ Buckets >= 1
  BY ConstantsAssumption
<1>2. \A i \in 1..Buckets - 1 : w[i] \in Bucket
  BY <1>1
<1>3. /\ t \in Seq(Bucket) /\ Len(t) = Buckets - 1
      /\ \A i \in 1..Buckets - 1 : t[i] = w[i]
  <2>1. 1 \in Int /\ Buckets - 1 \in Int
    BY <1>1
  <2>2. /\ t \in Seq(Bucket) /\ Len(t) = IF 1 <= Buckets - 1 THEN Buckets - 1 - 1 + 1 ELSE 0
        /\ \A i \in 1 .. Buckets - 1 - 1 + 1 : t[i] = w[1 + i - 1]
    BY <1>2, <2>1, SubSeqProperties
  <2> HIDE DEF t
  <2> QED BY <1>1, <2>2
<1>4. <<Empty>> \in Seq(Bucket) /\ Len(<<Empty>>) = 1 /\ <<Empty>>[1] = Empty
  BY WindowType
<1> HIDE DEF t
<1>5. /\ v \in Seq(Bucket) /\ Len(v) = Len(<<Empty>>) + Len(t)
      /\ \A i \in 1..Len(<<Empty>>) + Len(t) :
           v[i] = IF i <= Len(<<Empty>>) THEN <<Empty>>[i] ELSE t[i - Len(<<Empty>>)]
  BY <1>3, <1>4, ConcatProperties
<1> HIDE DEF v
<1>6. v \in Seq(Bucket) /\ Len(v) = Buckets
  BY <1>1, <1>3, <1>4, <1>5
<1>7. v \in [1..Buckets -> Bucket]
  BY <1>6
<1>8. ASSUME w = NoStatistics PROVE v = NoStatistics
  <2>1. ASSUME NEW i \in 1..Buckets PROVE v[i] = Empty
    <3>1. CASE i = 1
      BY <1>1, <1>3, <1>4, <1>5, <3>1
    <3>2. CASE i # 1
      <4>1. i - 1 \in 1..Buckets - 1 /\ i - 1 \in 1..Buckets
        BY <1>1, <3>2
      <4>2. v[i] = t[i - 1]
        BY <1>1, <1>3, <1>4, <1>5, <3>2
      <4> QED BY <1>3, <1>8, <4>1, <4>2 DEF NoStatistics
    <3> QED BY <3>1, <3>2
  <2> QED BY <1>7, <2>1 DEF NoStatistics
<1> QED BY <1>7, <1>8 DEF v, t

LEMMA TickStep == ASSUME IInv, Tick PROVE IInv'
<1>1. TypeOK /\ UNCHANGED <<bound, state, pendingClose, healthy>> /\ Buckets \in Nat /\ ResetTimeout \in Nat
      /\ Timeout \in Nat
  BY ConstantsAssumption DEF IInv, Tick
<1>2. window' \in [Key -> [1..Buckets -> Bucket]]
      /\ \A k \in Key : window[k] = NoStatistics => window'[k] = NoStatistics
  <2>1. window' = [k \in Key |-> <<Empty>> \o SubSeq(window[k], 1, Buckets - 1)]
    BY DEF Tick
  <2>2. \A k \in Key : window[k] \in [1..Buckets -> Bucket]
    BY <1>1 DEF TypeOK
  <2>3. \A k \in Key : window'[k] \in [1..Buckets -> Bucket]
                       /\ (window[k] = NoStatistics => window'[k] = NoStatistics)
    BY <2>1, <2>2, Rotated
  <2> QED BY <2>1, <2>3
<1>3. warm' \in [Key -> 0..Buckets] /\ \A k \in Key : warm'[k] > 0 => warm[k] > 0
  BY <1>1, LessType DEF Tick, TypeOK
<1>4. timer' \in [Key -> 0..ResetTimeout] /\ \A k \in Key : timer'[k] > 0 => timer[k] > 0
  BY <1>1, LessType DEF Tick, TypeOK
<1>5. calls' \in [Slot -> Call]
      /\ \A s \in Slot : calls'[s].status = calls[s].status /\ calls'[s].method = calls[s].method
  <2>1. calls' = [s \in Slot |-> [calls[s] EXCEPT !.left = Less(@)]]
    BY DEF Tick
  <2>2. \A s \in Slot : calls[s] \in Call /\ Less(calls[s].left) \in 0..Timeout
    BY <1>1, LessType DEF TypeOK, Call
  <2> QED BY <2>1, <2>2 DEF Call
<1>6. TypeOK'
  BY <1>1, <1>2, <1>3, <1>4, <1>5 DEF TypeOK
<1>7. \A k \in Key : OnTrial(k) => OnTrial(k)'
  BY <1>5 DEF OnTrial
<1>8. \A k \in Key : Agrees(k)'
  BY <1>1, <1>2, <1>3, <1>4, <1>7 DEF IInv, Agrees, Exists
<1>9. \A s \in Slot : Called(s)'
  BY <1>1, <1>5 DEF IInv, Called, Exists
<1> QED BY <1>6, <1>8, <1>9 DEF IInv

LEMMA StepKeepsIInv == IInv /\ [Next]_vars => IInv'
<1> SUFFICES ASSUME IInv, [Next]_vars PROVE IInv'
  OBVIOUS
<1>1. ASSUME NEW s \in Slot, NEW m \in Method, Fire(s, m) PROVE IInv'
  BY <1>1, FireStep
<1>2. ASSUME NEW m \in Method, Reject(m) PROVE IInv'
  BY <1>2, RejectStep
<1>3. ASSUME NEW s \in Slot, MethodSucceeds(s) \/ LateResultIgnored(s) PROVE IInv'
  BY <1>3, SucceedStep, LateStep
<1>4. ASSUME NEW s \in Slot, MethodFails(s) \/ TimesOut(s) PROVE IInv'
  BY <1>4, FailStep DEF MethodFails, TimesOut
<1>5. ASSUME NEW k \in Key, HalfOpens(k) PROVE IInv'
  BY <1>5, HalfOpensStep
<1>6. CASE Tick
  BY <1>6, TickStep
<1>7. CASE UNCHANGED <<bound, state, pendingClose, warm, timer, window, calls>> /\ healthy' \in BOOLEAN
  BY <1>7 DEF IInv, TypeOK, Agrees, Called, Exists, OnTrial
<1> QED BY <1>1, <1>2, <1>3, <1>4, <1>5, <1>6, <1>7 DEF Next, Heals, vars, IInv, TypeOK

LEMMA Inductive == Spec => []IInv
<1>1. Init => IInv
  BY InitIInv
<1>2. IInv /\ [Next]_vars => IInv'
  BY StepKeepsIInv
<1> QED BY <1>1, <1>2, PTL DEF Spec

(* The parts of every breaker agree, whatever calls overlap.               *)
THEOREM PartsAgree == Spec => []Inv
BY IInvImpliesInv, Inductive, PTL

(* An open breaker lets no call pass, and half opens only after its reset  *)
(* timeout.                                                                *)
THEOREM OpenRests == Spec => RestsWhenOpen
<1> DEFINE A == \A k \in Key : state[k] = "open" =>
                  /\ state'[k] \in {"open", "halfOpen"}
                  /\ timer[k] > 0 => state'[k] = "open"
                  /\ \A s \in Slot : calls[s] = Free /\ calls'[s] # Free => KeyOf[calls'[s].method] # k
<1>1. IInv /\ [Next]_vars => [A]_vars
  <2> SUFFICES ASSUME IInv, Next, NEW k \in Key, state[k] = "open"
               PROVE  /\ state'[k] \in {"open", "halfOpen"}
                      /\ timer[k] > 0 => state'[k] = "open"
                      /\ \A s \in Slot : calls[s] = Free /\ calls'[s] # Free => KeyOf[calls'[s].method] # k
    OBVIOUS
  <2>0. TypeOK /\ ~pendingClose[k]
    BY DEF IInv, Agrees
  <2>1. ASSUME NEW s \in Slot, NEW m \in Method, Fire(s, m)
        PROVE  state' = state
               /\ \A t \in Slot : calls[t] = Free /\ calls'[t] # Free => KeyOf[calls'[t].method] # k
    <3>1. KeyOf[m] # k
      BY <2>0, <2>1 DEF Fire, Passes
    <3>2. calls'[s].method = m /\ \A t \in Slot \ {s} : calls'[t] = calls[t]
      BY <2>0, <2>1 DEF Fire, TypeOK
    <3> QED BY <2>1, <3>1, <3>2 DEF Fire
  <2>2. ASSUME NEW s \in Slot, MethodSucceeds(s) \/ MethodFails(s) \/ TimesOut(s)
        PROVE  state'[k] = "open" /\ \A t \in Slot : calls[t] = Free => calls'[t] = Free
    <3>1. KeyOf[calls[s].method] \in Key /\ calls[s] # Free /\ \A t \in Slot \ {s} : calls'[t] = calls[t]
      BY <2>2, Ending, FreeType DEF MethodSucceeds, MethodFails, TimesOut, Ends
    <3>2. state'[k] = "open"
      BY <2>0, <2>2, <3>1 DEF MethodSucceeds, MethodFails, TimesOut, Succeeded, Failed, Closed, Opened, Stays, TypeOK
    <3> QED BY <3>1, <3>2
  <2>3. ASSUME NEW s \in Slot, LateResultIgnored(s)
        PROVE  state' = state /\ \A t \in Slot : calls[t] = Free => calls'[t] = Free
    BY <2>0, <2>3 DEF LateResultIgnored, TypeOK
  <2>4. ASSUME NEW j \in Key, HalfOpens(j)
        PROVE  /\ state'[k] \in {"open", "halfOpen"} /\ (timer[k] > 0 => state'[k] = "open") /\ calls' = calls
    BY <2>0, <2>4 DEF HalfOpens, TypeOK
  <2>5. ASSUME Tick
        PROVE  state' = state /\ \A t \in Slot : calls[t] = Free => calls'[t] = Free
    BY <2>5 DEF Tick, Free, Less
  <2>6. ASSUME (\E m \in Method : Reject(m)) \/ Heals PROVE state' = state /\ calls' = calls
    BY <2>6 DEF Reject, Heals
  <2> QED BY <2>1, <2>2, <2>3, <2>4, <2>5, <2>6 DEF Next
<1>2. Spec => [][A]_vars
  BY <1>1, Inductive, PTL DEF Spec
<1> QED BY <1>2 DEF RestsWhenOpen

(* No call that may fail is in flight, and none will begin. *)
Calm(k) ==
  healthy /\ \A s \in Slot : calls[s].status = "running" /\ KeyOf[calls[s].method] = k => calls[s].sound
StaysCalm ==
  \A k \in Key : Calm(k) =>
    /\ Calm(k)'
    /\ state[k] = "closed" => state'[k] = "closed"
    /\ state[k] = "halfOpen" => state'[k] \in {"halfOpen", "closed"}

(* Once the methods succeed in time again and none of the calls from       *)
(* before is in flight any more, that is for good, a closed breaker stays  *)
(* closed, and one that is half open closes or stays as it is: it is only  *)
(* calls from before that open it once more.  What RecoversWhenHealthy     *)
(* rests on, besides fairness.                                             *)
THEOREM CalmIsForGood == Spec => [][StaysCalm]_vars
<1>1. ASSUME IInv, Next PROVE StaysCalm
  <2> SUFFICES ASSUME NEW k \in Key, Calm(k)
               PROVE  /\ Calm(k)'
                      /\ state[k] = "closed" => state'[k] = "closed"
                      /\ state[k] = "halfOpen" => state'[k] \in {"halfOpen", "closed"}
    BY DEF StaysCalm
  <2>0. TypeOK
    BY <1>1 DEF IInv
  <2>1. ASSUME NEW s \in Slot, NEW m \in Method, Fire(s, m)
        PROVE  Calm(k)' /\ state' = state
    <3>1. state' = state /\ healthy' = healthy
      BY <2>1 DEF Fire
    <3>2. calls'[s].sound = healthy /\ \A t \in Slot \ {s} : calls'[t] = calls[t]
      BY <2>0, <2>1 DEF Fire, TypeOK
    <3> QED BY <3>1, <3>2 DEF Calm
  <2>2. ASSUME NEW s \in Slot, MethodSucceeds(s)
        PROVE  Calm(k)' /\ (state'[k] = state[k] \/ state'[k] = "closed")
    <3>1. calls'[s] = Free /\ healthy' = healthy /\ \A t \in Slot \ {s} : calls'[t] = calls[t]
      BY <2>0, <2>2 DEF MethodSucceeds, Succeeded, Ends, TypeOK
    <3>2. state'[k] = state[k] \/ state'[k] = "closed"
      BY <2>0, <2>2 DEF MethodSucceeds, Succeeded, Closed, Stays, TypeOK
    <3> QED BY <3>1, <3>2, FreeType DEF Calm
  <2>3. ASSUME NEW s \in Slot, MethodFails(s) \/ TimesOut(s)
        PROVE  Calm(k)' /\ state'[k] = state[k]
    <3> DEFINE j == KeyOf[calls[s].method]
    <3>1. calls[s].status = "running" /\ ~calls[s].sound /\ Failed(j)
      BY <2>3 DEF MethodFails, TimesOut, Ends
    <3>2. j # k
      BY <3>1 DEF Calm
    <3>3. healthy' = healthy /\ state'[k] = state[k]
      BY <2>0, <3>1, <3>2 DEF Failed, Opened, Stays, TypeOK
    <3>4. calls'[s].status # "running" /\ \A t \in Slot \ {s} : calls'[t] = calls[t]
      <4>1. calls \in [Slot -> Call]
        BY <2>0 DEF TypeOK
      <4>2. CASE MethodFails(s)
        <5>1. calls' = [calls EXCEPT ![s] = Free]
          BY <4>2 DEF MethodFails, Ends
        <5> QED BY <4>1, <5>1, FreeType
      <4>3. CASE TimesOut(s)
        <5>1. calls' = [calls EXCEPT ![s] = [calls[s] EXCEPT !.status = "late", !.left = 0]]
          BY <4>1, <4>3 DEF TimesOut, Ends
        <5>2. calls'[s].status = "late"
          BY <4>1, <5>1 DEF Call
        <5> QED BY <4>1, <5>1, <5>2
      <4> QED BY <2>3, <4>2, <4>3
    <3> QED BY <3>3, <3>4 DEF Calm
  <2>4. ASSUME NEW s \in Slot, LateResultIgnored(s)
        PROVE  Calm(k)' /\ state' = state
    <3>1. calls'[s] = Free /\ healthy' = healthy /\ state' = state /\ \A t \in Slot \ {s} : calls'[t] = calls[t]
      BY <2>0, <2>4 DEF LateResultIgnored, TypeOK
    <3> QED BY <3>1, FreeType DEF Calm
  <2>5. ASSUME NEW j \in Key, HalfOpens(j)
        PROVE  Calm(k)' /\ (state[k] # "open" => state'[k] = state[k])
    BY <2>0, <2>5 DEF HalfOpens, TypeOK, Calm
  <2>6. ASSUME Tick PROVE Calm(k)' /\ state' = state
    <3>1. \A s \in Slot : /\ calls'[s].status = calls[s].status /\ calls'[s].method = calls[s].method
                          /\ calls'[s].sound = calls[s].sound
      BY <2>0, <2>6 DEF Tick, TypeOK, Call
    <3>2. healthy' = healthy /\ state' = state
      BY <2>6 DEF Tick
    <3> QED BY <3>1, <3>2 DEF Calm
  <2>7. ASSUME (\E m \in Method : Reject(m)) \/ Heals PROVE Calm(k)' /\ state' = state
    BY <2>7 DEF Reject, Heals, Calm
  <2> QED BY <1>1, <2>1, <2>2, <2>3, <2>4, <2>5, <2>6, <2>7 DEF Next
<1>2. IInv /\ [Next]_vars => [StaysCalm]_vars
  BY <1>1
<1> QED BY <1>2, Inductive, PTL DEF Spec
=============================================================================
