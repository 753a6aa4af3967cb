-------------------------- MODULE PollWorkerProofs --------------------------
(***************************************************************************)
(* Proofs about the workers of the two schedulers (PollWorker and          *)
(* WeatherWorker), for every interval, backoff range and bound of the      *)
(* history counter.                                                        *)
(***************************************************************************)
EXTENDS WeatherWorker, NaturalsInduction, WellFoundedInduction, TLAPS

(* The steps of a worker of either kind. *)
AnyNext == Next \/ StationNext

(* The loop's steps are the same under both names. *)
LEMMA StepsOfAny ==
  ASSUME AnyNext
  PROVE  \/ Connect \/ ReadFails \/ ReadSucceeds \/ StoreReading \/ Announce
         \/ InsertFails \/ Wake \/ Leave
         \/ ConnectDatabase \/ MakeProvider \/ MakeProviderFails
         \/ Stop \/ SensorChanges \/ ServerChanges \/ ConnectionLost
BY DEF AnyNext, Next, Worker, StationNext, StationWorker, FetchFails, FetchSucceeds,
       StoreWeatherReading, AnnounceStation, InsertWeatherFails, WakeStation, LeaveStation

(* Least picks one of its arguments and exceeds neither. *)
LEMMA LeastFacts ==
  ASSUME NEW a \in Nat, NEW b \in Nat
  PROVE  /\ Least(a, b) \in Nat
         /\ Least(a, b) <= a /\ Least(a, b) <= b
         /\ Least(a, b) = a \/ Least(a, b) = b
BY DEF Least

(* The effective interval is at least a second, whatever the row says. *)
LEMMA IntervalPositive == Interval \in Nat /\ Interval >= 1
BY PollAssumption DEF Interval

(* After a failed read the delay and the backoff stay in their ranges. *)
LEMMA DelaysInRange ==
  ASSUME backoff \in FirstBackoff..MaxBackoff
  PROVE  /\ RetryDelay \in 1..Interval
         /\ NextBackoff \in FirstBackoff..MaxBackoff
<1>1. backoff \in Nat /\ backoff >= 1 /\ backoff * 2 \in Nat /\ backoff * 2 >= FirstBackoff
  BY PollAssumption
<1>2. RetryDelay \in 1..Interval
  BY <1>1, IntervalPositive DEF RetryDelay, Least
<1>3. NextBackoff \in FirstBackoff..MaxBackoff
  BY <1>1, PollAssumption DEF NextBackoff, Least
<1> QED BY <1>2, <1>3

(* Type correctness: in particular the retry delay never exceeds the       *)
(* sensor's interval and never reaches zero, and the backoff stays between *)
(* its first value and its cap.                                            *)
THEOREM TypeCorrect == AnyWorkerSpec => []TypeOK
<1>1. Init => TypeOK
  <2> SUFFICES ASSUME Init PROVE TypeOK
    OBVIOUS
  <2>1. backoff \in FirstBackoff..MaxBackoff /\ waitS \in 1..Interval
    BY PollAssumption, IntervalPositive DEF Init
  <2>2. alarms \in 0..2 /\ fails \in 0..FailBound
    BY PollAssumption DEF Init
  <2> QED BY <2>1, <2>2 DEF Init, TypeOK
<1>2. TypeOK /\ [AnyNext]_vars => TypeOK'
  <2> SUFFICES ASSUME TypeOK, [AnyNext]_vars PROVE TypeOK'
    OBVIOUS
  <2> USE DEF loop, env, hist
  <2>1. CASE Connect
    BY <2>1 DEF TypeOK, Connect
  <2>2. CASE ReadFails
    <3>1. RetryDelay \in 1..Interval /\ NextBackoff \in FirstBackoff..MaxBackoff
      BY DelaysInRange DEF TypeOK
    <3>2. Least(alarms + 1, 2) \in 0..2 /\ Least(fails + 1, FailBound) \in 0..FailBound
      BY PollAssumption DEF TypeOK, Least
    <3> QED BY <2>2, <3>1, <3>2 DEF TypeOK, ReadFails, Recorded, Dropped, Log
  <2>3. CASE ReadSucceeds
    BY <2>3 DEF TypeOK, ReadSucceeds
  <2>4. CASE StoreReading
    <3>1. backoff' \in FirstBackoff..MaxBackoff /\ waitS' \in 1..Interval
          /\ fails' \in 0..FailBound
      BY <2>4, IntervalPositive, PollAssumption
         DEF TypeOK, StoreReading, CycleDone, BackoffAfterSuccess
    <3> QED BY <2>4, <3>1 DEF TypeOK, StoreReading, CycleDone
  <2>5. CASE Announce
    BY <2>5, IntervalPositive, PollAssumption
       DEF TypeOK, Announce, Recorded, Log, CycleDone, BackoffAfterSuccess
  <2>6. CASE InsertFails
    <3>1. CASE pc = "store"
      <4>1. conn' \in BOOLEAN
        BY <2>6, <3>1 DEF TypeOK, InsertFails
      <4> QED BY <2>6, <3>1, <4>1 DEF TypeOK, InsertFails
    <3>2. CASE pc = "announce"
      <4>1. Dropped("connect") /\ UNCHANGED <<stop, loop, reachable, writable, fails>>
            /\ pc' = "wait"
        BY <2>6, <3>2 DEF InsertFails
      <4>2. conn' \in BOOLEAN /\ muted' \in BOOLEAN
        BY <4>1 DEF TypeOK, Dropped
      <4>3. alarms' \in 0..2 /\ last' \in {"none", "connect", "read_error", "config_error"}
        BY <4>1 DEF TypeOK, Dropped, Log
      <4> QED BY <4>1, <4>2, <4>3 DEF TypeOK
    <3> QED BY <2>6, <3>1, <3>2 DEF InsertFails
  <2>7. CASE Wake
    BY <2>7, IntervalPositive DEF TypeOK, Wake
  <2>8. CASE Leave
    BY <2>8 DEF TypeOK, Leave
  <2>9. CASE Stop \/ SensorChanges \/ ServerChanges \/ ConnectionLost
    BY <2>9 DEF TypeOK, Stop, SensorChanges, ServerChanges, ConnectionLost
  <2>10. CASE UNCHANGED vars
    BY <2>10 DEF TypeOK, vars
  <2>11. CASE ConnectDatabase \/ MakeProvider
    BY <2>11 DEF TypeOK, ConnectDatabase, MakeProvider
  <2>12. CASE MakeProviderFails
    <3>1. muted' \in BOOLEAN
      BY <2>12 DEF MakeProviderFails, TypeOK
    <3>2. alarms' \in 0..2 /\ last' \in {"none", "connect", "read_error", "config_error"}
      BY <2>12 DEF MakeProviderFails, TypeOK, Log
    <3> QED BY <2>12, <3>1, <3>2 DEF MakeProviderFails, TypeOK
  <2> QED BY <2>1, <2>2, <2>3, <2>4, <2>5, <2>6, <2>7, <2>8, <2>9, <2>10, <2>11, <2>12, StepsOfAny
<1> QED BY <1>1, <1>2, PTL DEF AnyWorkerSpec, AnyNext

-----------------------------------------------------------------------------
(* The inductive invariant behind the event log: an alarm is only ever     *)
(* outstanding while the worker holds the sensor for down and has said so. *)
LogInv ==
  /\ up => last = "connect" /\ alarms = 0
  /\ ~reported => ~up /\ alarms = 0
  /\ pc \in {"connect", "provider"} => ~reported
  /\ reported /\ ~up /\ ~muted => last = "read_error"
  /\ alarms \in {0, 1}

LEMMA LogInvInductive == AnyWorkerSpec => []LogInv
<1>1. Init => LogInv
  BY DEF Init, LogInv
<1>2. TypeOK /\ LogInv /\ [AnyNext]_vars => LogInv'
  <2> SUFFICES ASSUME TypeOK, LogInv, [AnyNext]_vars PROVE LogInv'
    OBVIOUS
  <2> USE DEF loop, env, hist
  <2>1. CASE ReadFails
    <3>1. Least(0 + 1, 2) = 1
      BY DEF Least
    <3>2. MustReport => alarms = 0
      BY DEF MustReport, LogInv
    <3> QED BY <2>1, <3>1, <3>2 DEF TypeOK, LogInv, ReadFails, Recorded, Dropped, Log, MustReport
  <2>2. CASE StoreReading
    BY <2>2 DEF TypeOK, LogInv, StoreReading, CycleDone, MustAnnounce
  <2>3. CASE Announce
    BY <2>3 DEF LogInv, Announce, Recorded, Log, CycleDone
  <2>4. CASE InsertFails
    <3>1. CASE pc = "store"
      BY <2>4, <3>1 DEF LogInv, InsertFails
    <3>2. CASE pc = "announce"
      BY <2>4, <3>2 DEF TypeOK, LogInv, InsertFails, Dropped, Log
    <3> QED BY <2>4, <3>1, <3>2 DEF InsertFails
  <2>5. CASE Connect \/ ReadSucceeds \/ Wake \/ Leave
    BY <2>5 DEF LogInv, Connect, ReadSucceeds, Wake, Leave
  <2>6. CASE Stop \/ SensorChanges \/ ServerChanges \/ ConnectionLost
    BY <2>6 DEF LogInv, Stop, SensorChanges, ServerChanges, ConnectionLost
  <2>7. CASE UNCHANGED vars
    BY <2>7 DEF LogInv, vars
  <2>8. CASE ConnectDatabase \/ MakeProvider
    BY <2>8 DEF LogInv, ConnectDatabase, MakeProvider
  <2>9. CASE MakeProviderFails
    BY <2>9 DEF TypeOK, LogInv, MakeProviderFails, Log
  <2> QED BY <2>1, <2>2, <2>3, <2>4, <2>5, <2>6, <2>7, <2>8, <2>9, StepsOfAny
<1> QED BY <1>1, <1>2, TypeCorrect, PTL DEF AnyWorkerSpec, AnyNext

(* The events table never contradicts the worker's view of its sensor,     *)
(* however reads, inserts and the connection fail.                         *)
THEOREM LogTruth == AnyWorkerSpec => []LogTellsTruth
<1>1. LogInv => LogTellsTruth
  BY DEF LogInv, LogTellsTruth
<1> QED BY <1>1, LogInvInductive, PTL

(* At most one read_error per outage, for outages of any length. *)
THEOREM OneAlarm == AnyWorkerSpec => []OneAlarmPerOutage
<1>1. LogInv => OneAlarmPerOutage
  BY DEF LogInv, OneAlarmPerOutage
<1> QED BY <1>1, LogInvInductive, PTL

-----------------------------------------------------------------------------
(* The backoff.                                                            *)

(* f doubles from the first delay on, up to n. *)
Doubles(f, n) ==
  /\ f \in [0..n -> Nat] /\ f[0] = FirstBackoff
  /\ \A i \in 1..n : f[i] = 2 * f[i - 1]

(* Delays can be doubled any number of times: were there a number for      *)
(* which they could not, one less than the least would refute it.          *)
LEMMA DoublesExist == \A n \in Nat : \E f : Doubles(f, n)
<1> DEFINE T == {n \in Nat : ~\E f : Doubles(f, n)}
<1> SUFFICES ASSUME T # {} PROVE FALSE
  OBVIOUS
<1>1. PICK n \in T : \A m \in T : <<m, n>> \notin OpToRel(<, Nat)
  BY WFMin, NatLessThanWellFounded
<1>2. n \in Nat /\ \A m \in Nat : m < n => \E f : Doubles(f, m)
  BY <1>1 DEF OpToRel
<1>3. CASE n = 0
  <2>1. Doubles([i \in 0..0 |-> FirstBackoff], 0)
    BY PollAssumption DEF Doubles
  <2> QED BY <1>1, <1>3, <2>1
<1>4. CASE n > 0
  <2>1. n - 1 \in Nat /\ n - 1 < n
    BY <1>2, <1>4
  <2>2. PICK f : Doubles(f, n - 1)
    BY <1>2, <2>1
  <2> DEFINE g == [i \in 0..n |-> IF i = n THEN 2 * f[n - 1] ELSE f[i]]
  <2>3. \A i \in 0..(n - 1) : f[i] \in Nat
    BY <2>2 DEF Doubles
  <2>4. n - 1 \in 0..(n - 1) /\ \A i \in 0..n : i # n => i \in 0..(n - 1)
    BY <2>1
  <2>5. \A i \in 0..n : g[i] \in Nat
    BY <2>3, <2>4
  <2>6. g \in [0..n -> Nat]
    BY <2>5
  <2>7. g[0] = FirstBackoff
    BY <1>4, <2>1, <2>2 DEF Doubles
  <2>8. ASSUME NEW i \in 1..n PROVE g[i] = 2 * g[i - 1]
    <3>1. i \in 0..n /\ i - 1 \in 0..n /\ i - 1 # n
      BY <1>2, <2>8
    <3>2. g[i - 1] = f[i - 1]
      BY <3>1
    <3>3. CASE i = n
      BY <3>1, <3>2, <3>3
    <3>4. CASE i # n
      <4>1. i \in 1..(n - 1)
        BY <1>2, <3>4
      <4>2. g[i] = f[i]
        BY <3>1, <3>4
      <4> QED BY <2>2, <3>2, <4>1, <4>2 DEF Doubles
    <3> QED BY <3>3, <3>4
  <2> HIDE DEF g
  <2>9. Doubles(g, n)
    BY <2>6, <2>7, <2>8 DEF Doubles
  <2> QED BY <1>1, <2>9
<1> QED BY <1>2, <1>3, <1>4

(* Doubled is such a table. *)
LEMMA DoubledFacts == Doubles(Doubled, FailBound)
<1> DEFINE Table(f) == f = [n \in 0..FailBound |-> IF n = 0 THEN FirstBackoff ELSE 2 * f[n - 1]]
<1>1. PICK f : Doubles(f, FailBound)
  BY DoublesExist, PollAssumption
<1>2. Table(f)
  <2>1. f \in [0..FailBound -> Nat] /\ FailBound \in Nat
    BY <1>1, PollAssumption DEF Doubles
  <2>2. ASSUME NEW n \in 0..FailBound
        PROVE  f[n] = IF n = 0 THEN FirstBackoff ELSE 2 * f[n - 1]
    <3>1. n # 0 => n \in 1..FailBound
      OBVIOUS
    <3> QED BY <1>1, <3>1 DEF Doubles
  <2> QED BY <2>1, <2>2
<1>3. Doubled = CHOOSE d : Table(d)
  BY DEF Doubled
<1> HIDE DEF Table
<1>4. Table(Doubled)
  BY <1>2, <1>3
<1>5. \A n \in 0..FailBound : Doubled[n] = IF n = 0 THEN FirstBackoff ELSE 2 * Doubled[n - 1]
  BY <1>4 DEF Table
<1>6. FailBound \in Nat /\ Doubled = [n \in 0..FailBound |-> Doubled[n]]
  <2>1. Doubled = [n \in 0..FailBound |-> IF n = 0 THEN FirstBackoff ELSE 2 * Doubled[n - 1]]
    BY <1>4 DEF Table
  <2> QED BY <1>5, <2>1, PollAssumption
<1>7. \A n \in 0..FailBound : Doubled[n] \in Nat
  <2> DEFINE T == {n \in Nat : n \in 0..FailBound /\ Doubled[n] \notin Nat}
  <2> SUFFICES ASSUME T # {} PROVE FALSE
    BY <1>6
  <2>1. PICK n \in T : \A m \in T : <<m, n>> \notin OpToRel(<, Nat)
    BY WFMin, NatLessThanWellFounded
  <2>2. n \in 0..FailBound /\ Doubled[n] \notin Nat
        /\ \A m \in Nat : m < n => m \notin T
    BY <2>1 DEF OpToRel
  <2> HIDE DEF T
  <2>3. n # 0
    BY <1>5, <2>2, PollAssumption
  <2>4. n - 1 \in 0..FailBound /\ n - 1 \in Nat /\ n - 1 < n
    BY <1>6, <2>2, <2>3
  <2>5. n - 1 \notin T
    BY <2>2, <2>4
  <2>6. Doubled[n - 1] \in Nat
    BY <2>4, <2>5 DEF T
  <2>7. Doubled[n] = 2 * Doubled[n - 1]
    BY <1>5, <2>2, <2>3
  <2> QED BY <2>2, <2>6, <2>7
<1>8. \A n \in 1..FailBound : n \in 0..FailBound /\ n # 0
  BY <1>6
<1>9. \A n \in 1..FailBound : Doubled[n] = 2 * Doubled[n - 1]
  BY <1>5, <1>8
<1>10. 0 \in 0..FailBound
  BY <1>6
<1>11. Doubled[0] = FirstBackoff
  BY <1>5, <1>10
<1>12. Doubled \in [0..FailBound -> Nat]
  BY <1>6, <1>7
<1> QED BY <1>9, <1>11, <1>12 DEF Doubles

(* The delay doubles with each failed read since the last completed cycle, *)
(* up to the cap, where it stays however many more reads fail.  The        *)
(* hypothesis is about the history counter alone: it counts at least as    *)
(* far as the cap.                                                         *)
THEOREM BackoffLawAlways ==
  ASSUME MaxBackoff <= Doubled[FailBound]
  PROVE  AnyWorkerSpec => []BackoffLaw
<1>1. Init => BackoffLaw
  <2>1. Doubled[0] = FirstBackoff
    BY DoubledFacts DEF Doubles
  <2> QED BY <2>1, PollAssumption DEF Init, BackoffLaw, Least
<1>2. TypeOK /\ BackoffLaw /\ [AnyNext]_vars => BackoffLaw'
  <2> SUFFICES ASSUME TypeOK, BackoffLaw, [AnyNext]_vars PROVE BackoffLaw'
    OBVIOUS
  <2> USE DEF loop, env, hist
  <2>1. CASE ReadFails
    <3> DEFINE d == Doubled[fails]
    <3>1. fails \in 0..FailBound /\ d \in Nat /\ FailBound \in Nat
          /\ MaxBackoff \in Nat /\ backoff = Least(d, MaxBackoff)
      BY DoubledFacts, PollAssumption DEF TypeOK, BackoffLaw, Doubles
    <3>2. backoff' = Least(backoff * 2, MaxBackoff) /\ fails' = Least(fails + 1, FailBound)
      BY <2>1 DEF ReadFails, NextBackoff
    <3>3. CASE fails = FailBound
      <4>1. fails' = fails /\ MaxBackoff <= d
        BY <3>1, <3>2, <3>3 DEF Least
      <4> HIDE DEF d
      <4>2. backoff' = MaxBackoff /\ Least(d, MaxBackoff) = MaxBackoff
        BY <3>1, <3>2, <4>1 DEF Least
      <4> QED BY <4>1, <4>2 DEF BackoffLaw, d
    <3>4. CASE fails # FailBound
      <4>1. fails' = fails + 1 /\ fails + 1 \in 1..FailBound /\ (fails + 1) - 1 = fails
        BY <3>1, <3>2, <3>4 DEF Least
      <4>2. Doubled[fails'] = 2 * d
        BY <4>1, DoubledFacts DEF Doubles
      <4> HIDE DEF d
      <4>3. backoff' = Least(2 * d, MaxBackoff)
        BY <3>1, <3>2 DEF Least
      <4> QED BY <4>2, <4>3 DEF BackoffLaw
    <3> QED BY <3>3, <3>4
  <2>2. ASSUME CycleDone PROVE BackoffLaw'
    <3>1. Doubled[0] = FirstBackoff
      BY DoubledFacts DEF Doubles
    <3>2. fails' = 0 /\ backoff' = FirstBackoff
      BY <2>2 DEF CycleDone, BackoffAfterSuccess
    <3> QED BY <3>1, <3>2, PollAssumption DEF BackoffLaw, Least
  <2>3. CASE UNCHANGED <<backoff, fails>>
    BY <2>3 DEF BackoffLaw
  <2>4. CASE StoreReading
    <3>1. CycleDone \/ UNCHANGED <<backoff, fails>>
      BY <2>4 DEF StoreReading
    <3> QED BY <2>2, <2>3, <3>1
  <2>5. CASE Announce
    BY <2>2, <2>5 DEF Announce
  <2>6. CASE \/ Connect \/ ReadSucceeds \/ InsertFails \/ Wake \/ Leave
             \/ ConnectDatabase \/ MakeProvider \/ MakeProviderFails
             \/ Stop \/ SensorChanges \/ ServerChanges \/ ConnectionLost
    <3>1. UNCHANGED <<backoff, fails>>
      BY <2>6 DEF Connect, ReadSucceeds, InsertFails, Wake, Leave, ConnectDatabase,
                  MakeProvider, MakeProviderFails, Stop, SensorChanges, ServerChanges,
                  ConnectionLost
    <3> QED BY <2>3, <3>1
  <2>7. CASE UNCHANGED vars
    BY <2>3, <2>7 DEF vars
  <2> QED BY <2>1, <2>4, <2>5, <2>6, <2>7, StepsOfAny
<1> QED BY <1>1, <1>2, TypeCorrect, PTL DEF AnyWorkerSpec, AnyNext

-----------------------------------------------------------------------------
(* The worker keeps the promise that reload and shutdown rely on: whatever *)
(* the sensor and the database do, the main thread only ever sees a        *)
(* WorkerLife, which never starts a cycle after it could see stop_.        *)
THEOREM PollWorkerIsLife == AnyWorkerSpec => ImplementsLife
<1>1. Init => Life!Init
  BY DEF Init, Life!Init
<1>2. TypeOK /\ [AnyNext]_vars => [Life!Next]_(Life!vars)
  <2> SUFFICES ASSUME TypeOK, [AnyNext]_vars PROVE [Life!Next]_(Life!vars)
    OBVIOUS
  <2> USE DEF loop, env, hist
  <2>1. CASE Connect
    BY <2>1 DEF Connect, Life!Next, Life!Finish, Life!vars
  <2>2. CASE ReadFails
    BY <2>2 DEF ReadFails, Life!Next, Life!Finish
  <2>3. CASE ReadSucceeds
    BY <2>3 DEF ReadSucceeds, Life!vars
  <2>4. CASE StoreReading
    BY <2>4 DEF StoreReading, CycleDone, Life!Next, Life!Finish, Life!vars
  <2>5. CASE Announce
    BY <2>5 DEF Announce, CycleDone, Life!Next, Life!Finish
  <2>6. CASE InsertFails
    BY <2>6 DEF InsertFails, Life!Next, Life!Finish
  <2>7. CASE Wake
    BY <2>7 DEF Wake, StopSeen, Life!Next, Life!Wake
  <2>8. CASE Leave
    BY <2>8 DEF Leave, StopSeen, Life!Next, Life!Leave
  <2>9. CASE Stop
    BY <2>9 DEF Stop, Life!Next, Life!Stop
  <2>10. CASE SensorChanges \/ ServerChanges \/ ConnectionLost
    BY <2>10 DEF SensorChanges, ServerChanges, ConnectionLost, Life!vars
  <2>11. CASE UNCHANGED vars
    BY <2>11 DEF vars, Life!vars
  <2>12. CASE ConnectDatabase \/ MakeProvider \/ MakeProviderFails
    BY <2>12 DEF ConnectDatabase, MakeProvider, MakeProviderFails, Life!Next, Life!Finish, Life!vars
  <2> QED BY <2>1, <2>2, <2>3, <2>4, <2>5, <2>6, <2>7, <2>8, <2>9, <2>10, <2>11, <2>12, StepsOfAny
<1> QED BY <1>1, <1>2, TypeCorrect, PTL DEF AnyWorkerSpec, AnyNext, ImplementsLife, Life!Spec
=============================================================================
