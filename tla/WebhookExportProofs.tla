------------------------ MODULE WebhookExportProofs ------------------------
(***************************************************************************)
(* Proofs about WebhookExport for every set of requests and of writers,    *)
(* every clock bound, every kMaxRows and every batch size.                 *)
(***************************************************************************)
EXTENDS WebhookExport, FiniteSetTheorems, TLAPS

(* The state of a runner's locals is typed. *)
LEMMA EndRunTyped ==
  ASSUME TypeOK, NEW r \in Runners, NEW p \in {"idle", "find", "exited"}, EndRun(r, p)
  PROVE  /\ pc' \in [Runners -> {"idle", "find", "wait", "now", "query", "send", "log", "mark", "exited"}]
         /\ cur' \in [Runners -> 0..MaxTime] /\ upto' \in [Runners -> 0..MaxTime]
         /\ fresh' \in [Runners -> SUBSET Times] /\ newest' \in [Runners -> 0..MaxTime]
BY ExportAssumption DEF TypeOK, EndRun, Go

(* A reception keeps the counters in range and never un-receives. *)
LEMMA ReceiveFacts ==
  ASSUME sent \in [Times -> 0..2], NEW S, Receive(S)
  PROVE  /\ sent' \in [Times -> 0..2]
         /\ \A t \in Times : (sent[t] > 0 \/ t \in S) => sent'[t] > 0
         /\ \A t \in Times : sent'[t] > 0 => (sent[t] > 0 \/ t \in S)
BY DEF Receive

(* The initial state is typed. *)
LEMMA TypeInit == Init => TypeOK
<1> SUFFICES ASSUME Init PROVE TypeOK
  OBVIOUS
<1>1. pc \in [Runners -> {"idle", "find", "wait", "now", "query", "send", "log", "mark", "exited"}]
  BY DEF Init, Home
<1>2. /\ clock \in Times /\ readings \in SUBSET Times /\ stamp \in [Writers -> 0..MaxTime]
      /\ wm \in 0..MaxTime /\ sent \in [Times -> 0..2]
      /\ latest \in 0..MaxTime /\ late \in SUBSET Times /\ cut \in SUBSET Times
  BY ExportAssumption DEF Init, Times
<1>3. /\ cur \in [Runners -> 0..MaxTime] /\ upto \in [Runners -> 0..MaxTime]
      /\ fresh \in [Runners -> SUBSET Times] /\ newest \in [Runners -> 0..MaxTime]
  BY ExportAssumption DEF Init
<1> QED BY <1>1, <1>2, <1>3 DEF Init, TypeOK

(* TypeOK is an invariant of every behaviour of the webhook export. *)
THEOREM TypeCorrect == Spec => []TypeOK
<1>1. Init => TypeOK
  BY TypeInit
<1>2. TypeOK /\ [Next]_vars => TypeOK'
  <2> SUFFICES ASSUME TypeOK, [Next]_vars PROVE TypeOK'
    OBVIOUS
  <2> USE ExportAssumption DEF TypeOK, table, store
  <2>1. CASE Tick
    BY <2>1 DEF Tick, target, run, Times
  <2>2. ASSUME NEW w \in Writers, Stamp(w) PROVE TypeOK'
    BY <2>2 DEF Stamp, target, run, Times
  <2>3. ASSUME NEW w \in Writers, StoreReading(w) PROVE TypeOK'
    <3>1. stamp[w] \in Times
      BY <2>3 DEF StoreReading, Times
    <3>2. readings' \in SUBSET Times
      BY <2>3, <3>1 DEF StoreReading
    <3>3. stamp' \in [Writers -> 0..MaxTime]
      BY <2>3 DEF StoreReading
    <3>4. latest' \in 0..MaxTime /\ late' \in SUBSET Times
      BY <2>3, <3>1 DEF StoreReading
    <3> QED BY <2>3, <3>2, <3>3, <3>4 DEF StoreReading, target, run
  <2>4. ASSUME NEW w \in Writers, InsertFails(w) PROVE TypeOK'
    BY <2>4 DEF InsertFails, target, run, Times
  <2>5. ASSUME NEW b \in Times, Prune(b) PROVE TypeOK'
    BY <2>5 DEF Prune, target, run, Times
  <2>6. CASE FindTarget
    <3>1. Sched \in Runners
      BY DEF Runners
    <3>2. cause' \in SUBSET {"failure", "overlap"}
      BY <2>6 DEF FindTarget, Copy
    <3>3. /\ cur' \in [Runners -> 0..MaxTime]
          /\ pc' \in [Runners -> {"idle", "find", "wait", "now", "query", "send", "log", "mark", "exited"}]
      BY <2>6, <3>1 DEF FindTarget, Copy, Go
    <3> QED BY <2>6, <3>2, <3>3 DEF FindTarget, store, target
  <2>7. CASE WakeUp
    BY <2>7 DEF WakeUp, Go, store, target, run
  <2>8. CASE Leave
    BY <2>8, EndRunTyped DEF Leave, store, target, Runners
  <2>9. ASSUME NEW r \in Requests, RunNow(r) PROVE TypeOK'
    BY <2>9 DEF RunNow, Copy, Go, store, target, Runners
  <2>10. ASSUME NEW r \in Runners, TakeNow(r) PROVE TypeOK'
    BY <2>10 DEF TakeNow, Go, store, target, Times
  <2>11. ASSUME NEW r \in Runners, Query(r) PROVE TypeOK'
    <3>0. cut' \in SUBSET Times
      <4>1. LeftOut(cur[r], upto[r]) \subseteq Times
        BY DEF LeftOut, InWindow
      <4>2. cut' = cut \/ cut' = cut \cup LeftOut(cur[r], upto[r])
        BY <2>11 DEF Query
      <4> QED BY <4>1, <4>2
    <3>1. CASE EndRun(r, Home(r))
      BY <2>11, <3>0, <3>1, EndRunTyped DEF Query, target, Home
    <3>2. CASE ~ EndRun(r, Home(r))
      <4>1. Window(cur[r], upto[r]) \subseteq Times
        BY DEF Window, Newest, InWindow
      <4>2. PICK n \in Window(cur[r], upto[r]) :
              /\ newest' = [newest EXCEPT ![r] = n]
              /\ fresh' = [fresh EXCEPT ![r] = Window(cur[r], upto[r])]
              /\ Go(r, "send") /\ UNCHANGED <<cur, upto>>
        BY <2>11, <3>2 DEF Query
      <4> QED
        BY <2>11, <3>0, <4>1, <4>2 DEF Query, Go, target, Times
    <3> QED BY <3>1, <3>2
  <2>12. ASSUME NEW r \in Runners, PostBatch(r) PROVE TypeOK'
    <3>1. sent' \in [Times -> 0..2]
      BY <2>12, ReceiveFacts DEF PostBatch
    <3>2. fresh' \in [Runners -> SUBSET Times]
      BY <2>12 DEF PostBatch, NextBatch
    <3> QED BY <2>12, <3>1, <3>2 DEF PostBatch, Go, store, target
  <2>13. ASSUME NEW r \in Runners, PostFails(r) PROVE TypeOK'
    <3>1. sent' \in [Times -> 0..2]
      BY <2>13, ReceiveFacts DEF PostFails
    <3> QED BY <2>13, <3>1, EndRunTyped DEF PostFails, Home, store, target
  <2>14. ASSUME NEW r \in Runners, LogRun(r) PROVE TypeOK'
    BY <2>14 DEF LogRun, Go, store, target, run
  <2>15. ASSUME NEW r \in Runners, DatabaseFails(r) PROVE TypeOK'
    BY <2>15, EndRunTyped DEF DatabaseFails, Home, store, target
  <2>16. ASSUME NEW r \in Runners, SetWatermark(r) PROVE TypeOK'
    BY <2>16, EndRunTyped DEF SetWatermark, Home, store
  <2>17. CASE SetStatus
    BY <2>17 DEF SetStatus, store, run
  <2>18. CASE Stop
    BY <2>18 DEF Stop, store, run
  <2>19. CASE Reload
    BY <2>19 DEF Reload, Go, store, run
  <2>20. CASE Crash
    <3>1. pc' \in [Runners -> {"idle", "find", "wait", "now", "query", "send", "log", "mark", "exited"}]
      BY <2>20 DEF Crash, Home
    <3>2. /\ cur' \in [Runners -> 0..MaxTime] /\ upto' \in [Runners -> 0..MaxTime]
          /\ fresh' \in [Runners -> SUBSET Times] /\ newest' \in [Runners -> 0..MaxTime]
      BY <2>20 DEF Crash
    <3> QED BY <2>20, <3>1, <3>2 DEF Crash, store
  <2>21. CASE HealthChanges
    BY <2>21 DEF HealthChanges, store, target, run
  <2>22. CASE UNCHANGED vars
    BY <2>22 DEF vars, store, target, run
  <2> QED
    BY <2>1, <2>2, <2>3, <2>4, <2>5, <2>6, <2>7, <2>8, <2>9, <2>10, <2>11, <2>12, <2>13,
       <2>14, <2>15, <2>16, <2>17, <2>18, <2>19, <2>20, <2>21, <2>22
    DEF Next, RunExport
<1> QED BY <1>1, <1>2, PTL DEF Spec

-----------------------------------------------------------------------------
(* The delivery invariant.  m covers a reading when a resume from m would  *)
(* skip it; what m covers was received, is in S, or is lost for a reason   *)
(* the history holds.                                                      *)

Covers(m, S) ==
  \A t \in Times :
    t = m \/ (t \in readings /\ t <= m) => sent[t] > 0 \/ t \in late \cup cut \/ t \in S

UpToLatest ==
  /\ \A t \in readings : t <= latest
  /\ wm <= latest
  /\ \A r \in Runners : cur[r] <= latest /\ newest[r] <= latest

Delivered ==
  /\ Covers(wm, {})
  /\ \A r \in Runners :
       /\ Covers(cur[r], {})
       /\ Covers(newest[r], fresh[r])
       /\ pc[r] # "send" => fresh[r] = {}
       /\ pc[r] \in {"send", "log", "mark"} => newest[r] # 0

DeliveryInv == TypeOK /\ UpToLatest /\ Delivered

(* A row in the window that is not kept is one the LIMIT left out. *)
LEMMA WindowSplit ==
  ASSUME TypeOK, NEW from \in 0..MaxTime, NEW to \in 0..MaxTime
  PROVE  /\ Window(from, to) \subseteq {t \in readings : t > from /\ t <= to}
         /\ LeftOut(from, to) \subseteq readings
         /\ \A t \in readings : t > from /\ t <= to => t \in Window(from, to) \cup LeftOut(from, to)
<1> USE DEF Window, LeftOut, InWindow
<1>1. \A t \in readings : t \in Int
  BY DEF TypeOK, Times
<1>2. \A t \in readings : t > from /\ t <= to => t \in InWindow(from, to)
  BY <1>1
<1>3. Newest(InWindow(from, to)) \subseteq InWindow(from, to)
  BY DEF Newest
<1> QED BY <1>2, <1>3

(* A run leaves rows out only when more are stored than it may take. *)
LEMMA LeftOutOverflows ==
  ASSUME TypeOK, NEW from, NEW to, LeftOut(from, to) # {}
  PROVE  Cardinality(readings) > Cap
<1> DEFINE S == InWindow(from, to)
<1>1. PICK t \in LeftOut(from, to) : TRUE
  OBVIOUS
<1> DEFINE Above == {u \in S : u > t}
<1>2. t \in readings /\ Above \subseteq readings /\ ~(Cardinality(Above) < Cap)
  BY <1>1 DEF LeftOut, Newest, InWindow
<1>3. readings \subseteq Times /\ IsFiniteSet(Times)
  BY FS_Interval, ExportAssumption DEF TypeOK, Times
<1>4. IsFiniteSet(readings) /\ IsFiniteSet(Above)
  BY <1>2, <1>3, FS_Subset
<1>5. t \notin Above
  BY <1>2, <1>3 DEF Times
<1>6. IsFiniteSet(Above \cup {t}) /\ Cardinality(Above \cup {t}) = Cardinality(Above) + 1
  BY <1>4, <1>5, FS_AddElement
<1>7. Cardinality(Above \cup {t}) <= Cardinality(readings)
  BY <1>2, <1>4, FS_Subset
<1>8. Cardinality(Above) \in Nat /\ Cardinality(readings) \in Nat
  BY <1>4, FS_CardinalityType
<1> HIDE DEF Above
<1> QED BY <1>2, <1>6, <1>7, <1>8, ExportAssumption

(* A step that adds no reading, forgets no loss and un-receives nothing    *)
(* keeps coverage.                                                         *)
LEMMA CoversKept ==
  ASSUME readings' \subseteq readings, late \subseteq late', cut \subseteq cut',
         \A t \in Times : sent[t] > 0 => sent'[t] > 0,
         NEW m, NEW S, Covers(m, S)
  PROVE  Covers(m, S)'
BY DEF Covers

(* The delivery invariant holds initially and is kept by every step. *)
LEMMA DeliveryInvInductive ==
  /\ Init => DeliveryInv
  /\ DeliveryInv /\ [Next]_vars /\ TypeOK' => DeliveryInv'
<1>1. Init => DeliveryInv
  <2> SUFFICES ASSUME Init PROVE UpToLatest /\ Delivered
    BY TypeInit DEF DeliveryInv
  <2>1. \A S : Covers(0, S)
    BY DEF Covers, Times, Init
  <2>2. UpToLatest
    BY DEF Init, UpToLatest
  <2>3. \A r \in Runners : pc[r] \in {"find", "idle"}
    BY DEF Init, Home
  <2> QED BY <2>1, <2>2, <2>3 DEF Init, Delivered
<1>2. DeliveryInv /\ [Next]_vars /\ TypeOK' => DeliveryInv'
  <2> SUFFICES ASSUME DeliveryInv, [Next]_vars, TypeOK' PROVE (UpToLatest /\ Delivered)'
    BY DEF DeliveryInv
  <2> USE DEF DeliveryInv, table
  <2>q. ASSUME UNCHANGED <<readings, latest, late, cut, wm, pc, run, sent>>
        PROVE  (UpToLatest /\ Delivered)'
    BY <2>q DEF UpToLatest, Delivered, Covers, run
  <2>1. CASE Tick
    BY <2>1, <2>q DEF Tick, target
  <2>2. ASSUME NEW w \in Writers, Stamp(w) PROVE (UpToLatest /\ Delivered)'
    BY <2>2, <2>q DEF Stamp, target
  <2>k. ASSUME \A m \in 0..MaxTime : \A S : Covers(m, S) /\ m <= latest => Covers(m, S)',
               UNCHANGED <<wm, pc, run, sent>>
        PROVE  Delivered'
    <3>1. Covers(wm, {})'
      BY <2>k DEF Delivered, UpToLatest, TypeOK
    <3>2. \A r \in Runners : Covers(cur[r], {})' /\ Covers(newest[r], fresh[r])'
      BY <2>k DEF Delivered, UpToLatest, TypeOK, run
    <3> QED BY <2>k, <3>1, <3>2 DEF Delivered, run
  <2>3. ASSUME NEW w \in Writers, StoreReading(w) PROVE (UpToLatest /\ Delivered)'
    <3> DEFINE n == stamp[w]
    <3>0. n \in Times /\ UNCHANGED <<wm, pc, run, sent, cut>> /\ readings' = readings \cup {n}
      BY <2>3 DEF StoreReading, TypeOK, Times, target
    <3>1. /\ latest' = IF n > latest THEN n ELSE latest
          /\ late' = IF n < latest THEN late \cup ({n} \ readings) ELSE late
      BY <2>3 DEF StoreReading
    <3> HIDE DEF n
    <3>2. n \in Int /\ latest \in Int /\ wm \in Int
          /\ \A r \in Runners : cur[r] \in Int /\ newest[r] \in Int
      BY <3>0 DEF TypeOK, Times
    <3>3. \A t \in readings : t \in Int
      BY DEF TypeOK, Times
    <3>4. UpToLatest'
      BY <3>0, <3>1, <3>2, <3>3 DEF UpToLatest, run
    <3>5. ASSUME NEW m \in 0..MaxTime, NEW S, Covers(m, S), m <= latest PROVE Covers(m, S)'
      <4> SUFFICES ASSUME NEW t \in Times, t = m \/ (t \in readings' /\ t <= m)
                   PROVE  sent'[t] > 0 \/ t \in late' \cup cut' \/ t \in S
        BY DEF Covers
      <4>1. CASE t = m \/ t \in readings
        BY <4>1, <3>0, <3>1, <3>5 DEF Covers
      <4>2. CASE t # m /\ t \notin readings
        <5>1. t = n /\ t < latest
          BY <4>2, <3>0, <3>2, <3>5
        <5> QED BY <5>1, <4>2, <3>1
      <4> QED BY <4>1, <4>2
    <3> QED BY <2>k, <3>0, <3>4, <3>5
  <2>4. ASSUME NEW w \in Writers, InsertFails(w) PROVE (UpToLatest /\ Delivered)'
    BY <2>4, <2>q DEF InsertFails, target
  <2>5. ASSUME NEW b \in Times, Prune(b) PROVE (UpToLatest /\ Delivered)'
    <3>1. UpToLatest'
      BY <2>5 DEF Prune, UpToLatest, target, run
    <3>2. \A m, S : Covers(m, S) => Covers(m, S)'
      BY <2>5, CoversKept DEF Prune
    <3> QED BY <2>5, <2>k, <3>1, <3>2 DEF Prune, target
  <2>s. ASSUME UNCHANGED store, \A t \in Times : sent[t] > 0 => sent'[t] > 0
        PROVE  \A m, S : Covers(m, S) => Covers(m, S)'
    BY <2>s, CoversKept DEF store
  <2>e. ASSUME NEW r \in Runners, NEW p \in {"find", "idle", "exited"}, EndRun(r, p),
               UNCHANGED store, wm' = wm \/ (wm' = newest[r] /\ Covers(newest[r], {})),
               \A t \in Times : sent[t] > 0 => sent'[t] > 0
        PROVE  (UpToLatest /\ Delivered)'
    <3>1. UpToLatest'
      BY <2>e DEF EndRun, UpToLatest, TypeOK, Times, store
    <3>2. \A S : Covers(0, S)'
      BY DEF Covers, Times
    <3>3. Covers(wm, {})'
      BY <2>e, <2>s DEF Delivered
    <3>4. ASSUME NEW q \in Runners
          PROVE  /\ Covers(cur[q], {})'
                 /\ Covers(newest[q], fresh[q])'
                 /\ pc'[q] # "send" => fresh'[q] = {}
                 /\ pc'[q] \in {"send", "log", "mark"} => newest'[q] # 0
      <4>1. CASE q = r
        BY <2>e, <4>1, <3>2 DEF EndRun, Go, TypeOK
      <4>2. CASE q # r
        BY <2>e, <2>s, <4>2 DEF EndRun, Go, TypeOK, Delivered
      <4> QED BY <4>1, <4>2
    <3> QED BY <3>1, <3>3, <3>4 DEF Delivered
  <2>p. ASSUME NEW r \in Runners, NEW p, Go(r, p), UNCHANGED <<store, wm, cur, fresh, newest, sent>>,
               pc[r] # "send" /\ p # "send",
               p \in {"log", "mark"} => pc[r] \in {"log", "mark"}
        PROVE  (UpToLatest /\ Delivered)'
    <3>1. UpToLatest'
      BY <2>p DEF UpToLatest, store
    <3>2. \A m, S : Covers(m, S) => Covers(m, S)'
      BY <2>p, <2>s
    <3>3. Covers(wm, {})'
      BY <2>p, <3>2 DEF Delivered
    <3>4. \A q \in Runners : Covers(cur[q], {})' /\ Covers(newest[q], fresh[q])'
      BY <2>p, <3>2 DEF Delivered
    <3>5. \A q \in Runners :
            /\ pc'[q] # "send" => fresh'[q] = {}
            /\ pc'[q] \in {"send", "log", "mark"} => newest'[q] # 0
      BY <2>p DEF Delivered, Go, TypeOK
    <3> QED BY <3>1, <3>3, <3>4, <3>5 DEF Delivered
  <2>c. ASSUME NEW r \in Runners, NEW p \in {"wait", "now"}, Go(r, p), Copy(r), pc[r] # "send",
               UNCHANGED <<store, wm, fresh, newest, sent>>
        PROVE  (UpToLatest /\ Delivered)'
    <3>1. UpToLatest'
      BY <2>c DEF UpToLatest, Copy, TypeOK, store
    <3>2. \A m, S : Covers(m, S) => Covers(m, S)'
      BY <2>c, <2>s
    <3>3. Covers(wm, {})'
      BY <2>c, <3>2 DEF Delivered
    <3>4. \A q \in Runners : Covers(cur[q], {})' /\ Covers(newest[q], fresh[q])'
      BY <2>c, <3>2, <3>3 DEF Delivered, Copy, TypeOK
    <3>5. \A q \in Runners :
            /\ pc'[q] # "send" => fresh'[q] = {}
            /\ pc'[q] \in {"send", "log", "mark"} => newest'[q] # 0
      BY <2>c DEF Delivered, Go, TypeOK
    <3> QED BY <3>1, <3>3, <3>4, <3>5 DEF Delivered
  <2>6. CASE FindTarget
    <3>0. Sched \in Runners
      BY DEF Runners
    <3>1. CASE active
      BY <2>6, <3>0, <3>1, <2>c DEF FindTarget, store, target
    <3>2. CASE ~active
      <4>1. UpToLatest'
        BY <2>6, <3>2 DEF FindTarget, UpToLatest, store, target
      <4> QED BY <2>6, <3>0, <3>2, <4>1, <2>p DEF FindTarget, store, target
    <3> QED BY <3>1, <3>2
  <2>7. CASE WakeUp
    BY <2>7, <2>p DEF WakeUp, store, target, run, Runners
  <2>8. CASE Leave
    BY <2>8, <2>e DEF Leave, store, target, Runners
  <2>9. ASSUME NEW r \in Requests, RunNow(r) PROVE (UpToLatest /\ Delivered)'
    BY <2>9, <2>c DEF RunNow, store, target, Runners
  <2>10. ASSUME NEW r \in Runners, TakeNow(r) PROVE (UpToLatest /\ Delivered)'
    BY <2>10, <2>p DEF TakeNow, store, target
  <2>11. ASSUME NEW r \in Runners, Query(r) PROVE (UpToLatest /\ Delivered)'
    <3> DEFINE rows == Window(cur[r], upto[r])
    <3> DEFINE left == LeftOut(cur[r], upto[r])
    <3>0. UNCHANGED <<readings, latest, late, wm, sent>>
      BY <2>11 DEF Query, target
    <3>1. CASE EndRun(r, Home(r)) /\ UNCHANGED cut
      BY <2>11, <3>1, <2>e DEF Query, Home, store, target
    <3>2. CASE ~ (EndRun(r, Home(r)) /\ UNCHANGED cut)
      <4>1. /\ rows \subseteq {t \in readings : t > cur[r] /\ t <= upto[r]}
            /\ \A t \in readings : t > cur[r] /\ t <= upto[r] => t \in rows \cup left
        BY WindowSplit DEF TypeOK
      <4>2. PICK n \in rows : /\ \A t \in rows : t <= n
                              /\ newest' = [newest EXCEPT ![r] = n]
                              /\ fresh' = [fresh EXCEPT ![r] = rows]
                              /\ Go(r, "send") /\ UNCHANGED cur
                              /\ cut' = cut \cup left
        BY <2>11, <3>2 DEF Query
      <4> HIDE DEF rows, left
      <4>0. PICK R : R = rows
        OBVIOUS
      <4>3. n \in readings /\ n \in Times /\ n <= upto[r] /\ upto[r] \in Int /\ cur[r] \in Int
        BY <4>1, <4>2 DEF TypeOK
      <4>4. UpToLatest'
        BY <4>2, <4>3, <3>0 DEF UpToLatest, TypeOK
      <4>5. Covers(n, R)'
        <5> SUFFICES ASSUME NEW t \in Times, t \in readings, t <= n, t # n
                     PROVE  sent[t] > 0 \/ t \in late \cup cut' \/ t \in R
          BY <3>0, <4>0, <4>2 DEF Covers
        <5>1. t \in Int /\ t <= upto[r]
          BY <4>3 DEF Times
        <5>2. CASE t <= cur[r]
          BY <5>2, <4>2 DEF Delivered, Covers
        <5>3. CASE t > cur[r]
          BY <5>1, <5>3, <4>0, <4>1, <4>2
        <5> QED BY <5>1, <5>2, <5>3, <4>3
      <4>7. \A m, S : Covers(m, S) => Covers(m, S)'
        BY <3>0, <4>2, CoversKept
      <4>8. Covers(wm, {})'
        BY <3>0, <4>7 DEF Delivered
      <4>9. \A q \in Runners : Covers(cur[q], {})'
        BY <4>2, <4>7 DEF Delivered
      <4>10. \A q \in Runners : Covers(newest[q], fresh[q])'
        <5> TAKE q \in Runners
        <5>1. CASE q = r
          BY <5>1, <4>0, <4>2, <4>5 DEF TypeOK
        <5>2. CASE q # r
          BY <5>2, <4>2, <4>7 DEF Delivered, TypeOK
        <5> QED BY <5>1, <5>2
      <4>11. \A q \in Runners :
              /\ pc'[q] # "send" => fresh'[q] = {}
              /\ pc'[q] \in {"send", "log", "mark"} => newest'[q] # 0
        BY <4>2, <4>3 DEF Delivered, Go, TypeOK, Times
      <4> QED BY <4>4, <4>8, <4>9, <4>10, <4>11 DEF Delivered
    <3> QED BY <3>1, <3>2
  <2>12. ASSUME NEW r \in Runners, PostBatch(r) PROVE (UpToLatest /\ Delivered)'
    <3> DEFINE B == NextBatch(fresh[r])
    <3>1. /\ UNCHANGED <<store, wm, cur, newest>>
          /\ fresh' = [fresh EXCEPT ![r] = @ \ B]
          /\ Go(r, IF fresh'[r] = {} THEN "log" ELSE "send")
      BY <2>12 DEF PostBatch, target
    <3>2. \A t \in Times : (sent[t] > 0 \/ t \in B) => sent'[t] > 0
      BY <2>12, ReceiveFacts DEF PostBatch, TypeOK
    <3> HIDE DEF B
    <3>3. UpToLatest'
      BY <3>1 DEF UpToLatest, store
    <3>4. \A m, S : Covers(m, S) => Covers(m, S)'
      BY <3>1, <3>2, <2>s
    <3>5. Covers(wm, {})'
      BY <3>1, <3>4 DEF Delivered
    <3>6. \A q \in Runners : Covers(cur[q], {})'
      BY <3>1, <3>4 DEF Delivered
    <3>7. \A m, S, T : Covers(m, S) /\ S \ B \subseteq T => Covers(m, T)'
      BY <3>1, <3>2 DEF Covers, store
    <3>8. \A q \in Runners : Covers(newest[q], fresh[q])'
      <4> TAKE q \in Runners
      <4>1. CASE q = r
        <5>1. fresh'[r] = fresh[r] \ B /\ newest'[r] = newest[r]
          BY <3>1 DEF TypeOK
        <5> QED BY <4>1, <5>1, <3>7 DEF Delivered
      <4>2. CASE q # r
        BY <4>2, <3>1, <3>4 DEF Delivered, TypeOK
      <4> QED BY <4>1, <4>2
    <3>9. \A q \in Runners :
            /\ pc'[q] # "send" => fresh'[q] = {}
            /\ pc'[q] \in {"send", "log", "mark"} => newest'[q] # 0
      BY <2>12, <3>1 DEF PostBatch, Delivered, Go, TypeOK
    <3> QED BY <3>3, <3>5, <3>6, <3>8, <3>9 DEF Delivered
  <2>13. ASSUME NEW r \in Runners, PostFails(r) PROVE (UpToLatest /\ Delivered)'
    <3>1. \A t \in Times : sent[t] > 0 => sent'[t] > 0
      BY <2>13, ReceiveFacts DEF PostFails, TypeOK
    <3> QED BY <2>13, <3>1, <2>e DEF PostFails, Home, store, target
  <2>14. ASSUME NEW r \in Runners, LogRun(r) PROVE (UpToLatest /\ Delivered)'
    BY <2>14, <2>p DEF LogRun, store, target, run
  <2>15. ASSUME NEW r \in Runners, DatabaseFails(r) PROVE (UpToLatest /\ Delivered)'
    BY <2>15, <2>e DEF DatabaseFails, Home, store, target
  <2>16. ASSUME NEW r \in Runners, SetWatermark(r) PROVE (UpToLatest /\ Delivered)'
    <3>1. Covers(newest[r], {})
      BY <2>16 DEF SetWatermark, Delivered
    <3> QED BY <2>16, <3>1, <2>e DEF SetWatermark, Home, store
  <2>17. CASE SetStatus
    BY <2>17, <2>q DEF SetStatus, store
  <2>18. CASE Stop
    BY <2>18, <2>q DEF Stop, store
  <2>19. CASE Reload
    <3>1. CASE active
      BY <2>19, <3>1, <2>p DEF Reload, store, run, Runners
    <3>2. CASE ~active
      BY <2>19, <3>2, <2>q DEF Reload, store
    <3> QED BY <3>1, <3>2
  <2>20. CASE Crash
    <3>1. UpToLatest'
      BY <2>20 DEF Crash, UpToLatest, TypeOK, Times, store
    <3>2. \A S : Covers(0, S)'
      BY DEF Covers, Times
    <3>3. Covers(wm, {})'
      BY <2>20, <2>s DEF Crash, Delivered
    <3>4. \A r \in Runners : /\ pc'[r] \in {"find", "idle", "exited"}
                             /\ cur'[r] = 0 /\ newest'[r] = 0 /\ fresh'[r] = {}
      BY <2>20 DEF Crash, Home
    <3>5. \A r \in Runners : Covers(cur[r], {})' /\ Covers(newest[r], fresh[r])'
      BY <3>2, <3>4
    <3> QED BY <3>1, <3>3, <3>4, <3>5 DEF Delivered
  <2>21. CASE HealthChanges
    BY <2>21, <2>q DEF HealthChanges, store, target
  <2>22. CASE UNCHANGED vars
    BY <2>22, <2>q DEF vars, store, target
  <2> QED
    BY <2>1, <2>2, <2>3, <2>4, <2>5, <2>6, <2>7, <2>8, <2>9, <2>10, <2>11, <2>12, <2>13,
       <2>14, <2>15, <2>16, <2>17, <2>18, <2>19, <2>20, <2>21, <2>22
    DEF Next, RunExport
<1> QED BY <1>1, <1>2

(* No gap, for every instance: a stored reading at or before               *)
(* last_export_ts is delivered, whatever runs overlap, fail or are cut off *)
(* by a crash, unless it became visible after one stamped later or a run   *)
(* that met more than kMaxRows rows left it out.                           *)
THEOREM NoGapAlways == Spec => []NoGap
<1>1. DeliveryInv => NoGap
  BY DEF DeliveryInv, Delivered, Covers, NoGap, TypeOK
<1> QED BY <1>1, TypeCorrect, DeliveryInvInductive, PTL DEF Spec

(* The first of the two ways to lose a row needs a second writer: what one *)
(* writer inserts becomes visible in the order it was stamped.             *)
InOrder ==
  /\ late = {}
  /\ latest <= clock
  /\ \A w \in Writers : stamp[w] <= clock /\ (stamp[w] # 0 => latest <= stamp[w])

THEOREM OneWriterIsNeverLate ==
  ASSUME \A v, w \in Writers : v = w
  PROVE  Spec => [](late = {})
<1>1. Init => InOrder
  BY DEF Init, InOrder
<1>2. TypeOK /\ InOrder /\ [Next]_vars => InOrder'
  <2> SUFFICES ASSUME TypeOK, InOrder, [Next]_vars PROVE InOrder'
    OBVIOUS
  <2> USE DEF TypeOK, InOrder, Times, table, store
  <2>1. CASE Tick
    BY <2>1 DEF Tick
  <2>2. ASSUME NEW w \in Writers, Stamp(w) \/ StoreReading(w) \/ InsertFails(w) PROVE InOrder'
    <3>1. \A v \in Writers : v = w
      OBVIOUS
    <3>2. CASE Stamp(w)
      BY <3>1, <3>2 DEF Stamp
    <3>3. CASE StoreReading(w)
      <4>1. latest <= stamp[w] /\ stamp[w] \in Int /\ latest \in Int
        BY <3>3 DEF StoreReading
      <4>2. late' = late /\ stamp'[w] = 0 /\ latest' <= clock /\ clock' = clock
        BY <3>3, <4>1 DEF StoreReading
      <4> QED BY <3>1, <4>2
    <3>4. CASE InsertFails(w)
      BY <3>1, <3>4 DEF InsertFails
    <3> QED BY <2>2, <3>2, <3>3, <3>4
  <2>3. CASE \E b \in Times : Prune(b)
    BY <2>3 DEF Prune
  <2>4. CASE FindTarget \/ WakeUp \/ Leave \/ \E r \in Requests : RunNow(r)
    BY <2>4 DEF FindTarget, WakeUp, Leave, RunNow
  <2>5. CASE \E r \in Runners : RunExport(r) \/ PostFails(r) \/ DatabaseFails(r)
    BY <2>5 DEF RunExport, TakeNow, Query, PostBatch, LogRun, SetWatermark, PostFails, DatabaseFails
  <2>6. CASE SetStatus \/ Stop \/ Reload \/ Crash \/ HealthChanges \/ UNCHANGED vars
    BY <2>6 DEF SetStatus, Stop, Reload, Crash, HealthChanges, vars
  <2> QED BY <2>1, <2>2, <2>3, <2>4, <2>5, <2>6 DEF Next
<1>3. InOrder => late = {}
  BY DEF InOrder
<1> QED BY <1>1, <1>2, <1>3, TypeCorrect, PTL DEF Spec

(* The export implements at-least-once delivery, for every instance:       *)
(* inserts, prunes, receptions, watermark updates and queries that leave   *)
(* rows out are the abstract steps, everything else stutters.              *)
THEOREM ExportIsAtLeastOnce == Spec => ImplementsAtLeastOnce
<1> DEFINE Published == {t \in Times : sent[t] > 0}
<1>1. Init => Delivery!Init
  <2> SUFFICES ASSUME Init PROVE Delivery!Init
    OBVIOUS
  <2>1. \A t \in Times : ~(sent[t] > 0)
    BY DEF Init
  <2> QED BY <2>1 DEF Init, Delivery!Init
<1>2. DeliveryInv /\ [Next]_vars => [Delivery!Next]_(Delivery!vars)
  <2> SUFFICES ASSUME DeliveryInv, [Next]_vars PROVE [Delivery!Next]_(Delivery!vars)
    OBVIOUS
  <2> USE DEF DeliveryInv, table
  <2>q. ASSUME UNCHANGED <<readings, sent, wm, late, cut>> PROVE [Delivery!Next]_(Delivery!vars)
    BY <2>q DEF Delivery!vars
  <2>r. ASSUME NEW S, Receive(S), UNCHANGED <<readings, wm, late, cut>> PROVE [Delivery!Next]_(Delivery!vars)
    <3>1. \A t \in Times : sent[t] > 0 => sent'[t] > 0
      BY <2>r, ReceiveFacts DEF TypeOK
    <3>2. Published' \in SUBSET Times /\ Published \cap readings \subseteq Published'
      BY <3>1
    <3>3. \E S0 \in SUBSET Times : S0 = Published'
      BY <3>2
    <3>4. PICK S0 \in SUBSET Times : S0 = Published'
      BY <3>3
    <3>5. Delivery!Publish(S0)
      BY <2>r, <3>2, <3>4 DEF Delivery!Publish
    <3> QED BY <3>5 DEF Delivery!Next
  <2>3. ASSUME NEW w \in Writers, StoreReading(w) PROVE [Delivery!Next]_(Delivery!vars)
    <3> DEFINE n == stamp[w]
    <3>0. /\ readings' = readings \cup {n} /\ UNCHANGED <<sent, wm, cut>>
          /\ late' = IF n < latest THEN late \cup ({n} \ readings) ELSE late
      BY <2>3 DEF StoreReading, target
    <3>1. n \in Times
      BY <2>3 DEF StoreReading, TypeOK, Times
    <3>2. n \in Int /\ wm \in Int /\ latest \in Int /\ wm <= latest
      BY <3>1 DEF Times, TypeOK, UpToLatest
    <3> HIDE DEF n
    <3>3. CASE n \in readings \/ ~(n < latest)
      <4>1. late' = late
        BY <3>0, <3>3
      <4>2. ~(n > wm) => n = wm \/ (n \in readings /\ n <= wm)
        BY <3>2, <3>3
      <4>3. n > wm \/ n \in Published \cup (late \cup cut)
        BY <3>1, <4>2 DEF Delivered, Covers
      <4>4. Delivery!Store(n)
        BY <3>0, <4>1, <4>3 DEF Delivery!Store
      <4> QED BY <3>1, <4>4 DEF Delivery!Next
    <3>4. CASE n \notin readings /\ n < latest
      <4>1. (late \cup cut)' = (late \cup cut) \cup {n}
        BY <3>0, <3>4
      <4>2. Delivery!StoreLate(n)
        BY <3>0, <3>4, <4>1 DEF Delivery!StoreLate
      <4> QED BY <3>1, <4>2 DEF Delivery!Next
    <3> QED BY <3>3, <3>4
  <2>11. ASSUME NEW r \in Runners, Query(r) PROVE [Delivery!Next]_(Delivery!vars)
    <3> DEFINE left == LeftOut(cur[r], upto[r])
    <3>1. UNCHANGED <<readings, sent, wm, late>> /\ (cut' = cut \/ cut' = cut \cup left)
      BY <2>11 DEF Query, target
    <3>2. CASE cut' = cut
      BY <3>1, <3>2, <2>q
    <3>3. CASE cut' # cut
      <4>1. cut' = cut \cup left /\ left # {}
        BY <3>1, <3>3
      <4>2. Cardinality(readings) > Cap /\ left \subseteq readings
        BY <4>1, LeftOutOverflows, WindowSplit DEF TypeOK
      <4>3. left \in SUBSET Times
        BY <4>2 DEF TypeOK
      <4> HIDE DEF left
      <4>4. (late \cup cut)' = (late \cup cut) \cup left
        BY <3>1, <4>1
      <4>5. Published' = Published
        BY <3>1
      <4>6. PICK L \in SUBSET Times : L = left
        BY <4>3
      <4>7. readings \in {S \in SUBSET Times : Cardinality(S) > Cap}
        BY <4>2 DEF TypeOK
      <4>8. Delivery!Overflow(L)
        BY <3>1, <4>2, <4>4, <4>5, <4>6, <4>7 DEF Delivery!Overflow
      <4> QED BY <4>8 DEF Delivery!Next
    <3> QED BY <3>2, <3>3
  <2>5. ASSUME NEW b \in Times, Prune(b) PROVE [Delivery!Next]_(Delivery!vars)
    <3>1. Delivery!Prune(b)
      BY <2>5 DEF Prune, Delivery!Prune, target
    <3> QED BY <3>1 DEF Delivery!Next
  <2>12. ASSUME NEW r \in Runners, PostBatch(r) PROVE [Delivery!Next]_(Delivery!vars)
    BY <2>12, <2>r DEF PostBatch, store, target
  <2>13. ASSUME NEW r \in Runners, PostFails(r) PROVE [Delivery!Next]_(Delivery!vars)
    BY <2>13, <2>r, <2>q DEF PostFails, store, target
  <2>16. ASSUME NEW r \in Runners, SetWatermark(r) PROVE [Delivery!Next]_(Delivery!vars)
    <3>1. newest[r] \in Times
      BY <2>16 DEF SetWatermark, Delivered, TypeOK, Times
    <3>2. Covers(newest[r], {})
      BY <2>16 DEF SetWatermark, Delivered
    <3>3. Delivery!Settled(newest[r])
      BY <3>2 DEF Covers, TypeOK, Delivery!Settled
    <3>4. Delivery!Settle(newest[r])
      BY <2>16, <3>3 DEF SetWatermark, Delivery!Settle, store
    <3> QED BY <3>1, <3>4 DEF Delivery!Next
  <2>a. CASE \/ Tick \/ \E w \in Writers : Stamp(w) \/ InsertFails(w)
             \/ FindTarget \/ WakeUp \/ Leave \/ \E r \in Requests : RunNow(r)
    BY <2>a, <2>q DEF Tick, Stamp, InsertFails, FindTarget, WakeUp, Leave, RunNow, store, target
  <2>b. ASSUME NEW r \in Runners, TakeNow(r) \/ LogRun(r) \/ DatabaseFails(r)
        PROVE  [Delivery!Next]_(Delivery!vars)
    BY <2>b, <2>q DEF TakeNow, LogRun, DatabaseFails, store, target
  <2>c. CASE SetStatus \/ Stop \/ Reload \/ Crash \/ HealthChanges \/ UNCHANGED vars
    BY <2>c, <2>q DEF SetStatus, Stop, Reload, Crash, HealthChanges, vars, store, target
  <2> QED
    BY <2>3, <2>5, <2>11, <2>12, <2>13, <2>16, <2>a, <2>b, <2>c DEF Next, RunExport
<1> QED BY <1>1, <1>2, TypeCorrect, DeliveryInvInductive, PTL
        DEF Spec, ImplementsAtLeastOnce, Delivery!Spec

-----------------------------------------------------------------------------
(* Nothing is sent twice without cause.  While nothing fails and no two    *)
(* runners hold a copy of the target row at once, the one that holds it    *)
(* has the watermark of the database, and what it has still to send is     *)
(* new to the receiver.                                                    *)

Holds(r) == pc[r] \notin {"idle", "find", "exited"}
Sending == {"send", "log", "mark"}

OneHolder == \A r, q \in Runners : Holds(r) /\ Holds(q) => r = q

AtWatermark == \A r \in Runners : Holds(r) => cur[r] = wm

Ahead ==
  \A r \in Runners : pc[r] \in Sending =>
    cur[r] < newest[r] /\ \A t \in fresh[r] : t <= newest[r]

Unsent == \A r \in Runners : pc[r] = "send" => \A t \in fresh[r] : sent[t] = 0

(* What was received is behind the watermark, or behind the one to be. *)
Accounted ==
  \A t \in Times : sent[t] > 0 => t <= wm \/ \E r \in Runners : pc[r] \in Sending /\ t <= newest[r]

Once == \A t \in Times : sent[t] <= 1

OnlyOnce == OneHolder /\ AtWatermark /\ Ahead /\ Unsent /\ Accounted /\ Once

ResendInv == cause = {} => OnlyOnce

LEMMA ResendInit == Init => ResendInv
<1> SUFFICES ASSUME Init PROVE OnlyOnce
  BY DEF ResendInv
<1>1. \A r \in Runners : ~Holds(r) /\ pc[r] \notin Sending /\ pc[r] # "send"
  BY DEF Init, Home, Holds, Sending
<1>2. \A t \in Times : sent[t] = 0
  BY DEF Init
<1> QED BY <1>1, <1>2 DEF OnlyOnce, OneHolder, AtWatermark, Ahead, Unsent, Accounted, Once

(* A step without cause leaves the causes empty before it. *)
LEMMA NoNewCause == ASSUME [Next]_vars, cause' = {} PROVE cause = {}
<1>1. CASE FindTarget \/ \E r \in Requests : RunNow(r)
  BY <1>1 DEF FindTarget, RunNow, Copy
<1>2. CASE \E r \in Runners : PostFails(r) \/ DatabaseFails(r)
  BY <1>2 DEF PostFails, DatabaseFails
<1>3. CASE Crash
  BY <1>3 DEF Crash
<1>4. CASE \/ Tick \/ \E w \in Writers : Stamp(w) \/ StoreReading(w) \/ InsertFails(w)
           \/ \E b \in Times : Prune(b)
  BY <1>4 DEF Tick, Stamp, StoreReading, InsertFails, Prune
<1>5. CASE WakeUp \/ Leave \/ SetStatus \/ Stop \/ Reload \/ HealthChanges \/ UNCHANGED vars
  BY <1>5 DEF WakeUp, Leave, SetStatus, Stop, Reload, HealthChanges, vars
<1>6. CASE \E r \in Runners : RunExport(r)
  BY <1>6 DEF RunExport, TakeNow, Query, PostBatch, LogRun, SetWatermark
<1> QED BY <1>1, <1>2, <1>3, <1>4, <1>5, <1>6 DEF Next

LEMMA ResendNext == ASSUME TypeOK, ResendInv, [Next]_vars PROVE ResendInv'
<1> SUFFICES ASSUME cause' = {} PROVE OnlyOnce'
  BY DEF ResendInv
<1> USE DEF TypeOK
<1>0. OnlyOnce
  BY NoNewCause DEF ResendInv
<1>n. Times \subseteq Nat /\ \A r \in Runners : cur[r] \in Nat /\ newest[r] \in Nat
  BY DEF Times
<1>u. /\ OneHolder /\ AtWatermark /\ Ahead /\ Unsent /\ Accounted /\ Once
  BY <1>0 DEF OnlyOnce
<1>q. ASSUME UNCHANGED <<pc, cur, newest, fresh, sent, wm>> PROVE OnlyOnce'
  BY <1>q, <1>u DEF OnlyOnce, OneHolder, AtWatermark, Ahead, Unsent, Accounted, Once, Holds
(* A run ends before it has sent anything. *)
<1>e. ASSUME NEW r \in Runners, pc[r] \notin Sending, EndRun(r, Home(r)) \/ EndRun(r, "exited"),
             UNCHANGED <<sent, wm>>
      PROVE  OnlyOnce'
  <2>1. /\ pc'[r] \in {"idle", "find", "exited"}
        /\ \A q \in Runners \ {r} : /\ pc'[q] = pc[q] /\ cur'[q] = cur[q]
                                    /\ newest'[q] = newest[q] /\ fresh'[q] = fresh[q]
    BY <1>e DEF EndRun, Go, Home
  <2>2. ~Holds(r)' /\ pc'[r] \notin Sending /\ \A q \in Runners \ {r} : Holds(q)' <=> Holds(q)
    BY <2>1 DEF Holds, Sending
  <2>3. OneHolder' /\ AtWatermark' /\ Ahead' /\ Unsent'
    BY <1>e, <1>u, <2>1, <2>2 DEF OneHolder, AtWatermark, Ahead, Unsent, Sending
  <2>4. Accounted' /\ Once'
    BY <1>e, <1>u, <2>1 DEF Accounted, Once
  <2> QED BY <2>3, <2>4 DEF OnlyOnce
(* A run goes on, with nothing sent or decided. *)
<1>g. ASSUME NEW r \in Runners, Holds(r), NEW p \in {"now", "query", "mark"}, Go(r, p),
             p = "mark" <=> pc[r] \in Sending, UNCHANGED <<cur, newest, fresh, sent, wm>>
      PROVE  OnlyOnce'
  <2>1. pc'[r] = p /\ \A q \in Runners \ {r} : pc'[q] = pc[q]
    BY <1>g DEF Go
  <2>2. \A q \in Runners : /\ Holds(q)' <=> Holds(q)
                           /\ pc'[q] \in Sending <=> pc[q] \in Sending
                           /\ pc'[q] = "send" => pc[q] = "send"
    BY <1>g, <2>1 DEF Holds, Sending
  <2>3. OneHolder' /\ AtWatermark' /\ Ahead' /\ Unsent'
    BY <1>g, <1>u, <2>2 DEF OneHolder, AtWatermark, Ahead, Unsent
  <2>4. Accounted' /\ Once'
    BY <1>g, <1>u, <2>2 DEF Accounted, Once
  <2> QED BY <2>3, <2>4 DEF OnlyOnce
(* A runner takes a copy of the target row; nobody else has one. *)
<1>c. ASSUME NEW r \in Runners, ~Holds(r), NEW p \in {"wait", "now"}, Copy(r), Go(r, p),
             UNCHANGED <<newest, fresh, sent, wm>>
      PROVE  OnlyOnce'
  <2>1. ~Overlaps(r)
    BY <1>c DEF Copy
  <2>2. \A q \in Runners \ {r} : ~Holds(q)
    BY <2>1 DEF Overlaps, Holds
  <2>3. pc'[r] = p /\ cur'[r] = wm /\ \A q \in Runners \ {r} : pc'[q] = pc[q]
    BY <1>c DEF Copy, Go
  <2>4. /\ \A q \in Runners : Holds(q)' => q = r
        /\ \A q \in Runners : pc'[q] \notin Sending /\ pc[q] \notin Sending
    BY <1>c, <2>2, <2>3 DEF Holds, Sending
  <2>5. OneHolder' /\ AtWatermark' /\ Ahead' /\ Unsent'
    BY <1>c, <2>3, <2>4 DEF OneHolder, AtWatermark, Ahead, Unsent, Sending
  <2>6. Accounted' /\ Once'
    BY <1>c, <1>u, <2>4 DEF Accounted, Once
  <2> QED BY <2>5, <2>6 DEF OnlyOnce
<1>1. CASE \/ Tick \/ \E w \in Writers : Stamp(w) \/ StoreReading(w) \/ InsertFails(w)
           \/ \E b \in Times : Prune(b)
  BY <1>1, <1>q DEF Tick, Stamp, StoreReading, InsertFails, Prune, target, run
<1>2. CASE SetStatus \/ Stop \/ HealthChanges \/ UNCHANGED vars
  BY <1>2, <1>q DEF SetStatus, Stop, HealthChanges, target, run, vars
<1>3. CASE FindTarget
  <2>1. Sched \in Runners /\ ~Holds(Sched)
    BY <1>3 DEF FindTarget, Runners, Holds
  <2>2. CASE Copy(Sched) /\ Go(Sched, "wait")
    BY <1>3, <1>c, <2>1, <2>2 DEF FindTarget, target
  <2>3. CASE Go(Sched, "exited") /\ UNCHANGED cur
    <3>1. \A q \in Runners : /\ Holds(q)' <=> Holds(q)
                             /\ pc'[q] \in Sending <=> pc[q] \in Sending
                             /\ pc'[q] = "send" => pc[q] = "send"
      BY <1>3, <2>1, <2>3 DEF FindTarget, Go, Holds, Sending
    <3>2. UNCHANGED <<cur, newest, fresh, sent, wm>>
      BY <1>3, <2>3 DEF FindTarget, target
    <3> QED BY <1>u, <3>1, <3>2
            DEF OnlyOnce, OneHolder, AtWatermark, Ahead, Unsent, Accounted, Once
  <2> QED BY <1>3, <2>2, <2>3 DEF FindTarget
<1>4. CASE Reload
  <2>1. \A q \in Runners : /\ Holds(q)' <=> Holds(q)
                           /\ pc'[q] \in Sending <=> pc[q] \in Sending
                           /\ pc'[q] = "send" => pc[q] = "send"
    BY <1>4 DEF Reload, Go, Holds, Sending
  <2>2. UNCHANGED <<cur, newest, fresh, sent, wm>>
    BY <1>4 DEF Reload, run
  <2> QED BY <1>u, <2>1, <2>2 DEF OnlyOnce, OneHolder, AtWatermark, Ahead, Unsent, Accounted, Once
<1>5. CASE WakeUp
  <2>1. Sched \in Runners /\ Holds(Sched) /\ pc[Sched] \notin Sending
    BY <1>5 DEF WakeUp, Runners, Holds, Sending
  <2> QED BY <1>5, <1>g, <2>1 DEF WakeUp, target, run
<1>6. CASE Leave
  <2>1. Sched \in Runners /\ pc[Sched] \notin Sending
    BY <1>6 DEF Leave, Runners, Sending
  <2> QED BY <1>6, <1>e, <2>1 DEF Leave, target
<1>7. ASSUME NEW r \in Requests, RunNow(r) PROVE OnlyOnce'
  <2>1. r \in Runners /\ ~Holds(r)
    BY <1>7 DEF RunNow, Runners, Holds
  <2> QED BY <1>7, <1>c, <2>1 DEF RunNow, target
<1>8. ASSUME NEW r \in Runners, TakeNow(r) PROVE OnlyOnce'
  <2>1. Holds(r) /\ pc[r] \notin Sending
    BY <1>8 DEF TakeNow, Holds, Sending
  <2> QED BY <1>8, <1>g, <2>1 DEF TakeNow, target
<1>9. ASSUME NEW r \in Runners, LogRun(r) PROVE OnlyOnce'
  <2>1. Holds(r) /\ pc[r] \in Sending
    BY <1>9 DEF LogRun, Holds, Sending
  <2> QED BY <1>9, <1>g, <2>1 DEF LogRun, target, run
<1>10. ASSUME NEW r \in Runners, Query(r) PROVE OnlyOnce'
  <2>0. Holds(r) /\ pc[r] \notin Sending /\ UNCHANGED <<sent, wm>>
    BY <1>10 DEF Query, Holds, Sending, target
  <2>1. CASE EndRun(r, Home(r))
    BY <1>e, <2>0, <2>1
  <2>2. CASE ~EndRun(r, Home(r))
    <3> DEFINE W == Window(cur[r], upto[r])
    <3>1. PICK n \in W : /\ \A t \in W : t <= n
                         /\ newest' = [newest EXCEPT ![r] = n]
                         /\ fresh' = [fresh EXCEPT ![r] = W]
                         /\ Go(r, "send") /\ UNCHANGED <<cur, upto>>
      BY <1>10, <2>2 DEF Query
    <3>2. W \subseteq Times /\ \A t \in W : t > cur[r]
      BY DEF Window, Newest, InWindow
    <3> HIDE DEF W
    <3>3. cur[r] = wm /\ cur[r] < n /\ \A q \in Runners \ {r} : ~Holds(q)
      BY <1>n, <1>u, <2>0, <3>2 DEF AtWatermark, OneHolder
    <3>4. \A q \in Runners : pc[q] \notin Sending
      BY <2>0, <3>3 DEF Holds, Sending
    <3>5. \A t \in W : sent[t] = 0
      <4>1. ASSUME NEW t \in W PROVE ~(sent[t] > 0)
        BY <1>n, <1>u, <3>2, <3>3, <3>4 DEF Accounted
      <4>2. \A t \in W : sent[t] \in 0..2
        BY <3>2
      <4> QED BY <4>1, <4>2
    <3>6. /\ pc'[r] = "send" /\ newest'[r] = n /\ fresh'[r] = W /\ cur'[r] = cur[r]
          /\ \A q \in Runners \ {r} : pc'[q] = pc[q]
      BY <3>1 DEF Go
    <3>7. \A q \in Runners : (Holds(q)' => q = r) /\ (pc'[q] \in Sending => q = r)
      BY <3>3, <3>4, <3>6 DEF Holds
    <3>8. OneHolder' /\ AtWatermark' /\ Ahead' /\ Unsent'
      BY <2>0, <3>1, <3>3, <3>5, <3>6, <3>7 DEF OneHolder, AtWatermark, Ahead, Unsent, Sending
    <3>9. Accounted' /\ Once'
      BY <1>u, <2>0, <3>4 DEF Accounted, Once
    <3> QED BY <3>8, <3>9 DEF OnlyOnce
  <2> QED BY <2>1, <2>2
<1>11. ASSUME NEW r \in Runners, PostBatch(r) PROVE OnlyOnce'
  <2> DEFINE B == NextBatch(fresh[r])
  <2>1. /\ pc[r] = "send" /\ fresh' = [fresh EXCEPT ![r] = fresh[r] \ B]
        /\ pc'[r] \in {"send", "log"} /\ \A q \in Runners \ {r} : pc'[q] = pc[q]
        /\ UNCHANGED <<cur, newest, wm>>
        /\ \A t \in Times : sent'[t] = IF t \in B /\ sent[t] < 2 THEN sent[t] + 1 ELSE sent[t]
    BY <1>11 DEF PostBatch, Go, Receive, target
  <2>2. B \subseteq fresh[r] /\ fresh[r] \subseteq Times
    BY DEF NextBatch
  <2> HIDE DEF B
  <2>3. Holds(r) /\ pc[r] \in Sending /\ \A q \in Runners \ {r} : ~Holds(q)
    BY <1>u, <2>1 DEF OneHolder, Holds, Sending
  <2>4. /\ \A q \in Runners : Holds(q)' <=> Holds(q)
        /\ \A q \in Runners : pc'[q] \in Sending <=> pc[q] \in Sending
        /\ \A q \in Runners : pc'[q] \in Sending => q = r
    BY <2>1, <2>3 DEF Holds, Sending
  <2>5. fresh'[r] = fresh[r] \ B /\ \A q \in Runners \ {r} : fresh'[q] = fresh[q]
    BY <2>1
  <2>6. \A t \in fresh[r] : sent[t] = 0 /\ t <= newest[r]
    BY <1>u, <2>1, <2>3 DEF Unsent, Ahead
  <2>7. \A t \in Times : /\ t \notin B => sent'[t] = sent[t]
                         /\ t \in B => sent'[t] = 1
    BY <2>1, <2>2, <2>6
  <2>8. OneHolder' /\ AtWatermark' /\ Ahead'
    BY <1>u, <2>1, <2>4, <2>5 DEF OneHolder, AtWatermark, Ahead
  <2>9. Unsent'
    <3>1. \A t \in fresh'[r] : sent'[t] = 0
      BY <2>2, <2>5, <2>6, <2>7
    <3> QED BY <2>4, <3>1 DEF Unsent, Sending
  <2>10. Once'
    BY <1>u, <2>7 DEF Once
  <2>11. Accounted'
    BY <1>u, <2>1, <2>2, <2>3, <2>4, <2>6, <2>7 DEF Accounted
  <2> QED BY <2>8, <2>9, <2>10, <2>11 DEF OnlyOnce
<1>12. ASSUME NEW r \in Runners, SetWatermark(r) PROVE OnlyOnce'
  <2>1. /\ pc[r] = "mark" /\ wm' = newest[r] /\ sent' = sent
        /\ pc'[r] \in {"idle", "find"} /\ \A q \in Runners \ {r} : pc'[q] = pc[q]
    BY <1>12 DEF SetWatermark, EndRun, Go, Home
  <2>2. Holds(r) /\ pc[r] \in Sending /\ \A q \in Runners \ {r} : ~Holds(q)
    BY <1>u, <2>1 DEF OneHolder, Holds, Sending
  <2>3. wm = cur[r] /\ cur[r] < newest[r]
    BY <1>u, <2>2 DEF AtWatermark, Ahead
  <2>4. \A q \in Runners : ~Holds(q)' /\ pc'[q] \notin Sending
    BY <2>1, <2>2 DEF Holds, Sending
  <2>5. \A q \in Runners : pc[q] \in Sending => q = r
    BY <2>2 DEF Holds, Sending
  <2>6. \A t \in Times : sent[t] > 0 => t <= newest[r]
    BY <1>n, <1>u, <2>3, <2>5 DEF Accounted
  <2>7. Accounted' /\ Once'
    BY <1>u, <2>1, <2>6 DEF Accounted, Once
  <2>8. OneHolder' /\ AtWatermark' /\ Ahead' /\ Unsent'
    BY <2>4 DEF OneHolder, AtWatermark, Ahead, Unsent, Sending
  <2> QED BY <2>7, <2>8 DEF OnlyOnce
<1>13. cause' # {} \/ ~(Crash \/ \E r \in Runners : PostFails(r) \/ DatabaseFails(r))
  BY DEF Crash, PostFails, DatabaseFails
<1> QED BY <1>1, <1>2, <1>3, <1>4, <1>5, <1>6, <1>7, <1>8, <1>9, <1>10, <1>11, <1>12, <1>13
        DEF Next, RunExport

(* A reading is received twice only after a failure, a crash or two runs   *)
(* that held a copy of the row at once, for every instance: also with      *)
(* several writers, and when a run meets more than kMaxRows readings.      *)
THEOREM ResendsHaveACause == Spec => []ResentOnlyWithCause
<1>1. ResendInv => ResentOnlyWithCause
  BY DEF ResendInv, OnlyOnce, Once, ResentOnlyWithCause
<1> QED BY <1>1, ResendInit, ResendNext, TypeCorrect, PTL DEF Spec
=============================================================================
