--------------------------- MODULE WebhookExport ---------------------------
(***************************************************************************)
(* One incremental (webhook) export target: the export scheduler's worker  *)
(* for it (src/export/export_scheduler.cpp), the API's run-now requests,   *)
(* and run_export (src/export/export_runner.cpp) which both call; the      *)
(* writers that store the sensor's readings; pruning; deactivation,        *)
(* reloads and crashes.                                                    *)
(*                                                                         *)
(* A reading is its timestamp, in whole seconds of the database server's   *)
(* clock; (sensor_id, ts_utc) is UNIQUE and the insert is INSERT IGNORE.   *)
(* A row becomes visible some time after it was stamped.  "cur" is the     *)
(* copy of last_export_ts in the target row a run was given.               *)
(***************************************************************************)
EXTENDS Naturals, FiniteSets

CONSTANTS
  Sched,     \* the scheduler's worker
  Requests,  \* handler threads that serve POST /export-targets/{id}/run
  Writers,   \* who inserts readings: poll worker, POST .../poll, nwdb poll
  MaxTime,   \* bound of the clock
  Cap,       \* kMaxRows
  Batch      \* rows per POST

ASSUME ExportAssumption ==
  /\ Sched \notin Requests
  /\ MaxTime \in Nat \ {0} /\ Cap \in Nat \ {0} /\ Batch \in Nat \ {0}

Runners == {Sched} \cup Requests
Times == 1..MaxTime

VARIABLES
  clock,     \* the server's UTC_TIMESTAMP()
  readings,  \* visible rows
  stamp,     \* stamp[w]: timestamp of w's insert in flight, or 0
  wm,        \* last_export_ts in the database, 0 when NULL
  active,    \* status = 'active'
  stop,      \* the export scheduler's stop_
  healthy,   \* environment: the database, this process's connections to it
             \* and the receiver all answer
  pc,        \* each runner
  cur,       \* the watermark in the row it works with
  upto,      \* `now`
  fresh,     \* rows still to be sent
  newest,    \* the watermark to be
  sent,      \* times each reading was received (0..2)
  cause,     \* history: what has happened that may send a reading again
  latest,    \* history: the latest timestamp that was ever visible
  late,      \* history: rows that became visible after a later one
  cut        \* history: rows a LIMIT left out of a run's window

table == <<clock, readings, stamp, latest, late>>
store == <<table, cut>>
target == <<wm, active, stop>>
run == <<cur, upto, fresh, newest>>
vars == <<store, target, healthy, pc, run, sent, cause>>

TypeOK ==
  /\ clock \in Times /\ readings \in SUBSET Times
  /\ stamp \in [Writers -> 0..MaxTime]
  /\ wm \in 0..MaxTime
  /\ active \in BOOLEAN /\ stop \in BOOLEAN /\ healthy \in BOOLEAN
  /\ cause \in SUBSET {"failure", "overlap"}
  /\ pc \in [Runners -> {"idle", "find", "wait", "now", "query", "send", "log", "mark", "exited"}]
  /\ cur \in [Runners -> 0..MaxTime] /\ upto \in [Runners -> 0..MaxTime]
  /\ fresh \in [Runners -> SUBSET Times]
  /\ newest \in [Runners -> 0..MaxTime]
  /\ sent \in [Times -> 0..2]
  /\ latest \in 0..MaxTime /\ late \in SUBSET Times /\ cut \in SUBSET Times

(* Where a runner is between two runs. *)
Home(r) == IF r = Sched THEN "find" ELSE "idle"

Init ==
  /\ clock = 1 /\ readings = {} /\ stamp = [w \in Writers |-> 0]
  /\ wm = 0 /\ active = TRUE /\ stop = FALSE /\ healthy = TRUE
  /\ pc = [r \in Runners |-> Home(r)]
  /\ cur = [r \in Runners |-> 0] /\ upto = [r \in Runners |-> 0]
  /\ fresh = [r \in Runners |-> {}] /\ newest = [r \in Runners |-> 0]
  /\ sent = [t \in Times |-> 0]
  /\ cause = {} /\ latest = 0 /\ late = {} /\ cut = {}

Go(r, p) == pc' = [pc EXCEPT ![r] = p]

(* A run ends, its locals with it. *)
EndRun(r, p) ==
  /\ Go(r, p)
  /\ cur' = [cur EXCEPT ![r] = 0] /\ upto' = [upto EXCEPT ![r] = 0]
  /\ fresh' = [fresh EXCEPT ![r] = {}] /\ newest' = [newest EXCEPT ![r] = 0]

-----------------------------------------------------------------------------
(* The readings table.                                                     *)

Tick ==
  /\ clock < MaxTime /\ clock' = clock + 1
  /\ UNCHANGED <<readings, stamp, latest, late, cut, target, healthy, pc, run, sent, cause>>

(* insert_reading is sent: the server evaluates UTC_TIMESTAMP(). *)
Stamp(w) ==
  /\ stamp[w] = 0
  /\ stamp' = [stamp EXCEPT ![w] = clock]
  /\ UNCHANGED <<clock, readings, latest, late, cut, target, healthy, pc, run, sent, cause>>

(* The row is visible, or ignored as a duplicate of the same second.  A    *)
(* row of another writer, stamped later, may have come first.              *)
StoreReading(w) ==
  /\ stamp[w] # 0
  /\ readings' = readings \cup {stamp[w]}
  /\ latest' = IF stamp[w] > latest THEN stamp[w] ELSE latest
  /\ late' = IF stamp[w] < latest THEN late \cup ({stamp[w]} \ readings) ELSE late
  /\ stamp' = [stamp EXCEPT ![w] = 0]
  /\ UNCHANGED <<clock, cut, target, healthy, pc, run, sent, cause>>

(* The insert throws; its row is lost. *)
InsertFails(w) ==
  /\ stamp[w] # 0 /\ ~healthy
  /\ stamp' = [stamp EXCEPT ![w] = 0]
  /\ UNCHANGED <<clock, readings, latest, late, cut, target, healthy, pc, run, sent, cause>>

(* DELETE /sensors/{id}/readings?before= with a time not in the future *)
Prune(b) ==
  /\ b <= clock
  /\ readings' = {t \in readings : t >= b}
  /\ UNCHANGED <<clock, stamp, latest, late, cut, target, healthy, pc, run, sent, cause>>

-----------------------------------------------------------------------------
(* The two callers of run_export.                                          *)

(* Another runner holds a copy of the row that it has not finished with. *)
Overlaps(r) == \E q \in Runners \ {r} : pc[q] \notin {"idle", "find", "exited"}

(* find_export_target: the row, last_export_ts with it, is copied. *)
Copy(r) ==
  /\ cur' = [cur EXCEPT ![r] = wm]
  /\ cause' = IF Overlaps(r) THEN cause \cup {"overlap"} ELSE cause

(* The worker re-reads its target; it ends if the target is not active,    *)
(* else keeps this copy across the wait.                                   *)
FindTarget ==
  /\ pc[Sched] = "find"
  /\ \/ active /\ Copy(Sched) /\ Go(Sched, "wait")
     \/ ~active /\ Go(Sched, "exited") /\ UNCHANGED <<cur, cause>>
  /\ UNCHANGED <<store, target, healthy, upto, fresh, newest, sent>>

(* The schedule is due. *)
WakeUp ==
  /\ pc[Sched] = "wait" /\ ~stop
  /\ Go(Sched, "now")
  /\ UNCHANGED <<store, target, healthy, run, sent, cause>>

Leave ==
  /\ pc[Sched] = "wait" /\ stop
  /\ EndRun(Sched, "exited")
  /\ UNCHANGED <<store, target, healthy, sent, cause>>

(* POST /export-targets/{id}/run *)
RunNow(r) ==
  /\ pc[r] = "idle"
  /\ Copy(r) /\ Go(r, "now")
  /\ UNCHANGED <<store, target, healthy, upto, fresh, newest, sent>>

-----------------------------------------------------------------------------
(* run_export, Incremental branch.                                         *)

TakeNow(r) ==
  /\ pc[r] = "now"
  /\ upto' = [upto EXCEPT ![r] = clock]
  /\ Go(r, "query")
  /\ UNCHANGED <<store, target, healthy, cur, fresh, newest, sent, cause>>

InWindow(from, to) == {u \in readings : u >= from /\ u <= to}

(* ORDER BY ts_utc DESC LIMIT kMaxRows *)
Newest(S) == {t \in S : Cardinality({u \in S : u > t}) < Cap}

(* Fault: the watermark's own reading is not erased. *)
WindowInclusive(from, to) == Newest(InWindow(from, to))

(* readings_between, then everything up to the watermark is erased. *)
Window(from, to) == {t \in Newest(InWindow(from, to)) : t > from}

LeftOut(from, to) ==
  {t \in InWindow(from, to) \ Newest(InWindow(from, to)) : t > from}

Query(r) ==
  /\ pc[r] = "query"
  /\ LET rows == Window(cur[r], upto[r]) IN
     \/ rows = {} /\ EndRun(r, Home(r)) /\ UNCHANGED cut
     \/ \E n \in rows :
          /\ \A t \in rows : t <= n
          /\ newest' = [newest EXCEPT ![r] = n]
          /\ fresh' = [fresh EXCEPT ![r] = rows]
          /\ Go(r, "send")
          /\ cut' = cut \cup LeftOut(cur[r], upto[r])
          /\ UNCHANGED <<cur, upto>>
  /\ UNCHANGED <<table, target, healthy, sent, cause>>

(* The next rows of an ascending list. *)
NextBatch(S) == {t \in S : Cardinality({u \in S : u < t}) < Batch}

Receive(S) == sent' = [t \in Times |-> IF t \in S /\ sent[t] < 2 THEN sent[t] + 1 ELSE sent[t]]

PostBatch(r) ==
  /\ pc[r] = "send"
  /\ Receive(NextBatch(fresh[r]))
  /\ fresh' = [fresh EXCEPT ![r] = @ \ NextBatch(@)]
  /\ Go(r, IF fresh'[r] = {} THEN "log" ELSE "send")
  /\ UNCHANGED <<store, target, healthy, cur, upto, newest, cause>>

(* Fault: a failed POST does not end the run. *)
PostFailsIgnored(r) ==
  /\ pc[r] = "send" /\ ~healthy
  /\ Go(r, "log")
  /\ UNCHANGED <<store, target, healthy, run, sent, cause>>

(* The POST fails, or its answer is lost after the receiver stored it. *)
PostFails(r) ==
  /\ pc[r] = "send" /\ ~healthy
  /\ Receive(NextBatch(fresh[r])) \/ UNCHANGED sent
  /\ EndRun(r, Home(r))
  /\ cause' = cause \cup {"failure"}
  /\ UNCHANGED <<store, target, healthy>>

(* insert_export_log returns. *)
LogRun(r) ==
  /\ pc[r] = "log"
  /\ Go(r, "mark")
  /\ UNCHANGED <<store, target, healthy, run, sent, cause>>

(* A query, the log row or the watermark update fails: the run throws and  *)
(* its caller starts over.                                                 *)
DatabaseFails(r) ==
  /\ pc[r] \in {"now", "query", "log", "mark"} /\ ~healthy
  /\ EndRun(r, Home(r))
  /\ cause' = cause \cup {"failure"}
  /\ UNCHANGED <<store, target, healthy, sent>>

(* Fault: the watermark is the end of the queried window. *)
SetWatermarkUpto(r) ==
  /\ pc[r] = "mark"
  /\ wm' = upto[r]
  /\ EndRun(r, Home(r))
  /\ UNCHANGED <<store, active, stop, healthy, sent, cause>>

(* set_export_watermark(t.id, newest): an unconditional UPDATE. *)
SetWatermark(r) ==
  /\ pc[r] = "mark"
  /\ wm' = newest[r]
  /\ EndRun(r, Home(r))
  /\ UNCHANGED <<store, active, stop, healthy, sent, cause>>

-----------------------------------------------------------------------------
(* Status edits, reloads, crashes, and the environment.                    *)

(* PATCH /export-targets/{id}, or SQL, changes the status. *)
SetStatus ==
  /\ active' = ~active
  /\ UNCHANGED <<store, wm, stop, healthy, pc, run, sent, cause>>

(* main: exp.stop() *)
Stop ==
  /\ ~stop /\ stop' = TRUE
  /\ UNCHANGED <<store, wm, active, healthy, pc, run, sent, cause>>

(* main has joined the worker; the next round of its loop starts a new one *)
(* if the target is active.                                                *)
Reload ==
  /\ stop /\ pc[Sched] = "exited" /\ stop' = FALSE
  /\ IF active THEN Go(Sched, "find") ELSE UNCHANGED pc
  /\ UNCHANGED <<store, wm, active, healthy, run, sent, cause>>

(* The process dies: killed, or find_export_target threw outside the       *)
(* worker's try.  systemd starts a new one.                                *)
Crash ==
  /\ ~healthy
  /\ pc' = [r \in Runners |-> IF r = Sched /\ ~active THEN "exited" ELSE Home(r)]
  /\ stop' = FALSE
  /\ cur' = [r \in Runners |-> 0] /\ upto' = [r \in Runners |-> 0]
  /\ fresh' = [r \in Runners |-> {}] /\ newest' = [r \in Runners |-> 0]
  /\ cause' = cause \cup {"failure"}
  /\ UNCHANGED <<store, wm, active, healthy, sent>>

HealthChanges ==
  /\ healthy' = ~healthy
  /\ UNCHANGED <<store, target, pc, run, sent, cause>>

RunExport(r) == TakeNow(r) \/ Query(r) \/ PostBatch(r) \/ LogRun(r) \/ SetWatermark(r)

Next ==
  \/ Tick
  \/ \E w \in Writers : Stamp(w) \/ StoreReading(w) \/ InsertFails(w)
  \/ \E b \in Times : Prune(b)
  \/ FindTarget \/ WakeUp \/ Leave
  \/ \E r \in Requests : RunNow(r)
  \/ \E r \in Runners : RunExport(r) \/ PostFails(r) \/ DatabaseFails(r)
  \/ SetStatus \/ Stop \/ Reload \/ Crash \/ HealthChanges

(* The worker's thread runs, its timed wait ends, main reloads. *)
Fairness ==
  /\ WF_vars(FindTarget) /\ WF_vars(WakeUp) /\ WF_vars(Leave) /\ WF_vars(Reload)
  /\ WF_vars(RunExport(Sched))

Spec == Init /\ [][Next]_vars /\ Fairness

-----------------------------------------------------------------------------
(* Properties.                                                             *)

(* The watermark is never ahead of what was delivered: a stored reading at *)
(* or before last_export_ts, which no later run will look at, has been     *)
(* received.  The two ways to lose one are both the code's: the row became *)
(* visible after one stamped later, of another writer; or a run that met   *)
(* more than kMaxRows rows left it out.                                    *)
NoGap == \A t \in readings : t <= wm => sent[t] > 0 \/ t \in late \cup cut

(* The same of a backlog of any size: what the README says of backfills.   *)
BacklogDelivered == \A t \in readings : t <= wm => sent[t] > 0 \/ t \in late

(* A reading is received twice only after a failure, a crash or two runs   *)
(* holding the same copy of the target row.                                *)
ResentOnlyWithCause == cause = {} => \A t \in Times : sent[t] <= 1

(* The export of one target implements at-least-once delivery.             *)
Delivery == INSTANCE AtLeastOnce WITH
  published <- {t \in Times : sent[t] > 0}, mark <- wm, missed <- late \cup cut,
  Overfull <- {S \in SUBSET Times : Cardinality(S) > Cap}
ImplementsAtLeastOnce == Delivery!Spec

(* Once the database and the receiver answer and the target stays active   *)
(* and its worker running, every stored reading is received or pruned, but *)
(* for those that came late or that a run left out.                        *)
EventuallyDelivered ==
  <>[](healthy /\ ~stop /\ pc[Sched] # "exited") =>
    \A t \in Times : []<>(t \in readings => sent[t] > 0 \/ t \in late \cup cut)
=============================================================================
