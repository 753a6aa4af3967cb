----------------------------- MODULE PollWorker -----------------------------
(***************************************************************************)
(* Scheduler::worker (src/daemon/scheduler.cpp): the thread that polls one *)
(* SQM, stores the readings, logs the sensor's comings and goings to the   *)
(* events table and backs off while the sensor does not answer.            *)
(*                                                                         *)
(* The environment is the sensor (reachable or not), the database server   *)
(* (writable or not) and the worker's one connection to it, which is       *)
(* opened before the loop and never reopened.  An INSERT whose connection  *)
(* breaks may or may not have reached the table: the worker sees an error  *)
(* either way.                                                             *)
(***************************************************************************)
EXTENDS Naturals

CONSTANTS
  PollIntervalS,  \* the sensor row's poll_interval_s (0: not set)
  FirstBackoff,   \* first retry delay, seconds
  MaxBackoff,     \* cap of the retry delay, seconds
  FailBound       \* bound of the history counter of failed polls

ASSUME PollAssumption ==
  /\ PollIntervalS \in Nat
  /\ FirstBackoff \in Nat \ {0}
  /\ MaxBackoff \in Nat
  /\ FirstBackoff <= MaxBackoff
  /\ FailBound \in Nat

VARIABLES
  pc,         \* where the thread is
  stop,       \* the scheduler's stop_
  up,         \* last poll succeeded
  reported,   \* the current state was logged at least once
  backoff,    \* delay after the next failure
  waitS,      \* delay of this cycle
  conn,       \* the worker's database connection works
  reachable,  \* environment: the sensor answers
  writable,   \* environment: the server accepts inserts on a working connection
  last,       \* history: the last event this worker got into the events table
  alarms,     \* history: read_error events since the last connect event (0..2)
  muted,      \* history: the worker saw some event insert fail
  fails       \* history: failed reads since backoff was last reset (0..FailBound)

loop == <<up, reported, backoff, waitS>>
env  == <<conn, reachable, writable>>
hist == <<last, alarms, muted, fails>>
vars == <<pc, stop, loop, env, hist>>

(* const int interval = s.poll_interval_s > 0 ? s.poll_interval_s : 300 *)
Interval == IF PollIntervalS > 0 THEN PollIntervalS ELSE 300

Least(a, b) == IF a <= b THEN a ELSE b

(* ("provider" and "config_error" are a weather worker's.) *)
TypeOK ==
  /\ pc \in {"connect", "provider", "poll", "store", "announce", "wait", "exited"}
  /\ stop \in BOOLEAN /\ up \in BOOLEAN /\ reported \in BOOLEAN
  /\ backoff \in FirstBackoff..MaxBackoff
  /\ waitS \in 1..Interval
  /\ conn \in BOOLEAN /\ reachable \in BOOLEAN /\ writable \in BOOLEAN
  /\ last \in {"none", "connect", "read_error", "config_error"}
  /\ alarms \in 0..2
  /\ muted \in BOOLEAN
  /\ fails \in 0..FailBound

Init ==
  /\ pc = "connect" /\ stop = FALSE
  /\ up = FALSE /\ reported = FALSE
  /\ backoff = FirstBackoff /\ waitS = Interval
  /\ conn = TRUE /\ reachable \in BOOLEAN /\ writable \in BOOLEAN
  /\ last = "none" /\ alarms = 0 /\ muted = FALSE /\ fails = 0

-----------------------------------------------------------------------------
(* Database::insert_event as the worker sees it: Recorded(e) returns,      *)
(* Dropped(e) throws; the row may be there all the same when the           *)
(* connection broke under the statement.                                   *)

Log(e) ==
  /\ last' = e
  /\ alarms' = CASE e = "connect"    -> 0
                [] e = "read_error" -> Least(alarms + 1, 2)
                [] OTHER            -> alarms

Recorded(e) ==
  /\ conn /\ writable
  /\ Log(e)
  /\ UNCHANGED <<conn, muted>>

Dropped(e) ==
  /\ muted' = TRUE
  /\ \/ ~conn /\ UNCHANGED <<conn, last, alarms>>
     \/ conn /\ ~writable /\ UNCHANGED <<conn, last, alarms>>
     \/ conn /\ conn' = FALSE /\ UNCHANGED <<last, alarms>>
     \/ conn /\ writable /\ conn' = FALSE /\ Log(e)

-----------------------------------------------------------------------------
(* The decisions of the loop, each after the plausible faults that the     *)
(* properties below are tried against.                                     *)

MustReportEachTime == TRUE
MustReportIfUp == up

(* A failed read is logged if it ends an up phase or is the first of all.  *)
MustReport == up \/ ~reported

(* wait_s = std::min(interval, backoff) *)
RetryDelay == Least(Interval, backoff)

(* backoff = std::min(backoff * 2, 60) *)
NextBackoff == Least(backoff * 2, MaxBackoff)

MustAnnounceOnce == ~reported

(* A stored reading is announced if the sensor was not up. *)
MustAnnounce == ~up

BackoffKept == backoff

(* A completed cycle resets the backoff. *)
BackoffAfterSuccess == FirstBackoff

StopNeverSeen == FALSE

(* The predicate of cv_.wait_for, evaluated under mtx_ on wake-up and on   *)
(* time-out.                                                               *)
StopSeen == stop

-----------------------------------------------------------------------------
(* The thread opens its own connection, or is gone until the next reload.  *)
Connect ==
  /\ pc = "connect"
  /\ \/ writable /\ pc' = "poll" /\ UNCHANGED conn
     \/ pc' = "exited" /\ conn' = FALSE
  /\ UNCHANGED <<stop, loop, reachable, writable, hist>>

(* open_device or read_averaged throws: log the first failure of an outage *)
(* (best effort), remember it, wait for the shorter of interval and        *)
(* backoff, and double the backoff.                                        *)
ReadFails ==
  /\ pc = "poll" /\ ~reachable
  /\ IF MustReport
       THEN Recorded("read_error") \/ Dropped("read_error")
       ELSE UNCHANGED <<conn, last, alarms, muted>>
  /\ up' = FALSE
  /\ reported' = TRUE
  /\ waitS' = RetryDelay
  /\ backoff' = NextBackoff
  /\ fails' = Least(fails + 1, FailBound)
  /\ pc' = "wait"
  /\ UNCHANGED <<stop, reachable, writable>>

ReadSucceeds ==
  /\ pc = "poll" /\ reachable
  /\ pc' = "store"
  /\ UNCHANGED <<stop, loop, env, hist>>

(* The end of the try block after a stored reading. *)
CycleDone ==
  /\ reported' = TRUE
  /\ backoff' = BackoffAfterSuccess
  /\ waitS' = Interval
  /\ fails' = 0
  /\ pc' = "wait"

(* insert_reading returns; a sensor that was down is announced next. *)
StoreReading ==
  /\ pc = "store" /\ conn /\ writable
  /\ IF MustAnnounce THEN pc' = "announce" /\ UNCHANGED <<loop, fails>>
                     ELSE CycleDone /\ UNCHANGED up
  /\ UNCHANGED <<stop, env, last, alarms, muted>>

(* insert_event("connect") returns. *)
Announce ==
  /\ pc = "announce"
  /\ Recorded("connect")
  /\ up' = TRUE
  /\ CycleDone
  /\ UNCHANGED <<stop, reachable, writable>>

(* insert_reading or insert_event("connect") throws: only a log line, the  *)
(* loop's state is left as it was.                                         *)
InsertFails ==
  /\ \/ /\ pc = "store"
        /\ \/ ~(conn /\ writable) /\ UNCHANGED conn
           \/ conn /\ conn' = FALSE
        /\ UNCHANGED <<last, alarms, muted>>
     \/ pc = "announce" /\ Dropped("connect")
  /\ pc' = "wait"
  /\ UNCHANGED <<stop, loop, reachable, writable, fails>>

(* wait_for times out with stop_ unset: next cycle. *)
Wake ==
  /\ pc = "wait" /\ ~StopSeen
  /\ pc' = "poll"
  /\ waitS' = Interval
  /\ UNCHANGED <<stop, up, reported, backoff, env, hist>>

(* wait_for reports stop_: leave the loop. *)
Leave ==
  /\ pc = "wait" /\ StopSeen
  /\ pc' = "exited"
  /\ UNCHANGED <<stop, loop, env, hist>>

-----------------------------------------------------------------------------
(* The main thread and the outside world.                                  *)

(* Scheduler::stop *)
Stop ==
  /\ ~stop /\ stop' = TRUE
  /\ UNCHANGED <<pc, loop, env, hist>>

SensorChanges ==
  /\ reachable' = ~reachable
  /\ UNCHANGED <<pc, stop, loop, conn, writable, hist>>

ServerChanges ==
  /\ writable' = ~writable
  /\ UNCHANGED <<pc, stop, loop, conn, reachable, hist>>

(* The server restarts, or drops an idle connection (wait_timeout). *)
ConnectionLost ==
  /\ pc # "connect" /\ conn /\ conn' = FALSE
  /\ UNCHANGED <<pc, stop, loop, reachable, writable, hist>>

Worker == \/ Connect \/ ReadFails \/ ReadSucceeds \/ StoreReading
          \/ Announce \/ InsertFails \/ Wake \/ Leave

Next == Worker \/ Stop \/ SensorChanges \/ ServerChanges \/ ConnectionLost

(* The thread is scheduled whenever it can run: reads and inserts return   *)
(* or time out, waits are bounded.                                         *)
Spec == Init /\ [][Next]_vars /\ WF_vars(Worker)

-----------------------------------------------------------------------------
(* The events table tells the truth about the worker's view: a sensor it   *)
(* holds for up has "connect" as its last event, and one it holds for down *)
(* has "read_error", unless an event insert failed under it.               *)
LogTellsTruth ==
  /\ up => last = "connect"
  /\ reported /\ ~up /\ ~muted => last = "read_error"

(* However long an outage lasts, and whatever the database does meanwhile, *)
(* at most one read_error is logged before the sensor's next connect.      *)
OneAlarmPerOutage == alarms <= 1

(* The first delay, doubled n times. *)
Doubled[n \in 0..FailBound] == IF n = 0 THEN FirstBackoff ELSE 2 * Doubled[n - 1]

(* The backoff is a function of the failed reads since the last completed  *)
(* cycle: it doubles up to the cap.  A reading that could not be stored    *)
(* does not count as a recovery.                                           *)
BackoffLaw == backoff = Least(Doubled[fails], MaxBackoff)

(* Once sensor, server and connection stay healthy, an unstopped worker    *)
(* ends every outage: the sensor is announced and readings keep coming.    *)
RecoversFromOutage ==
  <>[](reachable /\ writable /\ conn /\ ~stop)
    => <>[]up /\ []<><<StoreReading>>_vars

(* What the README says of the daemon, for one active sensor: with the     *)
(* sensor and the database server back for good, readings are stored.      *)
ReadingsKeepComing ==
  <>[](reachable /\ writable /\ ~stop) => []<><<StoreReading>>_vars

(* A stopped worker ends: Scheduler::join returns. *)
StopExits == stop ~> pc = "exited"

(* Seen from the main thread, the poll worker is a WorkerLife. *)
Life == INSTANCE WorkerLife WITH
  life <- CASE pc = "wait"   -> "waiting"
            [] pc = "exited" -> "exited"
            [] OTHER         -> "working"

ImplementsLife == Life!Spec
=============================================================================
