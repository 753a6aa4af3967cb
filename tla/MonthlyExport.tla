--------------------------- MODULE MonthlyExport ---------------------------
(***************************************************************************)
(* One monthly (dsn) export target: run_export's Monthly branch            *)
(* (src/export/export_runner.cpp), which rebuilds every local month that   *)
(* has readings newer than the watermark, and the two destinations of      *)
(* DsnExporter (src/export/exporter.cpp): a file in a local outbox, or a   *)
(* Google Drive folder (src/export/gdrive.cpp).                            *)
(*                                                                         *)
(* A reading is its timestamp.  A month's .dat is the set of readings its  *)
(* rows stand for; a destination is a sequence of files of that name, so   *)
(* that an outbox never holds more than one.  The callers' loops are in    *)
(* WebhookExport; here a runner copies the target row and some time later  *)
(* runs.  Runs stay within kMaxRows.                                       *)
(***************************************************************************)
EXTENDS Integers, Sequences

CONSTANTS
  Dests,     \* where the target may put its files: "outbox", "drive"
  Runners,   \* the scheduler's worker and run-now requests
  RunNow,    \* those that are requests: each runs once
  MaxTime,   \* bound of the clock
  MonthLen,  \* seconds of a month
  MaxZone,   \* the sensor's local time is at most this far ahead of UTC
  MaxFiles   \* bound of the files of one name

ASSUME MonthlyAssumption ==
  /\ Dests \subseteq {"outbox", "drive"} /\ RunNow \subseteq Runners
  /\ MaxTime \in Nat \ {0} /\ MonthLen \in Nat \ {0} /\ MaxFiles \in Nat \ {0}
  /\ MaxZone \in Nat

Times == 1..MaxTime

Zones == 0..MaxZone

(* The local month, in zone z, of UTC second t. *)
MonthOf(t, z) == (t - 1 + z) \div MonthLen
Months == {MonthOf(t, z) : t \in Times, z \in Zones}

(* Fault: the month ends a second early. *)
MonthEndShort(m, z) == (m + 1) * MonthLen - z - 1

(* Its first and its last second. *)
MonthStart(m, z) == m * MonthLen - z + 1
MonthEnd(m, z)   == (m + 1) * MonthLen - z

VARIABLES
  dest,     \* the target's destination
  zone,     \* the sensor's timezone
  clock, readings, wm, healthy,
  file,     \* file[m]: the contents of the files named after month m
  pc, cur,  \* each runner, and the watermark in its copy of the target row
  tz,       \* the timezone run_export read
  todo,     \* months to rebuild
  newest,   \* the watermark to be
  rows,     \* the rows of the month being rebuilt
  found,    \* index of the Drive file to update, 0 to create one
  unflushed, \* history: a failed flush went unnoticed
  rezoned,   \* history: the sensor's timezone was edited; once is the bound
  crossed    \* history: a runner read a month's rows while another had them in
             \* hand; or it truncated an outbox file while another was past its
             \* query, or had moved the watermark since

run == <<cur, tz, todo, newest, rows, found>>
history == <<unflushed, rezoned, crossed>>
vars == <<dest, zone, clock, readings, wm, healthy, file, pc, run, history>>

TypeOK ==
  /\ dest \in Dests
  /\ clock \in Times /\ readings \in SUBSET Times /\ wm \in 0..MaxTime
  /\ zone \in Zones /\ tz \in [Runners -> Zones]
  /\ healthy \in BOOLEAN /\ unflushed \in BOOLEAN /\ rezoned \in BOOLEAN
  /\ crossed \in BOOLEAN
  /\ \A m \in Months : Len(file[m]) <= MaxFiles /\ \A i \in DOMAIN file[m] : file[m][i] \subseteq Times
  /\ pc \in [Runners -> {"idle", "query", "build", "open", "write", "close", "sign", "search", "upload",
                         "log", "mark", "done"}]
  /\ cur \in [Runners -> 0..MaxTime] /\ newest \in [Runners -> 0..MaxTime]
  /\ todo \in [Runners -> SUBSET Months] /\ rows \in [Runners -> SUBSET Times]
  /\ found \in [Runners -> 0..MaxFiles]

Init ==
  /\ dest \in Dests
  /\ zone \in Zones /\ tz = [r \in Runners |-> 0]
  /\ clock = 1 /\ readings = {} /\ wm = 0
  /\ healthy = TRUE /\ unflushed = FALSE /\ rezoned = FALSE /\ crossed = FALSE
  /\ file = [m \in Months |-> << >>]
  /\ pc = [r \in Runners |-> "idle"]
  /\ cur = [r \in Runners |-> 0] /\ newest = [r \in Runners |-> 0]
  /\ todo = [r \in Runners |-> {}] /\ rows = [r \in Runners |-> {}]
  /\ found = [r \in Runners |-> 0]

Go(r, p) == pc' = [pc EXCEPT ![r] = p]

EndRun(r) ==
  /\ Go(r, IF r \in RunNow THEN "done" ELSE "idle")
  /\ cur' = [cur EXCEPT ![r] = 0] /\ newest' = [newest EXCEPT ![r] = 0]
  /\ todo' = [todo EXCEPT ![r] = {}] /\ rows' = [rows EXCEPT ![r] = {}]
  /\ found' = [found EXCEPT ![r] = 0] /\ tz' = [tz EXCEPT ![r] = 0]

-----------------------------------------------------------------------------
(* The readings table, and the environment.                                *)

Tick ==
  /\ clock < MaxTime /\ clock' = clock + 1
  /\ UNCHANGED <<dest, zone, readings, wm, healthy, file, pc, run, history>>

(* Fault: a reading is stamped with the next second. *)
StoreReadingAhead ==
  /\ readings' = readings \cup {clock + 1}
  /\ UNCHANGED <<dest, zone, clock, wm, healthy, file, pc, run, history>>

StoreReading ==
  /\ readings' = readings \cup {clock}
  /\ UNCHANGED <<dest, zone, clock, wm, healthy, file, pc, run, history>>

Prune(b) ==
  /\ b <= clock
  /\ readings' = {t \in readings : t >= b}
  /\ UNCHANGED <<dest, zone, clock, wm, healthy, file, pc, run, history>>

(* PATCH of the sensor's timezone. *)
EditZone(z) ==
  /\ ~rezoned /\ rezoned' = TRUE
  /\ z # zone /\ zone' = z
  /\ UNCHANGED <<dest, clock, readings, wm, healthy, file, pc, run, unflushed, crossed>>

HealthChanges ==
  /\ healthy' = ~healthy
  /\ UNCHANGED <<dest, zone, clock, readings, wm, file, pc, run, history>>

-----------------------------------------------------------------------------
(* run_export, Monthly branch.                                             *)

(* find_export_target *)
Start(r) ==
  /\ pc[r] = "idle"
  /\ cur' = [cur EXCEPT ![r] = wm]
  /\ Go(r, "query")
  /\ UNCHANGED <<dest, zone, clock, readings, wm, healthy, file, tz, todo, newest, rows, found, history>>

(* The sensor's timezone, the readings newer than the watermark, and the   *)
(* local months they fall into.                                            *)
Query(r) ==
  /\ pc[r] = "query"
  /\ LET fresh == {t \in readings : t > cur[r] /\ t <= clock} IN
     \/ fresh = {} /\ EndRun(r)
     \/ \E n \in fresh :
          /\ \A t \in fresh : t <= n
          /\ newest' = [newest EXCEPT ![r] = n]
          /\ tz' = [tz EXCEPT ![r] = zone]
          /\ todo' = [todo EXCEPT ![r] = {MonthOf(t, zone) : t \in fresh}]
          /\ Go(r, "build")
          /\ UNCHANGED <<cur, rows, found>>
  /\ UNCHANGED <<dest, zone, clock, readings, wm, healthy, file, history>>

(* The month runner r is rebuilding: the first of the std::set. *)
This(r) == CHOOSE m \in todo[r] : \A n \in todo[r] : m <= n

(* Fault: only the new readings are written. *)
RowsFreshOnly(r) ==
  {t \in readings : t >= MonthStart(This(r), tz[r]) /\ t <= MonthEnd(This(r), tz[r]) /\ t > cur[r]}

(* readings_between over local_month_bounds_utc *)
Rows(r) ==
  {t \in readings : t >= MonthStart(This(r), tz[r]) /\ t <= MonthEnd(This(r), tz[r])}

(* dsn_file_name: the local month of the window's last second. *)
FileName(r) == MonthOf(MonthEnd(This(r), tz[r]), tz[r])

(* format_dsn_dat: one line per reading. *)
Content(r) == Rows(r)

(* outbox_dir, else drive_folder_id. *)
Destination == IF dest = "outbox" THEN "open" ELSE "sign"

(* Its rows are read, its file not yet published. *)
InHand(r) == pc[r] \in {"open", "write", "close", "sign", "search", "upload"}

Build(r) ==
  /\ pc[r] = "build"
  /\ rows' = [rows EXCEPT ![r] = Content(r)]
  /\ Go(r, Destination)
  /\ crossed' = (crossed \/ \E o \in Runners \ {r} : InHand(o) /\ This(o) = This(r))
  /\ UNCHANGED <<dest, zone, clock, readings, wm, healthy, file, cur, tz, todo, newest, found,
                 unflushed, rezoned>>

(* Outbox: the file is truncated, filled, and flushed by the destructor.   *)
OpenFile(r) ==
  /\ pc[r] = "open"
  /\ file' = [file EXCEPT ![FileName(r)] = <<{}>>]
  /\ Go(r, "write")
  /\ crossed' = \/ crossed \/ cur[r] < wm
                 \/ \E o \in Runners \ {r} : pc[o] \notin {"idle", "query", "done"}
  /\ UNCHANGED <<dest, zone, clock, readings, wm, healthy, run, unflushed, rezoned>>

(* f << content: part of it may already be on disk. *)
WriteFile(r) ==
  /\ pc[r] = "write"
  /\ \E S \in SUBSET rows[r] : file' = [file EXCEPT ![FileName(r)] = <<S>>]
  /\ Go(r, "close")
  /\ UNCHANGED <<dest, zone, clock, readings, wm, healthy, run, history>>

(* f << content fails with some of it on disk, and run() throws. *)
WriteFails(r) ==
  /\ pc[r] = "write" /\ ~healthy
  /\ \E S \in SUBSET rows[r] : file' = [file EXCEPT ![FileName(r)] = <<S>>]
  /\ EndRun(r)
  /\ UNCHANGED <<dest, zone, clock, readings, wm, healthy, history>>

CloseFile(r) ==
  /\ pc[r] = "close"
  /\ file' = [file EXCEPT ![FileName(r)] = <<rows[r]>>]
  /\ Go(r, "log")
  /\ UNCHANGED <<dest, zone, clock, readings, wm, healthy, run, history>>

(* The flush of the destructor fails: nobody looks. *)
FlushFails(r) ==
  /\ pc[r] = "close" /\ ~healthy
  /\ unflushed' = TRUE
  /\ Go(r, "log")
  /\ UNCHANGED <<dest, zone, clock, readings, wm, healthy, file, run, rezoned, crossed>>

(* Drive: an access token first, from the service account's key or the     *)
(* refresh token.                                                          *)
SignIn(r) ==
  /\ pc[r] = "sign"
  /\ Go(r, "search")
  /\ UNCHANGED <<dest, zone, clock, readings, wm, healthy, file, run, history>>

(* Search by name, then update the first hit or create. *)
Search(r) ==
  /\ pc[r] = "search"
  /\ \/ file[FileName(r)] = << >> /\ found' = [found EXCEPT ![r] = 0]
     \/ \E i \in DOMAIN file[FileName(r)] : found' = [found EXCEPT ![r] = i]
  /\ Go(r, "upload")
  /\ UNCHANGED <<dest, zone, clock, readings, wm, healthy, file, cur, tz, todo, newest, rows, history>>

(* Fault: every run creates its file. *)
PutCreates(r) ==
  /\ Len(file[FileName(r)]) < MaxFiles
  /\ file' = [file EXCEPT ![FileName(r)] = Append(@, rows[r])]

Put(r) ==
  \/ /\ found[r] # 0
     /\ file' = [file EXCEPT ![FileName(r)][found[r]] = rows[r]]
  \/ /\ found[r] = 0 /\ Len(file[FileName(r)]) < MaxFiles
     /\ file' = [file EXCEPT ![FileName(r)] = Append(@, rows[r])]

Upload(r) ==
  /\ pc[r] = "upload"
  /\ Put(r)
  /\ Go(r, "log")
  /\ UNCHANGED <<dest, zone, clock, readings, wm, healthy, run, history>>

(* The request fails, or its answer is lost after Drive has done it. *)
UploadFails(r) ==
  /\ pc[r] = "upload" /\ ~healthy
  /\ Put(r) \/ UNCHANGED file
  /\ EndRun(r)
  /\ UNCHANGED <<dest, zone, clock, readings, wm, healthy, history>>

(* Fault: the watermark is advanced before the months are rebuilt. *)
LogMonthMarks(r) ==
  /\ pc[r] = "log"
  /\ todo' = [todo EXCEPT ![r] = @ \ {This(r)}]
  /\ wm' = newest[r]
  /\ rows' = [rows EXCEPT ![r] = {}] /\ found' = [found EXCEPT ![r] = 0]
  /\ Go(r, IF todo'[r] = {} THEN "mark" ELSE "build")
  /\ UNCHANGED <<dest, zone, clock, readings, healthy, file, cur, tz, newest, history>>

(* insert_export_log, then the next month or the watermark. *)
LogMonth(r) ==
  /\ pc[r] = "log"
  /\ todo' = [todo EXCEPT ![r] = @ \ {This(r)}]
  /\ rows' = [rows EXCEPT ![r] = {}] /\ found' = [found EXCEPT ![r] = 0]
  /\ Go(r, IF todo'[r] = {} THEN "mark" ELSE "build")
  /\ UNCHANGED <<dest, zone, clock, readings, wm, healthy, file, cur, tz, newest, history>>

(* Any other statement throws: a query, the open, the token request, the   *)
(* search, the log row, the watermark update.                              *)
Throws(r) ==
  /\ pc[r] \in {"query", "build", "open", "sign", "search", "log", "mark"} /\ ~healthy
  /\ EndRun(r)
  /\ UNCHANGED <<dest, zone, clock, readings, wm, healthy, file, history>>

SetWatermark(r) ==
  /\ pc[r] = "mark"
  /\ wm' = newest[r]
  /\ EndRun(r)
  /\ UNCHANGED <<dest, zone, clock, readings, healthy, file, history>>

(* The process dies; the files stay as they are. *)
Crash ==
  /\ ~healthy
  /\ pc' = [r \in Runners |-> IF r \in RunNow /\ pc[r] # "idle" THEN "done" ELSE "idle"]
  /\ cur' = [r \in Runners |-> 0] /\ newest' = [r \in Runners |-> 0]
  /\ todo' = [r \in Runners |-> {}] /\ rows' = [r \in Runners |-> {}]
  /\ found' = [r \in Runners |-> 0] /\ tz' = [r \in Runners |-> 0]
  /\ UNCHANGED <<dest, zone, clock, readings, wm, healthy, file, history>>

RunExport(r) ==
  \/ Start(r) \/ Query(r) \/ Build(r) \/ OpenFile(r) \/ WriteFile(r) \/ CloseFile(r)
  \/ SignIn(r) \/ Search(r) \/ Upload(r) \/ LogMonth(r) \/ SetWatermark(r)

Next ==
  \/ Tick \/ StoreReading \/ HealthChanges \/ Crash
  \/ \E b \in Times : Prune(b)
  \/ \E z \in Zones : EditZone(z)
  \/ \E r \in Runners : RunExport(r) \/ WriteFails(r) \/ FlushFails(r) \/ UploadFails(r) \/ Throws(r)

Spec == Init /\ [][Next]_vars /\ \A r \in Runners : WF_vars(RunExport(r))

-----------------------------------------------------------------------------
(* Properties.                                                             *)

(* A reading is published in the file of its local month. *)
Published ==
  {t \in Times : \E i \in DOMAIN file[MonthOf(t, zone)] : t \in file[MonthOf(t, zone)][i]}

(* The next run will rebuild month m. *)
RebuildDue(m) == \E u \in readings : u > wm /\ MonthOf(u, zone) = m

(* Every stored reading that no later run counts as new is in its month's  *)
(* file, or that month is about to be rebuilt.                             *)
Complete == \A t \in readings : t <= wm => t \in Published \/ RebuildDue(MonthOf(t, zone))

(* Complete holds as long as no failed flush goes unnoticed, the sensor    *)
(* keeps its timezone and no two runs cross, whatever write, upload, query *)
(* or process fails halfway through a month, and also when a run starts    *)
(* from a copy of the row that another run has since outdated.  (After a   *)
(* change of timezone a reading next to a month boundary belongs in        *)
(* another file, which only a newer reading of that month gets rebuilt.)   *)
MonthsComplete == ~unflushed /\ ~rezoned /\ ~crossed => Complete

(* A Drive export implements at-least-once delivery: rewriting a month's   *)
(* file never takes a stored reading out of it, unless two runs had the    *)
(* month in hand at once: the older rows may be uploaded last.  (An outbox *)
(* file is truncated before it is filled.)                                 *)
Delivery == INSTANCE AtLeastOnce WITH
  published <- Published, mark <- wm, missed <- {}, Overfull <- {}
DriveAtLeastOnce ==
  Delivery!Init /\ [][dest = "drive" /\ ~rezoned' /\ ~crossed' => Delivery!Next]_<<readings, Published, wm>>

(* Once the database and the destination answer, every stored reading is   *)
(* published or pruned, unless a failed flush went unnoticed, the timezone *)
(* was edited or two runs crossed.                                         *)
EventuallyPublished ==
  <>[]healthy =>
    \A t \in Times :
      (t \in readings) ~> (t \in Published \/ t \notin readings \/ unflushed \/ rezoned \/ crossed)

(* Drive holds one file per month: gdrive.hpp, "repeated monthly exports   *)
(* overwrite instead of duplicating", also after an answer was lost and by *)
(* runs that overlap in other months; two that search for one month's file *)
(* before either creates it make two.                                      *)
OneFilePerMonth == ~crossed => \A m \in Months : Len(file[m]) <= 1
=============================================================================
