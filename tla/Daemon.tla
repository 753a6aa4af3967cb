------------------------------- MODULE Daemon -------------------------------
(***************************************************************************)
(* nightwatcherd as a whole (src/daemon/main.cpp): the main thread, which  *)
(* loads the device lists, owns the three schedulers and consumes signals; *)
(* the schedulers' worker threads, each seen as a WorkerLife; the API      *)
(* server (src/api/http_server.cpp), whose handler threads edit the device *)
(* rows and ask for a reload by raising SIGHUP; nwdb, which edits the same *)
(* rows from outside; and systemd, which restarts a daemon that failed.    *)
(*                                                                         *)
(* A device's row is Off when no scheduler would start a worker for it     *)
(* (absent, inactive, or skipped by start()), else one of Configs.  A      *)
(* pending signal is a bit: raising it twice is raising it once.           *)
(***************************************************************************)
EXTENDS Naturals

CONSTANTS
  Sensors, Stations, Targets,  \* the devices, by table
  SensorOf,                    \* the sensor an export target belongs to
  Configs, Off,                \* what a row can hold
  Handlers,                    \* threads of the HTTP server's pool
  NoDevice,
  MaxEdits,                    \* bound: edits through the API
  MaxOutside                   \* bound: edits through nwdb, signals from outside

ASSUME DaemonAssumption ==
  /\ Sensors \cap Stations = {} /\ Sensors \cap Targets = {} /\ Stations \cap Targets = {}
  /\ SensorOf \in [Targets -> Sensors]
  /\ Off \notin Configs
  /\ NoDevice \notin Sensors \cup Stations \cup Targets
  /\ MaxEdits \in Nat /\ MaxOutside \in Nat

Devices == Sensors \cup Stations \cup Targets
Gens == {0, 1}

VARIABLES
  row,     \* the database: what each device's row says
  mpc,     \* the main thread
  reload,  \* main's loop variable
  code,    \* main's exit_code
  sig,     \* pending signals of the process
  gen,     \* the current schedulers' generation (alternates)
  stop,    \* the stop_ flag of each generation's schedulers
  life,    \* each worker's phase, "none" when there is no thread
  cfg,     \* the row each worker was given
  api,     \* the listen thread: "down", "spawned", "running", "stopping"
  hpc,     \* each handler thread
  hdev,    \* the device whose edit it is processing
  quiet,   \* history: why no reload follows a row's last edit, or "no"
  edits, outside  \* bounds

mainVars    == <<mpc, reload, code, gen, stop>>
workerVars  == <<life, cfg>>
handlerVars == <<hpc, hdev>>
bounds      == <<edits, outside>>
vars == <<row, mainVars, sig, workerVars, api, handlerVars, quiet, bounds>>

MainPoints == {"boot", "bootApi", "loadSensors", "loadStations", "loadTargets",
               "spawn", "sigwait", "applyStop", "applyJoin", "applyStart",
               "join", "exitStop", "exitJoin", "exited", "failed"}

TypeOK ==
  /\ row \in [Devices -> Configs \cup {Off}]
  /\ mpc \in MainPoints
  /\ reload \in BOOLEAN /\ code \in {0, 1}
  /\ sig \in SUBSET {"HUP", "USR1", "TERM"}
  /\ gen \in Gens /\ stop \in [Gens -> BOOLEAN]
  /\ life \in [Gens -> [Devices -> {"none", "working", "waiting", "exited"}]]
  /\ cfg \in [Gens -> [Devices -> Configs \cup {Off}]]
  /\ api \in {"down", "spawned", "running", "stopping"}
  /\ hpc \in [Handlers -> {"idle", "readback", "hup", "usr1"}]
  /\ hdev \in [Handlers -> Devices \cup {NoDevice}]
  /\ quiet \in [Devices -> {"no", "unannounced", "readback", "outside"}]
  /\ edits \in 0..MaxEdits /\ outside \in 0..MaxOutside

NoWorkers == [g \in Gens |-> [d \in Devices |-> "none"]]
NoConfigs == [g \in Gens |-> [d \in Devices |-> Off]]

Init ==
  /\ row \in [Devices -> Configs \cup {Off}]
  /\ mpc = "boot" /\ reload = TRUE /\ code = 0
  /\ sig = {} /\ gen = 0 /\ stop = [g \in Gens |-> FALSE]
  /\ life = NoWorkers /\ cfg = NoConfigs
  /\ api = "down"
  /\ hpc = [k \in Handlers |-> "idle"] /\ hdev = [k \in Handlers |-> NoDevice]
  /\ quiet = [d \in Devices |-> "no"]
  /\ edits = 0 /\ outside = 0

Alive(g, d) == life[g][d] \in {"working", "waiting"}
Running == mpc \notin {"exited", "failed"}

-----------------------------------------------------------------------------
(* The main thread.                                                        *)

(* Schema, "started" event, seed admin; an unreachable database ends it.   *)
Boot ==
  /\ mpc = "boot"
  /\ mpc' \in {"bootApi", "failed"}
  /\ UNCHANGED <<row, reload, code, gen, stop, sig, workerVars, api, handlerVars, quiet, bounds>>

(* start_api_server with no server running: the listen thread is spawned,  *)
(* or no bind worked and the daemon goes on without an API.                *)
StartApi ==
  /\ mpc \in {"bootApi", "applyStart"}
  /\ api' \in {"spawned", "down"}
  /\ mpc' = IF mpc = "bootApi" THEN "loadSensors" ELSE "sigwait"
  /\ UNCHANGED <<row, reload, code, gen, stop, sig, workerVars, handlerVars, quiet, bounds>>

(* The lists are read table by table; a new generation of schedulers will  *)
(* be built from them.                                                     *)
ReadList(from, next, table) ==
  /\ mpc = from /\ mpc' = next
  /\ quiet' = [d \in Devices |-> IF d \in table THEN "no" ELSE quiet[d]]
  /\ UNCHANGED <<row, code, sig, life, api, handlerVars, bounds>>

LoadSensors ==
  /\ ReadList("loadSensors", "loadStations", Sensors)
  /\ reload' = FALSE
  /\ gen' = 1 - gen
  /\ stop' = [stop EXCEPT ![1 - gen] = FALSE]
  /\ cfg' = [cfg EXCEPT ![1 - gen] = [d \in Devices |-> IF d \in Sensors THEN row[d] ELSE Off]]

LoadStations ==
  /\ ReadList("loadStations", "loadTargets", Stations)
  /\ cfg' = [cfg EXCEPT ![gen] = [d \in Devices |-> IF d \in Stations THEN row[d] ELSE @[d]]]
  /\ UNCHANGED <<reload, gen, stop>>

LoadTargets ==
  /\ ReadList("loadTargets", "spawn", Targets)
  /\ cfg' = [cfg EXCEPT ![gen] = [d \in Devices |-> IF d \in Targets THEN row[d] ELSE @[d]]]
  /\ UNCHANGED <<reload, gen, stop>>

(* A query fails: exit_code = 1 and out of the reload loop. *)
LoadFails ==
  /\ mpc \in {"loadSensors", "loadStations", "loadTargets"}
  /\ mpc' = "exitStop" /\ code' = 1 /\ reload' = FALSE
  /\ UNCHANGED <<row, gen, stop, sig, workerVars, api, handlerVars, quiet, bounds>>

(* Fault: the lists are held for fresh and a pending SIGHUP is discarded. *)
SpawnWorkersDropsHup ==
  /\ mpc = "spawn" /\ mpc' = "sigwait"
  /\ sig' = sig \ {"HUP"}
  /\ life' = [life EXCEPT ![gen] =
                [d \in Devices |-> IF cfg[gen][d] = Off THEN "none" ELSE "working"]]
  /\ UNCHANGED <<row, reload, code, gen, stop, cfg, api, handlerVars, quiet, bounds>>

(* The three start() calls. *)
SpawnWorkers ==
  /\ mpc = "spawn" /\ mpc' = "sigwait"
  /\ life' = [life EXCEPT ![gen] =
                [d \in Devices |-> IF cfg[gen][d] = Off THEN "none" ELSE "working"]]
  /\ UNCHANGED <<row, reload, code, gen, stop, sig, cfg, api, handlerVars, quiet, bounds>>

(* sigwait returns one of the pending signals. *)
StopAndJoin(s, again) ==
  /\ mpc = "sigwait" /\ s \in sig /\ sig' = sig \ {s}
  /\ stop' = [stop EXCEPT ![gen] = TRUE]
  /\ reload' = again
  /\ mpc' = "join"
  /\ UNCHANGED <<row, code, gen, workerVars, api, handlerVars, quiet, bounds>>

TakeTermReloads == StopAndJoin("TERM", TRUE)

TakeTerm == StopAndJoin("TERM", FALSE)

(* Fault: SIGHUP is consumed and the loop continues. *)
TakeHupContinues ==
  /\ mpc = "sigwait" /\ "HUP" \in sig /\ sig' = sig \ {"HUP"}
  /\ UNCHANGED <<row, mainVars, workerVars, api, handlerVars, quiet, bounds>>

TakeHup == StopAndJoin("HUP", TRUE)

TakeUsr1 ==
  /\ mpc = "sigwait" /\ "USR1" \in sig /\ sig' = sig \ {"USR1"}
  /\ mpc' = "applyStop"
  /\ UNCHANGED <<row, reload, code, gen, stop, workerVars, api, handlerVars, quiet, bounds>>

AllJoinedUnwaited == TRUE

(* join() of the three schedulers: every thread has ended. *)
AllJoined == \A d \in Devices : ~Alive(gen, d)

Join ==
  /\ mpc = "join" /\ AllJoined
  /\ life' = [life EXCEPT ![gen] = [d \in Devices |-> IF Alive(gen, d) THEN @[d] ELSE "none"]]
  /\ cfg' = [cfg EXCEPT ![gen] = [d \in Devices |-> Off]]
  /\ mpc' = IF reload THEN "loadSensors" ELSE "exitStop"
  /\ UNCHANGED <<row, reload, code, gen, stop, sig, api, handlerVars, quiet, bounds>>

(* HttpServer::stop up to the join: the server is only told to stop if its *)
(* listen thread has already set is_running_.                              *)
StopApi ==
  /\ mpc \in {"applyStop", "exitStop"}
  /\ api' = IF api = "running" THEN "stopping" ELSE api
  /\ mpc' = IF mpc = "applyStop" THEN "applyJoin" ELSE "exitJoin"
  /\ UNCHANGED <<row, reload, code, gen, stop, sig, workerVars, handlerVars, quiet, bounds>>

(* Fault: the server object goes without a join of its thread. *)
JoinApiDetached ==
  /\ mpc \in {"applyJoin", "exitJoin"} /\ api' = "down"
  /\ mpc' = CASE mpc = "applyJoin"              -> "applyStart"
              [] mpc = "exitJoin" /\ code = 0   -> "exited"
              [] OTHER                          -> "failed"
  /\ UNCHANGED <<row, reload, code, gen, stop, sig, workerVars, handlerVars, quiet, bounds>>

(* thread.join() returns; on the way out the "stopped" event is best       *)
(* effort and the process ends with exit_code.                             *)
JoinApi ==
  /\ mpc \in {"applyJoin", "exitJoin"} /\ api = "down"
  /\ mpc' = CASE mpc = "applyJoin"              -> "applyStart"
              [] mpc = "exitJoin" /\ code = 0   -> "exited"
              [] OTHER                          -> "failed"
  /\ UNCHANGED <<row, reload, code, gen, stop, sig, workerVars, api, handlerVars, quiet, bounds>>

Main == \/ Boot \/ StartApi \/ LoadSensors \/ LoadStations \/ LoadTargets \/ LoadFails
        \/ SpawnWorkers \/ TakeTerm \/ TakeHup \/ TakeUsr1 \/ Join \/ StopApi \/ JoinApi

-----------------------------------------------------------------------------
(* The worker threads, as WorkerLife allows.                               *)

Phase(g, d, p) ==
  /\ Running
  /\ life' = [life EXCEPT ![g][d] = p]
  /\ UNCHANGED <<row, mainVars, sig, api, handlerVars, quiet, bounds>>

(* A poll or a fetch ends, or the worker could not set itself up. *)
PollEnds(g, d) ==
  /\ d \in Sensors \cup Stations
  /\ life[g][d] = "working"
  /\ \E p \in {"waiting", "exited"} : Phase(g, d, p)
  /\ UNCHANGED cfg

(* An export worker's run ends; before it waits again it re-reads its row, *)
(* and leaves if the target is no longer active.                           *)
ExportEnds(g, d) ==
  /\ d \in Targets
  /\ life[g][d] = "working"
  /\ \/ row[d] # Off /\ Phase(g, d, "waiting") /\ cfg' = [cfg EXCEPT ![g][d] = row[d]]
     \/ Phase(g, d, "exited") /\ UNCHANGED cfg

WakeUp(g, d) ==
  /\ life[g][d] = "waiting" /\ ~stop[g]
  /\ Phase(g, d, "working")
  /\ UNCHANGED cfg

Leave(g, d) ==
  /\ life[g][d] = "waiting" /\ stop[g]
  /\ Phase(g, d, "exited")
  /\ UNCHANGED cfg

Worker(g, d) == PollEnds(g, d) \/ ExportEnds(g, d) \/ WakeUp(g, d) \/ Leave(g, d)

(* The process and all its threads are gone; what is in the database stays. *)
ProcessGone ==
  /\ sig' = {} /\ life' = NoWorkers /\ cfg' = NoConfigs
  /\ stop' = [g \in Gens |-> FALSE]
  /\ api' = "down"
  /\ hpc' = [k \in Handlers |-> "idle"] /\ hdev' = [k \in Handlers |-> NoDevice]
  /\ UNCHANGED <<row, gen, quiet, bounds>>

(* find_sensor or find_export_target throws outside any try block of an    *)
(* export worker: std::terminate.                                          *)
ExportThrows(g, d) ==
  /\ Running /\ d \in Targets /\ life[g][d] = "working"
  /\ mpc' = "failed"
  /\ ProcessGone
  /\ UNCHANGED <<reload, code>>

(* Restart=on-failure *)
SystemdRestarts ==
  /\ mpc = "failed"
  /\ mpc' = "boot" /\ reload' = TRUE /\ code' = 0
  /\ ProcessGone

-----------------------------------------------------------------------------
(* The API server.                                                         *)

(* listen_internal sets is_running_ *)
ListenerStarts ==
  /\ api = "spawned" /\ api' = "running"
  /\ UNCHANGED <<row, mainVars, sig, workerVars, handlerVars, quiet, bounds>>

(* The task queue's shutdown waits for the requests being served. *)
PoolDrained == \A k \in Handlers : hpc[k] = "idle"

ListenerEnds ==
  /\ api = "stopping" /\ PoolDrained
  /\ api' = "down"
  /\ UNCHANGED <<row, mainVars, sig, workerVars, handlerVars, quiet, bounds>>

(* A handler thread k commits new rows and goes on to `then`. *)
Commit(k, rows, then, d) ==
  /\ api = "running" /\ hpc[k] = "idle"
  /\ edits < MaxEdits /\ edits' = edits + 1
  /\ row' = rows
  /\ hpc' = [hpc EXCEPT ![k] = then]
  /\ hdev' = [hdev EXCEPT ![k] = IF then = "idle" THEN NoDevice ELSE d]
  /\ UNCHANGED <<mainVars, sig, workerVars, api, outside>>

(* upsert_sensor, and the same for weather stations and export targets. *)
Put(d, c)        == [row EXCEPT ![d] = c]
PutStation(d, c) == [row EXCEPT ![d] = c]
PutTarget(d, c)  == [row EXCEPT ![d] = c]

(* remove_sensor: its export targets go with it (ON DELETE CASCADE). *)
Without(d) ==
  [e \in Devices |-> IF e = d \/ (e \in Targets /\ SensorOf[e] = d) THEN Off ELSE row[e]]

(* PATCH of a polling field, enable, disable: commit, then read the row    *)
(* back for the response, then reload.                                     *)
EditSensor(k, d, c) ==
  /\ d \in Sensors
  /\ Commit(k, Put(d, c), "readback", d)
  /\ quiet' = quiet

DeleteSensor(k, d) ==
  /\ d \in Sensors
  /\ Commit(k, Without(d), "hup", d)
  /\ quiet' = quiet

(* POST of a sensor, and PATCH with the "tcp"/"serial" shortcuts: no       *)
(* reload follows.                                                         *)
SaveSensor(k, d, c) ==
  /\ d \in Sensors
  /\ Commit(k, Put(d, c), "idle", d)
  /\ quiet' = [quiet EXCEPT ![d] = "unannounced"]

(* POST, PATCH, DELETE of a weather station: none follows either. *)
EditStation(k, d, c) ==
  /\ d \in Stations
  /\ Commit(k, PutStation(d, c), "idle", d)
  /\ quiet' = [quiet EXCEPT ![d] = "unannounced"]

EditUnannounced(k, d, c) == SaveSensor(k, d, c) \/ EditStation(k, d, c)

(* POST, PATCH, DELETE of an export target: reload right after the commit. *)
EditTarget(k, d, c) ==
  /\ d \in Targets
  /\ Commit(k, PutTarget(d, c), "hup", d)
  /\ quiet' = quiet

(* find_sensor for the response: if it throws the handler returns a 500    *)
(* and never gets to on_reload.                                            *)
ReadBack(k) ==
  /\ hpc[k] = "readback"
  /\ \/ /\ hpc' = [hpc EXCEPT ![k] = "hup"]
        /\ UNCHANGED <<hdev, quiet>>
     \/ /\ hpc' = [hpc EXCEPT ![k] = "idle"]
        /\ hdev' = [hdev EXCEPT ![k] = NoDevice]
        /\ quiet' = [quiet EXCEPT ![hdev[k]] = "readback"]
  /\ UNCHANGED <<row, mainVars, sig, workerVars, api, bounds>>

(* POST /settings/apply answers first and raises SIGUSR1 afterwards. *)
Apply(k) ==
  /\ api = "running" /\ hpc[k] = "idle"
  /\ edits < MaxEdits /\ edits' = edits + 1
  /\ hpc' = [hpc EXCEPT ![k] = "usr1"]
  /\ UNCHANGED <<row, mainVars, sig, workerVars, api, hdev, quiet, outside>>

(* on_reload and on_apply: kill(getpid(), ...) *)
Raise(k) ==
  /\ hpc[k] \in {"hup", "usr1"}
  /\ sig' = sig \cup {IF hpc[k] = "hup" THEN "HUP" ELSE "USR1"}
  /\ hpc' = [hpc EXCEPT ![k] = "idle"]
  /\ hdev' = [hdev EXCEPT ![k] = NoDevice]
  /\ UNCHANGED <<row, mainVars, workerVars, api, quiet, bounds>>

Handler(k) == ReadBack(k) \/ Raise(k)

-----------------------------------------------------------------------------
(* Outside the process.                                                    *)

(* nwdb add-sensor, set-sensor, restore: the row changes, nobody is told.  *)
NwdbEdit(d, c) ==
  /\ d \in Sensors
  /\ outside < MaxOutside /\ outside' = outside + 1
  /\ row' = Put(d, c)
  /\ quiet' = [quiet EXCEPT ![d] = "outside"]
  /\ UNCHANGED <<mainVars, sig, workerVars, api, handlerVars, edits>>

(* systemctl stop, an operator's kill -HUP. *)
OutsideSignal(s) ==
  /\ Running
  /\ outside < MaxOutside /\ outside' = outside + 1
  /\ sig' = sig \cup {s}
  /\ UNCHANGED <<row, mainVars, workerVars, api, handlerVars, quiet, edits>>

Next ==
  \/ Main
  \/ \E g \in Gens, d \in Devices : Worker(g, d) \/ ExportThrows(g, d)
  \/ SystemdRestarts \/ ListenerStarts \/ ListenerEnds
  \/ \E k \in Handlers :
       \/ Handler(k) \/ Apply(k)
       \/ \E d \in Devices :
            \/ DeleteSensor(k, d)
            \/ \E c \in Configs \cup {Off} :
                 EditSensor(k, d, c) \/ EditUnannounced(k, d, c) \/ EditTarget(k, d, c)
  \/ \E d \in Devices, c \in Configs \cup {Off} : NwdbEdit(d, c)
  \/ \E s \in {"HUP", "TERM"} : OutsideSignal(s)

(* Every thread that can run does; polls, exports and requests end or time *)
(* out.  Nothing is assumed of users, signals or failures.                 *)
Fairness ==
  /\ WF_vars(Main)
  /\ WF_vars(SystemdRestarts)
  /\ WF_vars(ListenerStarts) /\ WF_vars(ListenerEnds)
  /\ \A g \in Gens, d \in Devices : WF_vars(Worker(g, d))
  /\ \A k \in Handlers : WF_vars(Handler(k))

Spec == Init /\ [][Next]_vars /\ Fairness

-----------------------------------------------------------------------------
(* A live worker belongs to the current generation and main still holds    *)
(* its scheduler: reload never leaves a second worker on a device, and no  *)
(* worker outlives the loop.                                               *)
NoOrphanWorker ==
  \A g \in Gens, d \in Devices :
    Alive(g, d) => g = gen /\ mpc \in {"sigwait", "applyStop", "applyJoin", "applyStart", "join"}

(* No request is still being served when its server object is destroyed,   *)
(* so a handler that committed an edit gets to raise its reload.           *)
NoOrphanHandler ==
  \A k \in Handlers : hpc[k] # "idle" => api \in {"running", "stopping"}

(* The lists of this generation that hold d have been read. *)
Loaded(d) ==
  \/ mpc \in {"spawn", "sigwait", "applyStop", "applyJoin", "applyStart"}
  \/ mpc = "loadStations" /\ d \in Sensors
  \/ mpc = "loadTargets" /\ d \in Sensors \cup Stations

(* A SIGHUP is pending or a handler is on its way to raise it. *)
ReloadDue == "HUP" \in sig \/ \E k \in Handlers : hpc[k] \in {"readback", "hup"}

(* A worker list that disagrees with the database never goes unnoticed: a  *)
(* reload is due, unless the last edit of that row was one that asks for   *)
(* none.  Coalesced signals, edits during a reload and API restarts do not *)
(* lose a reload.                                                          *)
NoEditLost ==
  \A d \in Devices :
    Loaded(d) /\ cfg[gen][d] # row[d] /\ quiet[d] = "no" => ReloadDue

(* HttpServer::stop met a listen thread that had not started yet. *)
Hung == mpc \in {"applyJoin", "exitJoin"} /\ api \in {"spawned", "running"}

(* An announced edit is eventually what the workers run with, or the       *)
(* daemon is on its way out.                                               *)
EditsTakeEffect ==
  \A d \in Devices :
    (Loaded(d) /\ quiet[d] = "no") ~> (cfg[gen][d] = row[d] \/ quiet[d] # "no" \/ ~Running \/ Hung)

(* SIGTERM ends the daemon, with every worker joined, unless stop() was    *)
(* called before the listen thread started.                                *)
TermEndsDaemon == "TERM" \in sig ~> (~Running \/ Hung)

(* README: SIGTERM / SIGINT shut down gracefully. *)
TermAlwaysEndsDaemon == "TERM" \in sig ~> ~Running
=============================================================================
