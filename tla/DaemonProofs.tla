---------------------------- MODULE DaemonProofs ----------------------------
(***************************************************************************)
(* Proofs about Daemon for every set of devices, configurations and        *)
(* handler threads, and every number of edits and signals.                 *)
(***************************************************************************)
EXTENDS Daemon, TLAPS

(* Committing an edit keeps the types. *)
LEMMA CommitTyped ==
  ASSUME TypeOK, NEW k \in Handlers, NEW rows \in [Devices -> Configs \cup {Off}],
         NEW then \in {"idle", "readback", "hup"}, NEW d \in Devices,
         Commit(k, rows, then, d), quiet' \in [Devices -> {"no", "unannounced", "readback", "outside"}]
  PROVE  TypeOK'
BY DaemonAssumption DEF TypeOK, Commit, mainVars, workerVars

(* The process's end resets everything but the database. *)
LEMMA ProcessGoneTyped ==
  ASSUME TypeOK, ProcessGone, mpc' \in MainPoints, reload' \in BOOLEAN, code' \in {0, 1}
  PROVE  TypeOK'
BY DEF TypeOK, ProcessGone, NoWorkers, NoConfigs, bounds

(* A worker's change of phase keeps the types. *)
LEMMA PhaseTyped ==
  ASSUME TypeOK, NEW g \in Gens, NEW d \in Devices, NEW p \in {"working", "waiting", "exited"},
         Phase(g, d, p), cfg' \in [Gens -> [Devices -> Configs \cup {Off}]]
  PROVE  TypeOK'
<1>1. life' \in [Gens -> [Devices -> {"none", "working", "waiting", "exited"}]]
  BY DEF TypeOK, Phase
<1> QED BY <1>1 DEF TypeOK, Phase, mainVars, handlerVars, bounds

(* TypeOK is an invariant of every behaviour of the daemon. *)
THEOREM TypeCorrect == Spec => []TypeOK
<1>1. Init => TypeOK
  BY DaemonAssumption DEF Init, TypeOK, MainPoints, Gens, NoWorkers, NoConfigs
<1>2. TypeOK /\ [Next]_vars => TypeOK'
  <2> SUFFICES ASSUME TypeOK, [Next]_vars PROVE TypeOK'
    OBVIOUS
  <2> USE DEF TypeOK, mainVars, workerVars, handlerVars, bounds
  <2>1. CASE Boot
    BY <2>1 DEF Boot, MainPoints
  <2>2. CASE StartApi
    BY <2>2 DEF StartApi, MainPoints
  <2>3. CASE LoadSensors
    <3>1. gen' \in Gens /\ 1 - gen \in Gens
      BY <2>3 DEF LoadSensors, Gens
    <3>2. cfg' \in [Gens -> [Devices -> Configs \cup {Off}]] /\ stop' \in [Gens -> BOOLEAN]
      BY <2>3, <3>1 DEF LoadSensors
    <3>3. quiet' \in [Devices -> {"no", "unannounced", "readback", "outside"}]
      BY <2>3 DEF LoadSensors, ReadList
    <3> QED BY <2>3, <3>1, <3>2, <3>3 DEF LoadSensors, ReadList, MainPoints
  <2>4. CASE LoadStations
    <3>1. cfg' \in [Gens -> [Devices -> Configs \cup {Off}]]
      BY <2>4 DEF LoadStations
    <3>2. quiet' \in [Devices -> {"no", "unannounced", "readback", "outside"}]
      BY <2>4 DEF LoadStations, ReadList
    <3> QED BY <2>4, <3>1, <3>2 DEF LoadStations, ReadList, MainPoints
  <2>5. CASE LoadTargets
    <3>1. cfg' \in [Gens -> [Devices -> Configs \cup {Off}]]
      BY <2>5 DEF LoadTargets
    <3>2. quiet' \in [Devices -> {"no", "unannounced", "readback", "outside"}]
      BY <2>5 DEF LoadTargets, ReadList
    <3> QED BY <2>5, <3>1, <3>2 DEF LoadTargets, ReadList, MainPoints
  <2>6. CASE LoadFails
    BY <2>6 DEF LoadFails, MainPoints
  <2>7. CASE SpawnWorkers
    <3>1. life' \in [Gens -> [Devices -> {"none", "working", "waiting", "exited"}]]
      BY <2>7 DEF SpawnWorkers
    <3> QED BY <2>7, <3>1 DEF SpawnWorkers, MainPoints
  <2>8. ASSUME NEW s, NEW b \in BOOLEAN, StopAndJoin(s, b) PROVE TypeOK'
    BY <2>8 DEF StopAndJoin, MainPoints
  <2>9. CASE TakeUsr1
    BY <2>9 DEF TakeUsr1, MainPoints
  <2>10. CASE Join
    <3>1. life' \in [Gens -> [Devices -> {"none", "working", "waiting", "exited"}]]
      BY <2>10 DEF Join
    <3>2. cfg' \in [Gens -> [Devices -> Configs \cup {Off}]]
      BY <2>10 DEF Join
    <3> QED BY <2>10, <3>1, <3>2 DEF Join, MainPoints
  <2>11. CASE StopApi
    BY <2>11 DEF StopApi, MainPoints
  <2>12. CASE JoinApi
    BY <2>12 DEF JoinApi, MainPoints
  <2>13. ASSUME NEW g \in Gens, NEW d \in Devices, Worker(g, d) PROVE TypeOK'
    <3>1. cfg' \in [Gens -> [Devices -> Configs \cup {Off}]]
      BY <2>13 DEF Worker, PollEnds, ExportEnds, WakeUp, Leave
    <3>2. \E p \in {"working", "waiting", "exited"} : Phase(g, d, p)
      BY <2>13 DEF Worker, PollEnds, ExportEnds, WakeUp, Leave
    <3> QED BY <3>1, <3>2, PhaseTyped
  <2>14. ASSUME NEW g \in Gens, NEW d \in Devices, ExportThrows(g, d) PROVE TypeOK'
    BY <2>14, ProcessGoneTyped DEF ExportThrows, MainPoints
  <2>15. CASE SystemdRestarts
    BY <2>15, ProcessGoneTyped DEF SystemdRestarts, MainPoints
  <2>16. CASE ListenerStarts
    BY <2>16 DEF ListenerStarts
  <2>17. CASE ListenerEnds
    BY <2>17 DEF ListenerEnds
  <2>18. ASSUME NEW k \in Handlers, ReadBack(k) PROVE TypeOK'
    BY <2>18 DEF ReadBack
  <2>19. ASSUME NEW k \in Handlers, Raise(k) PROVE TypeOK'
    BY <2>19 DEF Raise
  <2>20. ASSUME NEW k \in Handlers, Apply(k) PROVE TypeOK'
    BY <2>20, DaemonAssumption DEF Apply
  <2>21. ASSUME NEW k \in Handlers, NEW d \in Devices, DeleteSensor(k, d) PROVE TypeOK'
    <3>1. Without(d) \in [Devices -> Configs \cup {Off}]
      BY DEF Without
    <3> QED BY <2>21, <3>1, CommitTyped DEF DeleteSensor
  <2>22. ASSUME NEW k \in Handlers, NEW d \in Devices, NEW c \in Configs \cup {Off},
                EditSensor(k, d, c) \/ EditUnannounced(k, d, c) \/ EditTarget(k, d, c)
         PROVE TypeOK'
    <3>1. /\ Put(d, c) \in [Devices -> Configs \cup {Off}]
          /\ PutStation(d, c) \in [Devices -> Configs \cup {Off}]
          /\ PutTarget(d, c) \in [Devices -> Configs \cup {Off}]
      BY DEF Put, PutStation, PutTarget
    <3>2. quiet' \in [Devices -> {"no", "unannounced", "readback", "outside"}]
      BY <2>22 DEF EditSensor, EditUnannounced, SaveSensor, EditStation, EditTarget
    <3> QED BY <2>22, <3>1, <3>2, CommitTyped DEF EditSensor, EditUnannounced, SaveSensor, EditStation, EditTarget
  <2>23. ASSUME NEW d \in Devices, NEW c \in Configs \cup {Off}, NwdbEdit(d, c) PROVE TypeOK'
    BY <2>23, DaemonAssumption DEF NwdbEdit, Put
  <2>24. ASSUME NEW s \in {"HUP", "TERM"}, OutsideSignal(s) PROVE TypeOK'
    BY <2>24, DaemonAssumption DEF OutsideSignal
  <2>25. CASE UNCHANGED vars
    BY <2>25 DEF vars
  <2> QED
    BY <2>1, <2>2, <2>3, <2>4, <2>5, <2>6, <2>7, <2>8, <2>9, <2>10, <2>11, <2>12, <2>13, <2>14,
       <2>15, <2>16, <2>17, <2>18, <2>19, <2>20, <2>21, <2>22, <2>23, <2>24, <2>25
    DEF Next, Main, Handler, TakeTerm, TakeHup
<1> QED BY <1>1, <1>2, PTL DEF Spec

-----------------------------------------------------------------------------
(* The worker threads and the server's requests never outlive their owner. *)

Held == {"sigwait", "applyStop", "applyJoin", "applyStart", "join"}

ServerDown == mpc \in {"boot", "bootApi", "applyStart", "exited", "failed"} => api = "down"

OwnerInv == NoOrphanWorker /\ NoOrphanHandler /\ ServerDown

(* Ownership holds initially and is kept by every step. *)
LEMMA OwnerInvInductive ==
  /\ Init => OwnerInv
  /\ TypeOK /\ OwnerInv /\ [Next]_vars => OwnerInv'
<1>1. Init => OwnerInv
  BY DEF Init, OwnerInv, NoOrphanWorker, NoOrphanHandler, ServerDown, Alive, NoWorkers
<1>2. TypeOK /\ OwnerInv /\ [Next]_vars => OwnerInv'
  <2> SUFFICES ASSUME TypeOK, OwnerInv, [Next]_vars PROVE OwnerInv'
    OBVIOUS
  <2> USE DEF OwnerInv, ServerDown, mainVars, workerVars, handlerVars, bounds
  <2>w. ASSUME UNCHANGED <<life, gen>>,
               mpc \notin Held \/ mpc' \in Held \/ \A g \in Gens, d \in Devices : ~Alive(g, d)
        PROVE  NoOrphanWorker'
    BY <2>w DEF NoOrphanWorker, Alive, Held
  <2>h. ASSUME UNCHANGED <<hpc, api>> PROVE NoOrphanHandler'
    BY <2>h DEF NoOrphanHandler
  <2>0. (ServerDown /\ NoOrphanHandler /\ mpc \in {"bootApi", "applyStart"})
          => \A k \in Handlers : hpc[k] = "idle"
    BY DEF NoOrphanHandler
  <2>1. CASE Boot
    BY <2>1, <2>w, <2>h DEF Boot, Held
  <2>2. CASE StartApi
    <3>1. NoOrphanHandler'
      BY <2>2, <2>0 DEF StartApi, NoOrphanHandler
    <3> QED BY <2>2, <2>w, <3>1 DEF StartApi, Held
  <2>3. CASE LoadSensors
    <3>1. \A g \in Gens, d \in Devices : ~Alive(g, d)
      BY <2>3 DEF LoadSensors, ReadList, NoOrphanWorker
    <3>2. NoOrphanWorker'
      BY <2>3, <3>1 DEF LoadSensors, ReadList, NoOrphanWorker, Alive
    <3> QED BY <2>3, <2>h, <3>2 DEF LoadSensors, ReadList
  <2>4. CASE LoadStations \/ LoadTargets
    BY <2>4, <2>w, <2>h DEF LoadStations, LoadTargets, ReadList, Held
  <2>5. CASE LoadFails
    BY <2>5, <2>w, <2>h DEF LoadFails, Held
  <2>6. CASE SpawnWorkers
    <3>1. \A g \in Gens, d \in Devices : ~Alive(g, d)
      BY <2>6 DEF SpawnWorkers, NoOrphanWorker
    <3>2. NoOrphanWorker'
      BY <2>6, <3>1 DEF SpawnWorkers, NoOrphanWorker, Alive, TypeOK
    <3> QED BY <2>6, <2>h, <3>2 DEF SpawnWorkers
  <2>7. ASSUME NEW s, NEW b, StopAndJoin(s, b) PROVE OwnerInv'
    BY <2>7, <2>w, <2>h DEF StopAndJoin, Held
  <2>8. CASE TakeUsr1
    BY <2>8, <2>w, <2>h DEF TakeUsr1, Held
  <2>9. CASE Join
    <3>1. \A g \in Gens, d \in Devices : ~Alive(g, d)
      BY <2>9 DEF Join, AllJoined, NoOrphanWorker
    <3>2. NoOrphanWorker'
      BY <2>9, <3>1 DEF Join, NoOrphanWorker, Alive, TypeOK
    <3> QED BY <2>9, <2>h, <3>2 DEF Join
  <2>10. CASE StopApi
    <3>1. NoOrphanHandler'
      BY <2>10 DEF StopApi, NoOrphanHandler
    <3> QED BY <2>10, <2>w, <3>1 DEF StopApi, Held
  <2>11. CASE JoinApi
    BY <2>11, <2>w, <2>h DEF JoinApi, Held
  <2>12. ASSUME NEW g \in Gens, NEW d \in Devices, Worker(g, d) PROVE OwnerInv'
    <3>1. PICK p : Phase(g, d, p) /\ Alive(g, d)
      BY <2>12 DEF Worker, PollEnds, ExportEnds, WakeUp, Leave, Alive
    <3>2. NoOrphanWorker'
      BY <3>1 DEF Phase, NoOrphanWorker, Alive, TypeOK
    <3> QED BY <3>1, <3>2, <2>h DEF Phase
  <2>13. ASSUME ProcessGone, mpc' \in {"boot", "failed"} PROVE OwnerInv'
    BY <2>13 DEF ProcessGone, NoWorkers, NoOrphanWorker, NoOrphanHandler, Alive
  <2>14. CASE ListenerStarts
    <3>1. NoOrphanHandler'
      BY <2>14 DEF ListenerStarts, NoOrphanHandler
    <3> QED BY <2>14, <2>w, <3>1 DEF ListenerStarts, Held
  <2>15. CASE ListenerEnds
    <3>1. NoOrphanHandler'
      BY <2>15 DEF ListenerEnds, PoolDrained, NoOrphanHandler
    <3> QED BY <2>15, <2>w, <3>1 DEF ListenerEnds, Held
  <2>16. ASSUME NEW k \in Handlers, Handler(k) PROVE OwnerInv'
    <3>1. NoOrphanHandler'
      BY <2>16 DEF Handler, ReadBack, Raise, NoOrphanHandler, TypeOK
    <3> QED BY <2>16, <2>w, <3>1 DEF Handler, ReadBack, Raise, Held
  <2>17. ASSUME NEW k \in Handlers, Apply(k) PROVE OwnerInv'
    <3>1. NoOrphanHandler'
      BY <2>17 DEF Apply, NoOrphanHandler, TypeOK
    <3> QED BY <2>17, <2>w, <3>1 DEF Apply, Held
  <2>18. ASSUME NEW k \in Handlers, NEW rows, NEW then, NEW d, Commit(k, rows, then, d) PROVE OwnerInv'
    <3>1. NoOrphanHandler'
      BY <2>18 DEF Commit, NoOrphanHandler, TypeOK
    <3> QED BY <2>18, <2>w, <3>1 DEF Commit, Held
  <2>19. ASSUME NEW d, NEW c, NwdbEdit(d, c) PROVE OwnerInv'
    BY <2>19, <2>w, <2>h DEF NwdbEdit, Held
  <2>20. ASSUME NEW s, OutsideSignal(s) PROVE OwnerInv'
    BY <2>20, <2>w, <2>h DEF OutsideSignal, Held
  <2>21. CASE UNCHANGED vars
    BY <2>21, <2>w, <2>h DEF vars, Held
  <2> QED
    BY <2>1, <2>2, <2>3, <2>4, <2>5, <2>6, <2>7, <2>8, <2>9, <2>10, <2>11, <2>12, <2>13, <2>14,
       <2>15, <2>16, <2>17, <2>18, <2>19, <2>20, <2>21
    DEF Next, Main, TakeTerm, TakeHup, ExportThrows, SystemdRestarts, DeleteSensor, EditSensor,
        EditUnannounced, SaveSensor, EditStation, EditTarget
<1> QED BY <1>1, <1>2

(* No reload, shutdown or failed reload leaves a worker thread behind, and *)
(* no two generations poll at once.                                        *)
THEOREM NoOrphanWorkerAlways == Spec => []NoOrphanWorker
BY OwnerInvInductive, TypeCorrect, PTL DEF Spec, OwnerInv

(* The API server is never destroyed under a request being served. *)
THEOREM NoOrphanHandlerAlways == Spec => []NoOrphanHandler
BY OwnerInvInductive, TypeCorrect, PTL DEF Spec, OwnerInv

-----------------------------------------------------------------------------
(* No announced edit is lost.  NoEditLost is not inductive: a handler that *)
(* is about to read back its own row says nothing about the other devices. *)

Due(d) ==
  \/ "HUP" \in sig
  \/ \E k \in Handlers : hpc[k] = "hup" \/ (hpc[k] = "readback" /\ hdev[k] = d)

EditInv ==
  \A d \in Devices : Loaded(d) /\ cfg[gen][d] # row[d] /\ quiet[d] = "no" => Due(d)

(* A commit by k leaves every earlier announcement in place. *)
LEMMA CommitDue ==
  ASSUME TypeOK, NEW k \in Handlers, NEW rows, NEW then, NEW d \in Devices, Commit(k, rows, then, d)
  PROVE  /\ \A e \in Devices : Due(e) => Due(e)'
         /\ then = "hup" => \A e \in Devices : Due(e)'
         /\ then = "readback" => Due(d)'
         /\ \A e \in Devices : (Loaded(e)' <=> Loaded(e)) /\ cfg'[gen'][e] = cfg[gen][e]
BY DEF Commit, Due, Loaded, TypeOK, mainVars, workerVars

(* EditInv is kept by every step. *)
LEMMA EditInvInductive ==
  /\ Init => EditInv
  /\ TypeOK /\ EditInv /\ [Next]_vars => EditInv'
<1>1. Init => EditInv
  BY DEF Init, EditInv, Loaded
<1>2. TypeOK /\ EditInv /\ [Next]_vars => EditInv'
  <2> SUFFICES ASSUME TypeOK, EditInv, [Next]_vars PROVE EditInv'
    OBVIOUS
  <2> USE DEF mainVars, workerVars, handlerVars, bounds
  <2>u. ASSUME \A d \in Devices : ~Loaded(d)' PROVE EditInv'
    BY <2>u DEF EditInv
  <2>s. ASSUME UNCHANGED <<row, cfg, gen, quiet>>,
               \A d \in Devices : Loaded(d)' => Loaded(d),
               \A d \in Devices : Due(d) => Due(d)'
        PROVE EditInv'
    BY <2>s DEF EditInv
  <2>d. ASSUME sig \subseteq sig', UNCHANGED <<hpc, hdev>>
        PROVE  \A d \in Devices : Due(d) => Due(d)'
    BY <2>d DEF Due
  <2>1. CASE Boot
    BY <2>1, <2>u DEF Boot, Loaded
  <2>2. CASE StartApi
    BY <2>2, <2>u, <2>s, <2>d DEF StartApi, Loaded
  <2>3. CASE LoadSensors
    <3>1. \A d \in Devices : Loaded(d)' => d \in Sensors
      BY <2>3 DEF LoadSensors, ReadList, Loaded
    <3>2. \A d \in Sensors : cfg'[gen'][d] = row'[d]
      BY <2>3 DEF LoadSensors, ReadList, TypeOK, Gens, Devices
    <3> QED BY <3>1, <3>2 DEF EditInv
  <2>4. CASE LoadStations
    <3>1. \A d \in Devices : Loaded(d)' => d \in Stations \/ (Loaded(d) /\ d \in Sensors)
      BY <2>4 DEF LoadStations, ReadList, Loaded
    <3>2. \A d \in Stations : cfg'[gen'][d] = row'[d]
      BY <2>4 DEF LoadStations, ReadList, TypeOK, Devices
    <3>3. \A d \in Sensors : cfg'[gen'][d] = cfg[gen][d] /\ quiet'[d] = quiet[d]
      BY <2>4, DaemonAssumption DEF LoadStations, ReadList, TypeOK, Devices
    <3>4. UNCHANGED row /\ \A d \in Devices : Due(d) => Due(d)'
      BY <2>4, <2>d DEF LoadStations, ReadList
    <3> QED BY <3>1, <3>2, <3>3, <3>4 DEF EditInv
  <2>5. CASE LoadTargets
    <3>1. \A d \in Devices : Loaded(d)' => d \in Targets \/ (Loaded(d) /\ d \in Sensors \cup Stations)
      BY <2>5 DEF LoadTargets, ReadList, Loaded, Devices
    <3>2. \A d \in Targets : cfg'[gen'][d] = row'[d]
      BY <2>5 DEF LoadTargets, ReadList, TypeOK, Devices
    <3>3. \A d \in Sensors \cup Stations : cfg'[gen'][d] = cfg[gen][d] /\ quiet'[d] = quiet[d]
      BY <2>5, DaemonAssumption DEF LoadTargets, ReadList, TypeOK, Devices
    <3>4. UNCHANGED row /\ \A d \in Devices : Due(d) => Due(d)'
      BY <2>5, <2>d DEF LoadTargets, ReadList
    <3> QED BY <3>1, <3>2, <3>3, <3>4 DEF EditInv
  <2>6. CASE LoadFails
    BY <2>6, <2>u DEF LoadFails, Loaded
  <2>7. CASE SpawnWorkers
    BY <2>7, <2>s, <2>d DEF SpawnWorkers, Loaded
  <2>8. ASSUME NEW s, NEW b, StopAndJoin(s, b) PROVE EditInv'
    BY <2>8, <2>u DEF StopAndJoin, Loaded
  <2>9. CASE TakeUsr1
    <3>1. \A d \in Devices : Due(d) => Due(d)'
      BY <2>9 DEF TakeUsr1, Due
    <3> QED BY <2>9, <3>1, <2>s DEF TakeUsr1, Loaded
  <2>10. CASE Join
    BY <2>10, <2>u DEF Join, Loaded
  <2>11. CASE StopApi
    BY <2>11, <2>s, <2>d DEF StopApi, Loaded
  <2>12. CASE JoinApi
    BY <2>12, <2>s, <2>d DEF JoinApi, Loaded
  <2>13. ASSUME NEW g \in Gens, NEW d \in Devices, Worker(g, d) PROVE EditInv'
    <3>1. PICK p : Phase(g, d, p)
      BY <2>13 DEF Worker, PollEnds, ExportEnds, WakeUp, Leave
    <3>2. \/ UNCHANGED cfg
          \/ cfg' = [cfg EXCEPT ![g][d] = row[d]]
      BY <2>13 DEF Worker, PollEnds, ExportEnds, WakeUp, Leave
    <3>3. \A e \in Devices : cfg'[gen][e] = cfg[gen][e] \/ cfg'[gen][e] = row[e]
      BY <3>2 DEF TypeOK
    <3>4. \A e \in Devices : (Due(e) => Due(e)') /\ (Loaded(e)' => Loaded(e))
      BY <3>1, <2>d DEF Phase, Loaded
    <3> QED BY <3>1, <3>3, <3>4 DEF Phase, EditInv
  <2>14. ASSUME ProcessGone, mpc' \in {"boot", "failed"} PROVE EditInv'
    BY <2>14, <2>u DEF Loaded
  <2>15. CASE ListenerStarts \/ ListenerEnds
    BY <2>15, <2>s, <2>d DEF ListenerStarts, ListenerEnds, Loaded
  <2>16. ASSUME NEW k \in Handlers, ReadBack(k) PROVE EditInv'
    <3>1. \A e \in Devices : Due(e) /\ quiet'[e] = "no" => Due(e)'
      BY <2>16 DEF ReadBack, Due, TypeOK
    <3>2. \A e \in Devices : quiet'[e] = "no" => quiet[e] = "no"
      BY <2>16 DEF ReadBack, TypeOK
    <3> QED BY <2>16, <3>1, <3>2 DEF ReadBack, EditInv, Loaded
  <2>17. ASSUME NEW k \in Handlers, Raise(k) PROVE EditInv'
    <3>1. \A e \in Devices : Due(e) => Due(e)'
      BY <2>17 DEF Raise, Due, TypeOK
    <3> QED BY <2>17, <3>1, <2>s DEF Raise, Loaded
  <2>18. ASSUME NEW k \in Handlers, Apply(k) PROVE EditInv'
    <3>1. \A e \in Devices : Due(e) => Due(e)'
      BY <2>18 DEF Apply, Due, TypeOK
    <3> QED BY <2>18, <3>1, <2>s DEF Apply, Loaded
  <2>19. ASSUME NEW k \in Handlers, NEW d \in Devices, DeleteSensor(k, d) PROVE EditInv'
    BY <2>19, CommitDue DEF DeleteSensor, EditInv
  <2>20. ASSUME NEW k \in Handlers, NEW d \in Devices, NEW c, EditSensor(k, d, c) PROVE EditInv'
    <3>1. row' = Put(d, c) /\ quiet' = quiet
      BY <2>20 DEF EditSensor, Commit
    <3>2. \A e \in Devices : e # d => row'[e] = row[e]
      BY <3>1 DEF Put, TypeOK
    <3> QED BY <2>20, <3>1, <3>2, CommitDue DEF EditSensor, EditInv
  <2>21. ASSUME NEW k \in Handlers, NEW d \in Devices, NEW c, EditUnannounced(k, d, c) PROVE EditInv'
    <3>1. row' = Put(d, c) /\ quiet' = [quiet EXCEPT ![d] = "unannounced"]
      BY <2>21 DEF EditUnannounced, SaveSensor, EditStation, Commit, Put, PutStation
    <3>2. \A e \in Devices : e # d => row'[e] = row[e] /\ quiet'[e] = quiet[e]
      BY <3>1 DEF Put, TypeOK
    <3>3. quiet'[d] # "no"
      BY <3>1 DEF TypeOK
    <3> QED BY <2>21, <3>2, <3>3, CommitDue DEF EditUnannounced, SaveSensor, EditStation, EditInv
  <2>22. ASSUME NEW k \in Handlers, NEW d \in Devices, NEW c, EditTarget(k, d, c) PROVE EditInv'
    BY <2>22, CommitDue DEF EditTarget, EditInv
  <2>23. ASSUME NEW d \in Devices, NEW c, NwdbEdit(d, c) PROVE EditInv'
    <3>1. \A e \in Devices : e # d => row'[e] = row[e] /\ quiet'[e] = quiet[e]
      BY <2>23 DEF NwdbEdit, Put, TypeOK
    <3>2. quiet'[d] # "no"
      BY <2>23 DEF NwdbEdit, TypeOK
    <3>3. \A e \in Devices : (Due(e) => Due(e)') /\ (Loaded(e)' => Loaded(e))
      BY <2>23, <2>d DEF NwdbEdit, Loaded
    <3> QED BY <2>23, <3>1, <3>2, <3>3 DEF NwdbEdit, EditInv
  <2>24. ASSUME NEW s, OutsideSignal(s) PROVE EditInv'
    BY <2>24, <2>s, <2>d DEF OutsideSignal, Loaded
  <2>25. CASE UNCHANGED vars
    BY <2>25, <2>s, <2>d DEF vars, Loaded
  <2> QED
    BY <2>1, <2>2, <2>3, <2>4, <2>5, <2>6, <2>7, <2>8, <2>9, <2>10, <2>11, <2>12, <2>13, <2>14,
       <2>15, <2>16, <2>17, <2>18, <2>19, <2>20, <2>21, <2>22, <2>23, <2>24, <2>25
    DEF Next, Main, Handler, TakeTerm, TakeHup, ExportThrows, SystemdRestarts
<1> QED BY <1>1, <1>2

(* No announced edit is lost: while the workers' lists disagree with a row *)
(* whose last edit announces itself, a reload is still due.                *)
THEOREM NoEditLostAlways == Spec => []NoEditLost
<1>1. EditInv => NoEditLost
  BY DEF EditInv, NoEditLost, Due, ReloadDue
<1> QED BY <1>1, EditInvInductive, TypeCorrect, PTL DEF Spec
=============================================================================
