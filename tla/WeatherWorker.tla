--------------------------- MODULE WeatherWorker ---------------------------
(***************************************************************************)
(* WeatherScheduler::worker (src/weather/weather_scheduler.cpp).  Its loop *)
(* is the sensor worker's with a provider's fetch() for the device read    *)
(* and a backoff of 5 to 300 seconds; before the loop it builds the        *)
(* provider from the station's configuration, and a station whose          *)
(* configuration is refused is dropped after a config_error event.  Here   *)
(* "reachable" is the provider's service, and "read_error" stands for the  *)
(* fetch_error event.                                                      *)
(***************************************************************************)
EXTENDS PollWorker

(* The thread opens its connection, then goes on to the provider. *)
ConnectDatabase ==
  /\ pc = "connect"
  /\ \/ writable /\ pc' = "provider" /\ UNCHANGED conn
     \/ pc' = "exited" /\ conn' = FALSE
  /\ UNCHANGED <<stop, loop, reachable, writable, hist>>

MakeProvider ==
  /\ pc = "provider"
  /\ pc' = "poll"
  /\ UNCHANGED <<stop, loop, env, hist>>

(* make_provider throws: a config_error event (best effort), and the       *)
(* station is not polled until the next reload; the thread's connection    *)
(* goes with it.                                                           *)
MakeProviderFails ==
  /\ pc = "provider"
  /\ \/ conn /\ writable /\ Log("config_error") /\ muted' \in {muted, TRUE}
     \/ muted' = TRUE /\ UNCHANGED <<last, alarms>>
  /\ pc' = "exited" /\ conn' = FALSE
  /\ UNCHANGED <<stop, loop, reachable, writable, fails>>

FetchFails == ReadFails

FetchSucceeds == ReadSucceeds

StoreWeatherReading == StoreReading

AnnounceStation == Announce

InsertWeatherFails == InsertFails

WakeStation == Wake

LeaveStation == Leave

StationWorker ==
  \/ ConnectDatabase \/ MakeProvider \/ MakeProviderFails
  \/ FetchFails \/ FetchSucceeds \/ StoreWeatherReading
  \/ AnnounceStation \/ InsertWeatherFails \/ WakeStation \/ LeaveStation

StationNext ==
  StationWorker \/ Stop \/ SensorChanges \/ ServerChanges \/ ConnectionLost

StationSpec == Init /\ [][StationNext]_vars /\ WF_vars(StationWorker)

(* A worker of either scheduler: which of the two it is shows at its first *)
(* step, after which the loops are the same.                               *)
AnyWorkerSpec ==
  Init /\ [][Next \/ StationNext]_vars /\ WF_vars(Worker \/ StationWorker)
=============================================================================
