----------------------------- MODULE WorkerLife -----------------------------
(***************************************************************************)
(* What a worker thread of any of the three schedulers promises the main   *)
(* thread that owns it: it alternates between a working phase, which ends  *)
(* by itself, and a wait on the scheduler's condition variable, which the  *)
(* stop flag turns into an exit.  The daemon's reload and shutdown only    *)
(* rely on this: Scheduler::stop sets the flag, Scheduler::join waits for  *)
(* "exited".  PollWorker and WeatherWorker are shown to implement it, and  *)
(* Daemon runs one of these per device.                                    *)
(***************************************************************************)

VARIABLES
  stop,   \* the scheduler's stop_ flag, set once and never cleared
  life    \* "working", "waiting" or "exited"

vars == <<stop, life>>

TypeOK ==
  /\ stop \in BOOLEAN
  /\ life \in {"working", "waiting", "exited"}

Init == stop = FALSE /\ life = "working"

(* Scheduler::stop *)
Stop == stop' = TRUE /\ UNCHANGED life

(* A cycle ends in the wait, or the worker gives up for good. *)
Finish == life = "working" /\ life' \in {"waiting", "exited"} /\ UNCHANGED stop

(* The wait times out while no stop was requested. *)
Wake == life = "waiting" /\ ~stop /\ life' = "working" /\ UNCHANGED stop

(* The wait ends because stop_ is set. *)
Leave == life = "waiting" /\ stop /\ life' = "exited" /\ UNCHANGED stop

Next == Stop \/ Finish \/ Wake \/ Leave

Spec == Init /\ [][Next]_vars
=============================================================================
