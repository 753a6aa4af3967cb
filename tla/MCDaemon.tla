------------------------------ MODULE MCDaemon ------------------------------
(***************************************************************************)
(* Instances of Daemon for TLC: a sensor s1, a weather station w1, and an  *)
(* export target x1 of the sensor.                                         *)
(***************************************************************************)
EXTENDS Daemon, TLC
CONSTANTS s1, w1, x1, k1, k2

MCSensorOf == [t \in Targets |-> s1]

(* The server's pool threads are interchangeable. *)
HandlerSymmetry == Permutations({k1, k2})
=============================================================================
