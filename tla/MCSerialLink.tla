---------------------------- MODULE MCSerialLink ----------------------------
(* The scheduler's worker polls, an HTTP handler or a command line tool    *)
(* runs any of its scripts.                                                *)
EXTENDS SerialLink

CONSTANTS worker, other

MCScriptsOf == [c \in {worker, other} |->
                  IF c = worker THEN {PollNow} ELSE HandlerScripts \cup ToolScripts]
=============================================================================
