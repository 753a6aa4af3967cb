----------------------------- MODULE ApiBringup -----------------------------
(***************************************************************************)
(* Bringing the HTTP server up and moving it (start_api_server in          *)
(* src/daemon/main.cpp, HttpServer::start, the /settings handlers of       *)
(* src/api/http_server.cpp and ensure_self_signed_cert in                  *)
(* src/api/tls_cert.cpp).  The bind address, the port and TLS come from    *)
(* the config file, overridden by rows the web UI writes; POST             *)
(* /settings/apply raises SIGUSR1 and main closes the server and opens it  *)
(* again with what the rows then say.  The certificate is a pair of files  *)
(* written once, key first.  A process may die at any step; systemd starts *)
(* it again and the rows and the files are what it finds.                  *)
(*                                                                         *)
(* The API is taken as enabled (a config port > 0).                        *)
(***************************************************************************)
EXTENDS Naturals

CONSTANTS
  Binds, Local,       \* addresses valid_bind accepts; 127.0.0.1 (and localhost)
  Ports,              \* ports in 1..65535
  Bindable,           \* the <<address, port>> pairs this host lets us listen on
  Config,             \* the config file: [bind, port, tls]
  Unset, NoServer, NoPort,
  Handlers,           \* threads of the server's pool
  Retries,            \* attempts on the configured address (10 in the code)
  MaxEdits,           \* bound: requests to /settings
  MaxCrashes          \* bound: deaths of the process

ASSUME BringupAssumption ==
  /\ Local \in Binds
  /\ Bindable \subseteq Binds \X Ports
  /\ Config \in [bind : Binds, port : Ports, tls : {"on", "off"}]
  /\ Unset \notin Binds \cup Ports \cup {"on", "off"}
  /\ NoPort \notin Ports
  /\ NoServer \notin [bind : Binds, port : Ports, tls : {"on", "off"}]
  /\ Retries \in Nat \ {0} /\ MaxEdits \in Nat /\ MaxCrashes \in Nat

VARIABLES
  setting,     \* the settings rows: [bind, port, tls], Unset when there is none
  key, cert,   \* the two files: "absent", "torn" (exists, not whole) or "good"
  mpc,         \* the main thread inside start_api_server
  want,        \* its locals bind, port, tls
  pair,        \* tls_cert and tls_key are not empty
  tries,       \* its loop counter
  srv,         \* the listening server: [bind, port, tls], or NoServer
  listener,    \* its listen thread: "none", "spawned", "running", "stopping"
  linger,      \* the port a closed listener has not released yet, or NoPort
  lingered,    \* history: the port was still held at the latest failed attempt
  usr1,        \* SIGUSR1 is pending
  hpc,         \* each handler thread
  edits, crashes  \* bounds

files    == <<key, cert>>
mainVars == <<mpc, want, pair, tries>>
server   == <<srv, listener>>
port     == <<linger, lingered>>
vars == <<setting, files, mainVars, server, port, usr1, hpc, edits, crashes>>

Reading  == {"readBind", "readPort", "readTls"}
Writing  == {"keyOpen", "keyWrite", "certOpen", "certWrite"}
Points   == {"reset", "join", "check", "try", "fallback", "idle", "dead"} \cup Reading \cup Writing
Address  == [bind : Binds, port : Ports, tls : {"on", "off"}]
FileIs   == {"absent", "torn", "good"}

FlagsOK == pair \in BOOLEAN /\ usr1 \in BOOLEAN /\ lingered \in BOOLEAN

TypeOK ==
  /\ FlagsOK
  /\ setting \in [bind : Binds \cup {Unset}, port : Ports \cup {Unset}, tls : {"on", "off", Unset}]
  /\ key \in FileIs /\ cert \in FileIs
  /\ mpc \in Points /\ want \in Address /\ tries \in 0..Retries
  /\ srv \in Address \cup {NoServer}
  /\ listener \in {"none", "spawned", "running", "stopping"}
  /\ linger \in Ports \cup {NoPort}
  /\ hpc \in [Handlers -> {"idle", "putPort", "putTls", "usr1"}]
  /\ edits \in 0..MaxEdits /\ crashes \in 0..MaxCrashes

Init ==
  /\ setting = [bind |-> Unset, port |-> Unset, tls |-> Unset]
  /\ \E f \in {"absent", "good"} : key = f /\ cert = f
  /\ mpc = "reset" /\ want = Config /\ pair = FALSE /\ tries = 0
  /\ srv = NoServer /\ listener = "none"
  /\ linger = NoPort /\ lingered = FALSE /\ usr1 = FALSE
  /\ hpc = [h \in Handlers |-> "idle"]
  /\ edits = 0 /\ crashes = 0

-----------------------------------------------------------------------------
(* main: close the old server, read the settings.                          *)

(* Fault: the server is destroyed without waiting for its requests. *)
DrainedUnwaited == TRUE

(* The listen thread ends when its pool is empty. *)
Drained == \A h \in Handlers : hpc[h] = "idle"

(* api.reset(): ~HttpServer stops, then joins.  stop() tells the server to *)
(* end only if the listen thread has already set is_running.               *)
Stop ==
  /\ mpc = "reset" /\ mpc' = "join"
  /\ listener' = IF listener = "running" THEN "stopping" ELSE listener
  /\ UNCHANGED <<setting, files, want, pair, tries, srv, port, usr1, hpc, edits, crashes>>

Reset ==
  /\ mpc = "join" /\ listener \in {"none", "stopping"} /\ Drained
  /\ srv' = NoServer /\ listener' = "none"
  /\ linger' = IF srv = NoServer THEN linger ELSE srv.port
  /\ mpc' = "readBind" /\ want' = Config /\ pair' = FALSE /\ tries' = 0 /\ lingered' = FALSE
  /\ UNCHANGED <<setting, files, usr1, hpc, edits, crashes>>

(* The listen thread, started by start(): it serves from here on, also a   *)
(* main thread that did not tell it to stop and waits for its end.         *)
Serve ==
  /\ listener = "spawned" /\ listener' = "running"
  /\ UNCHANGED <<setting, files, mainVars, srv, port, usr1, hpc, edits, crashes>>

Override(from, field, next) ==
  /\ mpc = from
  /\ want' = IF setting[field] = Unset THEN want ELSE [want EXCEPT ![field] = setting[field]]
  /\ mpc' = next
  /\ UNCHANGED <<setting, files, pair, tries, server, port, usr1, hpc, edits, crashes>>

ReadBind == Override("readBind", "bind", "readPort")
ReadPort == Override("readPort", "port", "readTls")
ReadTls  == Override("readTls", "tls", "check")

(* Settings unavailable: what was not read yet stays as configured. *)
ReadFails ==
  /\ mpc \in Reading
  /\ mpc' = "check"
  /\ UNCHANGED <<setting, files, want, pair, tries, server, port, usr1, hpc, edits, crashes>>

-----------------------------------------------------------------------------
(* The certificate: ensure_self_signed_cert, key file then cert file.      *)

(* Fault: the certificate is made anew at each start. *)
ExistsNever == FALSE

(* file_exists opens the file; what is in it is not looked at. *)
Exists == cert # "absent" /\ key # "absent"

Check ==
  /\ mpc = "check"
  /\ mpc' = IF want.tls = "on" /\ ~Exists THEN "keyOpen" ELSE "try"
  /\ pair' = (want.tls = "on" /\ Exists)
  /\ UNCHANGED <<setting, files, want, tries, server, port, usr1, hpc, edits, crashes>>

(* fopen "wb" truncates. *)
OpenKey ==
  /\ mpc = "keyOpen" /\ mpc' = "keyWrite" /\ key' = "torn"
  /\ UNCHANGED <<setting, cert, want, pair, tries, server, port, usr1, hpc, edits, crashes>>

(* The text is buffered until fclose, whose result is not looked at: what  *)
(* is reported as written may not have reached the disk.                   *)
WriteKey ==
  /\ mpc = "keyWrite" /\ mpc' = "certOpen" /\ key' \in {"good", "torn"}
  /\ UNCHANGED <<setting, cert, want, pair, tries, server, port, usr1, hpc, edits, crashes>>

OpenCert ==
  /\ mpc = "certOpen" /\ mpc' = "certWrite" /\ cert' = "torn"
  /\ UNCHANGED <<setting, key, want, pair, tries, server, port, usr1, hpc, edits, crashes>>

WriteCert ==
  /\ mpc = "certWrite" /\ mpc' = "try" /\ cert' \in {"good", "torn"} /\ pair' = TRUE
  /\ UNCHANGED <<setting, key, want, tries, server, port, usr1, hpc, edits, crashes>>

(* Key generation, fopen or a write reports failure: plain HTTP instead. *)
CertFails ==
  /\ mpc \in Writing /\ mpc' = "try"
  /\ UNCHANGED <<setting, files, want, pair, tries, server, port, usr1, hpc, edits, crashes>>

-----------------------------------------------------------------------------
(* Listening: make(bind) up to Retries times, then make("127.0.0.1").      *)

Usable == key = "good" /\ cert = "good"

(* HttpServer::start does not throw. *)
Starts(b) == (pair => Usable) /\ <<b, want.port>> \in Bindable /\ linger # want.port

Listen(b) ==
  /\ srv' = [want EXCEPT !.bind = b, !.tls = IF pair THEN "on" ELSE "off"]
  /\ listener' = "spawned"
  /\ mpc' = "idle"

TryBind ==
  /\ mpc = "try" /\ tries < Retries /\ Starts(want.bind)
  /\ Listen(want.bind)
  /\ UNCHANGED <<setting, files, want, pair, tries, port, usr1, hpc, edits, crashes>>

(* Fault: the last attempt forgets to leave the loop. *)
AfterFailureStays == "try"

(* The loop's exit. *)
AfterFailure == IF tries + 1 = Retries THEN "fallback" ELSE "try"

TryFails ==
  /\ mpc = "try" /\ tries < Retries /\ ~Starts(want.bind)
  /\ tries' = tries + 1
  /\ mpc' = AfterFailure
  /\ lingered' = (linger = want.port)
  /\ UNCHANGED <<setting, files, want, pair, server, linger, usr1, hpc, edits, crashes>>

(* Fault: the fallback is for an address that is already local. *)
HasFallbackSwapped == want.bind = Local

HasFallback == want.bind # Local

FallBack ==
  /\ mpc = "fallback"
  /\ IF HasFallback /\ Starts(Local)
     THEN Listen(Local) /\ UNCHANGED lingered
     ELSE /\ mpc' = "idle" /\ UNCHANGED server
          /\ lingered' = IF HasFallback THEN linger = want.port ELSE lingered
  /\ UNCHANGED <<setting, files, want, pair, tries, linger, usr1, hpc, edits, crashes>>

(* sigwait returns SIGUSR1. *)
TakeUsr1 ==
  /\ mpc = "idle" /\ usr1
  /\ usr1' = FALSE /\ mpc' = "reset"
  /\ UNCHANGED <<setting, files, want, pair, tries, server, port, hpc, edits, crashes>>

Main ==
  \/ Stop \/ Reset \/ ReadBind \/ ReadPort \/ ReadTls \/ ReadFails
  \/ Check \/ OpenKey \/ WriteKey \/ OpenCert \/ WriteCert \/ CertFails
  \/ TryBind \/ TryFails \/ FallBack \/ TakeUsr1

-----------------------------------------------------------------------------
(* The /settings handlers.  A body may name any of the fields; each is     *)
(* checked and stored before the next is looked at.                        *)

(* A request comes on a new connection while the server runs, or on one    *)
(* kept alive while it is being stopped.                                   *)
Arrives(h) ==
  /\ listener \in {"running", "stopping"} /\ hpc[h] = "idle" /\ edits < MaxEdits
  /\ edits' = edits + 1

Goes(h, next) ==
  /\ hpc' = [hpc EXCEPT ![h] = next]
  /\ UNCHANGED <<files, mainVars, server, port, crashes>>

(* Unset: the field is not in the body. *)
PutField(h, field, values, next) ==
  /\ \E v \in values \cup {Unset} :
       setting' = IF v = Unset THEN setting ELSE [setting EXCEPT ![field] = v]
  /\ Goes(h, next)
  /\ UNCHANGED usr1

PutBind(h) == Arrives(h) /\ PutField(h, "bind", Binds, "putPort")

PutPort(h) == hpc[h] = "putPort" /\ PutField(h, "port", Ports, "putTls") /\ UNCHANGED edits
PutTls(h)  == hpc[h] = "putTls" /\ PutField(h, "tls", {"on", "off"}, "idle") /\ UNCHANGED edits

(* An invalid field or a failed statement ends the request (400, 500);     *)
(* what it stored stays stored.                                            *)
PutFails(h) ==
  /\ hpc[h] \in {"putPort", "putTls"}
  /\ Goes(h, "idle")
  /\ UNCHANGED <<setting, usr1, edits>>

(* POST /settings/apply answers, then raises SIGUSR1. *)
Apply(h) == Arrives(h) /\ Goes(h, "usr1") /\ UNCHANGED <<setting, usr1>>

RaiseUsr1(h) ==
  /\ hpc[h] = "usr1" /\ usr1' = TRUE
  /\ Goes(h, "idle")
  /\ UNCHANGED <<setting, edits>>

Handler(h) ==
  PutBind(h) \/ PutPort(h) \/ PutTls(h) \/ PutFails(h) \/ Apply(h) \/ RaiseUsr1(h)

-----------------------------------------------------------------------------
(* The environment.                                                        *)

Release ==
  /\ linger # NoPort /\ linger' = NoPort
  /\ UNCHANGED <<setting, files, mainVars, server, lingered, usr1, hpc, edits, crashes>>

Crash ==
  /\ mpc # "dead" /\ crashes < MaxCrashes
  /\ crashes' = crashes + 1
  /\ mpc' = "dead" /\ srv' = NoServer /\ listener' = "none" /\ usr1' = FALSE
  /\ linger' = IF srv = NoServer THEN linger ELSE srv.port
  /\ hpc' = [h \in Handlers |-> "idle"]
  /\ UNCHANGED <<setting, files, want, pair, tries, lingered, edits>>

Restart ==
  /\ mpc = "dead" /\ mpc' = "reset"
  /\ UNCHANGED <<setting, files, want, pair, tries, server, port, usr1, hpc, edits, crashes>>

Next == Main \/ Serve \/ (\E h \in Handlers : Handler(h)) \/ Release \/ Crash \/ Restart

(* Threads that can take a step take one; the kernel releases a closed     *)
(* port; Restart=on-failure.  Requests, and reporting failure, need not    *)
(* happen.                                                                 *)
Fairness ==
  /\ WF_vars(Main) /\ WF_vars(Serve)
  /\ WF_vars(Release) /\ WF_vars(Restart)
  /\ \A h \in Handlers : WF_vars(PutPort(h) \/ PutTls(h) \/ RaiseUsr1(h))

Spec == Init /\ [][Next]_vars /\ Fairness

-----------------------------------------------------------------------------
(* Properties.                                                             *)

(* Why the last attempt on localhost failed: it cannot be bound there, the *)
(* files on disk are not a usable certificate, or the port was still held  *)
(* by the listener just closed.                                            *)
NoneCanListen ==
  <<Local, want.port>> \notin Bindable \/ (pair /\ ~Usable) \/ lingered

(* stop() met a listen thread that did not run yet, and the join waits for *)
(* a server nobody tells to end: no later apply is carried out.            *)
Hung == mpc = "join" /\ listener \in {"spawned", "running"}

(* When start_api_server returns without a server, it is because the port  *)
(* cannot be bound on localhost either, or because the files on disk are   *)
(* not a usable certificate, or because the last attempt still met the old *)
(* listener's port; and when it returns with one on the fallback address,  *)
(* because the address the settings name cannot be bound or its port was   *)
(* held through the last retry.  However often the process died and        *)
(* whatever half-done request wrote them, any other settings put a server  *)
(* where they say.                                                         *)
StaysReachable ==
  mpc = "idle" =>
    IF srv = NoServer
    THEN NoneCanListen
    ELSE srv.bind # want.bind => <<want.bind, want.port>> \notin Bindable \/ lingered

(* Main never reads the settings while a request is between two of its     *)
(* writes: destroying the old server waits for its requests.               *)
SettingsReadWhole ==
  mpc \in Reading => \A h \in Handlers : hpc[h] \notin {"putPort", "putTls"}

(* A usable certificate is never touched again, by a later start, a        *)
(* failing write or a crash: clients that trust it go on doing so.         *)
GoodPairKept == [][Usable => Usable']_vars

(* After each start, each apply and each crash a server runs again, on     *)
(* localhost if need be: the new one, or the one that main, hung, did not  *)
(* stop; unless none can listen.                                           *)
ServerReturns ==
  mpc # "idle" ~>
    \/ mpc = "idle" /\ (listener = "running" \/ (srv = NoServer /\ NoneCanListen))
    \/ Hung /\ listener = "running"
=============================================================================
