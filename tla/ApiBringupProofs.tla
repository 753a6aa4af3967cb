-------------------------- MODULE ApiBringupProofs --------------------------
(* Proofs about ApiBringup, for every set of addresses, ports and handler  *)
(* threads, every config file and every number of retries.                 *)
EXTENDS ApiBringup, TLAPS

USE BringupAssumption

-----------------------------------------------------------------------------
(* A server that listens has an address, so it is not NoServer. *)
LEMMA ListenTyped ==
  ASSUME TypeOK, NEW b \in Binds, Listen(b)
  PROVE  srv' \in Address /\ srv' # NoServer
<1> DEFINE t == IF pair THEN "on" ELSE "off"
<1>1. t \in {"on", "off"}
  OBVIOUS
<1>2. srv' = [bind |-> b, port |-> want.port, tls |-> t]
  BY DEF Listen, TypeOK, Address
<1>3. want.port \in Ports
  BY DEF TypeOK, Address
<1>4. srv' \in Address
  BY <1>1, <1>2, <1>3 DEF Address
<1>5. QED
  BY <1>4 DEF Address

LEMMA FlagsTyped ==
  ASSUME TypeOK, [Next]_vars
  PROVE  FlagsOK'
<1> USE DEF TypeOK, FlagsOK
<1>1. CASE Main
  <2>1. CASE Stop \/ ReadBind \/ ReadPort \/ ReadTls \/ ReadFails \/ Check
    BY <2>1, Zenon DEF Stop, port, ReadBind, ReadPort, ReadTls, ReadFails, Override, Check
  <2>2. CASE OpenKey \/ WriteKey \/ OpenCert \/ WriteCert \/ CertFails
    BY <2>2, Zenon DEF OpenKey, WriteKey, OpenCert, WriteCert, CertFails, port
  <2>3. CASE TryBind \/ TryFails \/ TakeUsr1
    BY <2>3, Zenon DEF TryBind, TryFails, TakeUsr1, port
  <2>5. CASE Reset
    BY <2>5, Zenon DEF Reset
  <2>6. CASE FallBack
    <3>1. (linger = want.port) \in BOOLEAN
      OBVIOUS
    <3>2. lingered' \in BOOLEAN
      BY <2>6, <3>1, Zenon DEF FallBack
    <3>3. QED
      BY <2>6, <3>2, Zenon DEF FallBack
  <2>4. QED
    BY <1>1, <2>1, <2>2, <2>3, <2>5, <2>6 DEF Main
<1>2. ASSUME NEW h \in Handlers, Handler(h)
      PROVE  FlagsOK'
  BY <1>2, Zenon DEF Handler, PutBind, PutPort, PutTls, PutField, PutFails, Apply, RaiseUsr1,
                     Goes, mainVars, port
<1>3. CASE Serve \/ Release \/ Crash \/ Restart \/ UNCHANGED vars
  BY <1>3, Zenon DEF Serve, Release, Crash, Restart, vars, mainVars, port
<1>4. QED
  BY <1>1, <1>2, <1>3 DEF Next

-----------------------------------------------------------------------------
(* Every variable keeps its type: only addresses and ports that passed the *)
(* checks are stored, and the retry counter stays within its bound.        *)
THEOREM TypeCorrect == Spec => []TypeOK
<1>1. Init => TypeOK
  <2>1. Init => FlagsOK
    BY Zenon DEF Init, FlagsOK
  <2>2. QED
    BY <2>1 DEF Init, TypeOK, Address, FileIs, Points, Reading, Writing
<1>2. TypeOK /\ [Next]_vars => TypeOK'
  <2> SUFFICES ASSUME TypeOK, [Next]_vars PROVE TypeOK'
    OBVIOUS
  <2> FlagsOK'
    BY FlagsTyped
  <2> USE DEF TypeOK, Address, FileIs, Points, Reading, Writing, files, server, port
  <2>1. CASE Stop \/ Reset \/ Serve
    BY <2>1 DEF Stop, Reset, Serve, mainVars
  <2>2. ASSUME NEW from \in Points, NEW next \in Points,
               NEW field \in {"bind", "port", "tls"}, Override(from, field, next)
        PROVE  TypeOK'
    BY <2>2 DEF Override
  <2>3. CASE ReadBind \/ ReadPort \/ ReadTls
    BY <2>2, <2>3 DEF ReadBind, ReadPort, ReadTls
  <2>4. CASE ReadFails
    BY <2>4 DEF ReadFails
  <2>5. CASE Check \/ CertFails
    BY <2>5 DEF Check, CertFails
  <2>6. CASE OpenKey \/ WriteKey \/ OpenCert \/ WriteCert
    BY <2>6 DEF OpenKey, WriteKey, OpenCert, WriteCert
  <2>7. CASE TryBind \/ FallBack
    <3>1. Listen(want.bind) => srv' \in Address
      BY ListenTyped
    <3>2. Listen(Local) => srv' \in Address
      BY ListenTyped
    <3>3. QED
      BY <2>7, <3>1, <3>2 DEF TryBind, FallBack, Listen
  <2>8. CASE TryFails
    BY <2>8 DEF TryFails, AfterFailure
  <2>9. CASE TakeUsr1
    BY <2>9 DEF TakeUsr1
  <2>10. ASSUME NEW h \in Handlers, PutBind(h) \/ PutPort(h) \/ PutTls(h)
         PROVE  TypeOK'
    BY <2>10 DEF PutBind, PutPort, PutTls, PutField, Arrives, Goes, mainVars, files
  <2>11. ASSUME NEW h \in Handlers, PutFails(h) \/ Apply(h) \/ RaiseUsr1(h)
         PROVE  TypeOK'
    BY <2>11 DEF PutFails, Apply, RaiseUsr1, Arrives, Goes, mainVars, files
  <2>12. CASE Release \/ Crash \/ Restart
    BY <2>12 DEF Release, Crash, Restart, mainVars, files
  <2>13. CASE UNCHANGED vars
    BY <2>13 DEF vars, mainVars, files
  <2>14. QED
    BY <2>1, <2>3, <2>4, <2>5, <2>6, <2>7, <2>8, <2>9, <2>10, <2>11, <2>12, <2>13
       DEF Next, Main, Handler
<1>3. QED
  BY <1>1, <1>2, PTL DEF Spec

-----------------------------------------------------------------------------
(* What makes the three properties inductive: without a running listener   *)
(* no request is in progress, and there is none between closing the server *)
(* and opening it; the cert file is not written before the key file, so    *)
(* that what is being written is not usable; and when the retries are over *)
(* the last one failed for a reason that is there to see.                  *)
Quiet ==
  /\ listener \in {"none", "spawned"} => Drained
  /\ mpc \notin {"idle", "reset", "join"} => listener = "none" /\ srv = NoServer

KeyFirst ==
  /\ cert # "absent" => key # "absent"
  /\ mpc \in {"keyOpen", "keyWrite", "certOpen"} => cert = "absent"
  /\ mpc \in {"keyWrite", "certOpen", "certWrite"} => key # "absent"
  /\ mpc = "certWrite" => cert = "torn"

LastingReason ==
  mpc = "fallback" =>
    (pair /\ ~Usable) \/ <<want.bind, want.port>> \notin Bindable \/ lingered

BringupInv == Quiet /\ KeyFirst /\ LastingReason /\ StaysReachable

(* A handler's step leaves main and the server alone, and has a server. *)
LEMMA HandlerRuns ==
  ASSUME Quiet, NEW h \in Handlers, Handler(h)
  PROVE  UNCHANGED <<files, mainVars, server, port>> /\ listener \notin {"none", "spawned"}
<1>1. UNCHANGED <<files, mainVars, server, port>>
  BY DEF Handler, PutBind, PutPort, PutTls, PutField, PutFails, Apply, RaiseUsr1, Goes
<1>2. hpc[h] # "idle" \/ listener \in {"running", "stopping"}
  BY DEF Handler, PutBind, PutPort, PutTls, PutFails, Apply, RaiseUsr1, Arrives
<1>3. QED
  BY <1>1, <1>2 DEF Quiet, Drained

LEMMA BringupInvInductive == Spec => []BringupInv
<1>1. Init => BringupInv
  BY DEF Init, BringupInv, Quiet, KeyFirst, LastingReason, StaysReachable, Drained
<1>2. TypeOK /\ BringupInv /\ [Next]_vars => BringupInv'
  <2> SUFFICES ASSUME TypeOK, BringupInv, [Next]_vars PROVE BringupInv'
    OBVIOUS
  <2> USE DEF BringupInv, Quiet, KeyFirst, LastingReason, StaysReachable, NoneCanListen, Usable,
              Drained, files, server, port
  <2>1. CASE Stop \/ Reset
    BY <2>1 DEF Stop, Reset
  <2>2. CASE ReadBind \/ ReadPort \/ ReadTls \/ ReadFails
    BY <2>2 DEF ReadBind, ReadPort, ReadTls, ReadFails, Override, Reading
  <2>3. CASE Check
    BY <2>3 DEF Check, Exists
  <2>4. CASE OpenKey \/ WriteKey \/ OpenCert \/ WriteCert \/ CertFails
    <3>1. CASE OpenKey \/ WriteKey
      BY <2>4, <3>1 DEF OpenKey, WriteKey
    <3>2. CASE OpenCert \/ WriteCert
      BY <2>4, <3>2 DEF OpenCert, WriteCert
    <3>3. CASE CertFails
      BY <2>4, <3>3 DEF CertFails, Writing
    <3>4. QED
      BY <2>4, <3>1, <3>2, <3>3
  <2>5. CASE TryBind
    <3>1. srv' # NoServer /\ srv'.bind = want.bind
      BY <2>5, ListenTyped DEF TryBind, Listen, TypeOK, Address
    <3>2. QED
      BY <2>5, <3>1 DEF TryBind, Listen
  <2>6. CASE TryFails
    <3>1. lingered' = (linger = want.port) /\ ~Starts(want.bind)
      BY <2>6 DEF TryFails
    <3>2. QED
      BY <2>6, <3>1 DEF TryFails, AfterFailure, Starts
  <2>7. CASE FallBack
    <3>1. CASE HasFallback /\ Starts(Local)
      <4>1. srv' # NoServer /\ (pair => Usable) /\ UNCHANGED <<want, pair, lingered, files>>
        BY <2>7, <3>1, ListenTyped DEF FallBack, Starts
      <4>2. QED
        BY <2>7, <3>1, <4>1 DEF FallBack, Listen
    <3>2. CASE ~(HasFallback /\ Starts(Local))
      <4>1. NoneCanListen'
        BY <2>7, <3>2 DEF FallBack, HasFallback, Starts
      <4>2. mpc' = "idle" /\ UNCHANGED <<srv, listener, hpc, files>> /\ srv = NoServer
        BY <2>7, <3>2 DEF FallBack
      <4>3. QED
        BY <2>7, <4>1, <4>2
    <3>3. QED
      BY <3>1, <3>2
  <2>8. CASE TakeUsr1
    BY <2>8 DEF TakeUsr1
  <2>9. ASSUME NEW h \in Handlers, Handler(h)
        PROVE  BringupInv'
    <3>1. UNCHANGED <<files, mainVars, server, port>> /\ listener \notin {"none", "spawned"}
      BY <2>9, HandlerRuns
    <3>2. QED
      BY <3>1 DEF mainVars
  <2>10. CASE Serve \/ Release \/ Crash \/ Restart
    BY <2>10 DEF Serve, Release, Crash, Restart, mainVars
  <2>11. CASE UNCHANGED vars
    BY <2>11 DEF vars, mainVars
  <2>12. QED
    BY <2>1, <2>2, <2>3, <2>4, <2>5, <2>6, <2>7, <2>8, <2>9, <2>10, <2>11 DEF Next, Main
<1>3. QED
  BY <1>1, <1>2, TypeCorrect, PTL DEF Spec

(* start_api_server leaves a server up, where the settings say or on       *)
(* localhost, unless the port cannot be bound, the certificate on disk is  *)
(* not usable, or the port was still held at the last attempt.             *)
THEOREM Reachable == Spec => []StaysReachable
<1>1. BringupInv => StaysReachable
  BY DEF BringupInv
<1>2. QED
  BY <1>1, BringupInvInductive, PTL

(* The settings are never read between two writes of one request.          *)
THEOREM WholeSettings == Spec => []SettingsReadWhole
<1>1. BringupInv => SettingsReadWhole
  BY DEF BringupInv, Quiet, Drained, SettingsReadWhole, Reading
<1>2. QED
  BY <1>1, BringupInvInductive, PTL

(* A usable certificate is never touched again.                            *)
THEOREM PairKept == Spec => GoodPairKept
<1>1. BringupInv /\ [Next]_vars => [Usable => Usable']_vars
  <2> SUFFICES ASSUME BringupInv, [Next]_vars, Usable PROVE Usable'
    OBVIOUS
  <2>1. CASE Main
    BY <2>1 DEF Main, Stop, Reset, ReadBind, ReadPort, ReadTls, ReadFails, Override, Check, OpenKey,
                WriteKey, OpenCert, WriteCert, CertFails, TryBind, TryFails, FallBack, TakeUsr1,
                Listen, BringupInv, KeyFirst, Usable, files
  <2>2. CASE Serve \/ Release \/ Crash \/ Restart \/ UNCHANGED vars
    BY <2>2 DEF Serve, Release, Crash, Restart, Usable, vars, files
  <2>3. ASSUME NEW h \in Handlers, Handler(h) PROVE Usable'
    BY <2>3 DEF Handler, PutBind, PutPort, PutTls, PutField, PutFails, Apply, RaiseUsr1, Goes,
                Usable, files
  <2>4. QED
    BY <2>1, <2>2, <2>3 DEF Next
<1>2. QED
  BY <1>1, BringupInvInductive, PTL DEF Spec, GoodPairKept
=============================================================================
