----------------------------- MODULE SerialLink -----------------------------
(***************************************************************************)
(* The exchanges of NightWatcher's threads and tools with one SQM unit     *)
(* (src/sqm/serial_transport.cpp, tcp_transport.cpp, sqm_device.cpp,       *)
(* protocol.cpp) and the config_log rows they leave.  Scheduler workers,   *)
(* HTTP handlers and the command line tools each open the link, send a     *)
(* script of commands, read one line for each and close; what the link     *)
(* delivers is a stream of lines with nothing that ties a line to its      *)
(* command but the letter it starts with.                                  *)
(*                                                                         *)
(* A line is a record [kind, id, cal]: the kind of answer, which command   *)
(* it answers, which no code can see, and the calibration values a cx      *)
(* answer shows.  Noise stands for bytes with no newline (a boot banner, a *)
(* bad cable); a line that follows noise is garbled.  open() of a claimed  *)
(* port fails with EBUSY and its caller gives up, which changes nothing    *)
(* here.                                                                   *)
(***************************************************************************)
EXTENDS Naturals, Sequences

CONSTANTS
  Links,         \* the unit's transport: "serial", "tcp"
  Clients,       \* threads that may want the unit
  ScriptsOf,     \* what each of them may do
  Keys,          \* the calibration values requests set
  Late,          \* may the unit answer after its client gave up?
  MaxSessions,   \* bound: times the link is opened
  MaxNoise       \* bound: bursts of noise and hangups

(* zcal5 .. zcal8: light offset and temperature, dark period and           *)
(* temperature.                                                            *)
Sets == {"set5", "set6", "set7", "set8"}

ASSUME LinkAssumption ==
  /\ Links \subseteq {"serial", "tcp"} /\ Keys \subseteq Sets
  /\ Late \in BOOLEAN
  /\ MaxSessions \in Nat /\ MaxNoise \in Nat

(* rx (and ux, the same to the parsers), ix, cx; zcalAx, zcalBx, zcalDx. *)
Commands == {"r", "i", "c", "arm"} \cup Sets

-----------------------------------------------------------------------------
(* The scripts of the code: commands in order, whether a failed one is     *)
(* skipped (the self-test) or ends the session, and the config_log row     *)
(* that is inserted at the end.                                            *)

Script(cmds, row) == [cmds |-> cmds, goOn |-> FALSE, row |-> row]

(* HTTP handlers. *)
PollNow    == Script(<<"r">>, "none")
SelfTest   == [cmds |-> <<"i", "r", "c">>, goOn |-> TRUE, row |-> "none"]
ReadCal    == Script(<<"c">>, "none")
RecordCal  == Script(<<"c">>, "calibration")
Arm        == Script(<<"arm">>, "none")
Disarm     == Script(<<"arm">>, "none")
ProbeFill  == Script(<<"i">>, "none")

(* The values the request gives, in the order the handler applies them. *)
Only(k, K) == IF k \in K THEN <<k>> ELSE <<>>
Given(K)   == Only("set5", K) \o Only("set6", K) \o Only("set7", K) \o Only("set8", K)

(* Fault: cx is read before the values are set. *)
SetValuesReadFirst(K) ==
  IF K = {} THEN Script(<<>>, "none") ELSE Script(<<"c">> \o Given(K), "config_change")

(* Any of the four values, then cx; with none of them the handler opens    *)
(* the unit all the same before it answers 400.                            *)
SetValues(K) ==
  IF K = {} THEN Script(<<>>, "none") ELSE Script(Append(Given(K), "c"), "config_change")

HandlerScripts ==
  {PollNow, SelfTest, ReadCal, RecordCal, Arm, Disarm, ProbeFill} \cup {SetValues(K) : K \in SUBSET Keys}

(* nwdb poll, cal and add-sensor; sqmctl's queries; discovery over the     *)
(* network and over the serial ports, where each unit is probed once.      *)
NwdbPoll  == Script(<<"r">>, "none")
NwdbCal   == Script(<<"c">>, "calibration")
NwdbProbe == Script(<<"i">>, "none")
Queries   == {Script(<<q>>, "none") : q \in {"i", "r", "c"}}
Scan      == Script(<<"i">>, "none")
ScanUsb   == Script(<<"i">>, "none")
ToolScripts == {NwdbPoll, NwdbCal, NwdbProbe, Scan, ScanUsb} \cup Queries

(* Nothing else in the program opens a unit. *)
ASSUME ScriptsAssumption == \A c \in Clients : ScriptsOf[c] \subseteq HandlerScripts \cup ToolScripts

-----------------------------------------------------------------------------
VARIABLES
  link,      \* the sensor's transport
  excl,      \* the port's TIOCEXCL flag
  up,        \* the link as its holders have it open: adapter in, peer there
  pc,        \* each client
  script,    \* the commands it has yet to have answered, and what follows
  id,        \* the command it is waiting on
  buf,       \* buf_: lines it read past the one it returned
  line,      \* the line read_line returned
  input,     \* the kernel's input queue
  pend,      \* commands the unit has yet to answer
  cal,       \* the unit's EEPROM: which command set each value
  log,       \* the values of the newest config_log row
  sent,      \* history: commands sent so far
  mixed,     \* history: someone else's answer may come in: two clients have
             \* had the port open at once, or an answer is late
  cut,       \* history: log may not show the unit: a session that sets
             \* values was cut short, or the row was taken while mixed
  sessions, noise  \* bounds

clientVars == <<pc, script, id, buf, line>>
unitVars   == <<input, pend, cal>>
history    == <<sent, mixed, cut>>
bounds     == <<sessions, noise>>
vars == <<link, excl, up, clientVars, unitVars, log, history, bounds>>

Values  == [Sets -> Nat]
Blank   == [k \in Sets |-> 0]
Noise   == [kind |-> "noise", id |-> 0, cal |-> Blank]
Lines   == [kind : Commands \cup {"noise", "garbled"}, id : Nat, cal : Values]
Closed  == Script(<<>>, "none")
Scripts == [cmds : Seq(Commands), goOn : BOOLEAN, row : {"none", "calibration", "config_change"}]

TypeOK ==
  /\ link \in Links /\ excl \in BOOLEAN /\ up \in BOOLEAN
  /\ pc \in [Clients -> {"closed", "opened", "claimed", "send", "read", "parse", "record", "close"}]
  /\ script \in [Clients -> Scripts]
  /\ id \in [Clients -> Nat]
  /\ buf \in [Clients -> Seq(Lines)] /\ line \in [Clients -> Lines]
  /\ input \in Seq(Lines) /\ pend \in Seq(Lines)
  /\ cal \in Values /\ log \in Values
  /\ sent \in Nat /\ mixed \in BOOLEAN /\ cut \in BOOLEAN
  /\ sessions \in 0..MaxSessions /\ noise \in 0..MaxNoise

Init ==
  /\ link \in Links /\ excl = FALSE /\ up = TRUE
  /\ pc = [c \in Clients |-> "closed"] /\ script = [c \in Clients |-> Closed]
  /\ id = [c \in Clients |-> 0]
  /\ buf = [c \in Clients |-> <<>>] /\ line = [c \in Clients |-> Noise]
  /\ input = <<>> /\ pend = <<>> /\ cal = Blank /\ log = Blank
  /\ sent = 0 /\ mixed = FALSE /\ cut = FALSE /\ sessions = 0 /\ noise = 0

Holders == {c \in Clients : pc[c] # "closed"}
Go(c, p) == pc' = [pc EXCEPT ![c] = p]

(* What comes first, or next, in a session with these commands left. *)
Onward(cmds, row) ==
  IF cmds # <<>> THEN "send" ELSE IF row # "none" THEN "record" ELSE "close"

-----------------------------------------------------------------------------
(* open_device.                                                            *)

(* SerialTransport's constructor: open(). *)
Open(c) ==
  /\ link = "serial"
  /\ pc[c] = "closed" /\ ~excl /\ sessions < MaxSessions
  /\ sessions' = sessions + 1
  /\ \E s \in ScriptsOf[c] : script' = [script EXCEPT ![c] = s]
  /\ Go(c, "opened")
  /\ mixed' = (mixed \/ Holders # {})
  /\ UNCHANGED <<link, excl, up, id, buf, line, unitVars, log, sent, cut, noise>>

(* TcpTransport's constructor: the first address that takes a connection.  *)
(* The unit's Ethernet module serves one connection at a time; what it     *)
(* still owes to the last one goes to the next.                            *)
Connect(c) ==
  /\ link = "tcp"
  /\ Holders = {} /\ sessions < MaxSessions
  /\ sessions' = sessions + 1
  /\ \E s \in ScriptsOf[c] : /\ script' = [script EXCEPT ![c] = s]
                            /\ Go(c, Onward(s.cmds, s.row))
  /\ mixed' = (mixed /\ pend # <<>>)
  /\ UNCHANGED <<link, excl, up, id, buf, line, unitVars, log, sent, cut, noise>>

(* ioctl(TIOCEXCL). *)
Claim(c) ==
  /\ pc[c] = "opened"
  /\ excl' = TRUE
  /\ Go(c, "claimed")
  /\ UNCHANGED <<link, up, script, id, buf, line, unitVars, log, history, bounds>>

(* tcsetattr and tcflush(TCIOFLUSH): the input queue goes, and of what     *)
(* another holder has written the part that is not on the line yet.        *)
Flush(c) ==
  /\ pc[c] = "claimed"
  /\ input' = <<>>
  /\ \E n \in 0..Len(pend) : /\ Holders = {c} => n = Len(pend)
                             /\ pend' = SubSeq(pend, 1, n)
  /\ mixed' = (mixed /\ (Holders # {c} \/ pend # <<>>))
  /\ Go(c, Onward(script[c].cmds, script[c].row))
  /\ UNCHANGED <<link, excl, up, script, id, buf, line, cal, log, sent, cut, bounds>>

(* tcgetattr or tcsetattr fails (the adapter was pulled out). *)
ConfigureFails(c) ==
  /\ pc[c] = "claimed"
  /\ Go(c, "close")
  /\ UNCHANGED <<link, excl, up, script, id, buf, line, unitVars, log, history, bounds>>

-----------------------------------------------------------------------------
(* SqmDevice::query_raw and the parsers.                                   *)

(* Fault: a failed exchange ends without closing the link. *)
AfterFailureLeaks(c) ==
  IF script[c].goOn /\ Len(script[c].cmds) > 1 THEN "send" ELSE "leaked"

(* An exception leaves the block that asked: for a poll or a calibration   *)
(* that closes the device, the self-test goes on with its next command.    *)
AfterFailure(c) ==
  IF script[c].goOn /\ Len(script[c].cmds) > 1 THEN "send" ELSE "close"

Fails(c) ==
  /\ Go(c, AfterFailure(c))
  /\ script' = [script EXCEPT ![c].cmds = Tail(@)]
  /\ cut' = (cut \/ script[c].row = "config_change")

Send(c) ==
  /\ pc[c] = "send"
  /\ sent' = sent + 1
  /\ pend' = Append(pend, [Noise EXCEPT !.kind = Head(script[c].cmds), !.id = sent'])
  /\ id' = [id EXCEPT ![c] = sent']
  /\ Go(c, "read")
  /\ UNCHANGED <<link, excl, up, script, buf, line, input, cal, log, mixed, cut, bounds>>

(* send() or write() on a link that is gone. *)
SendFails(c) ==
  /\ pc[c] = "send" /\ ~up
  /\ Fails(c)
  /\ UNCHANGED <<link, excl, up, id, buf, line, unitVars, log, sent, mixed, bounds>>

(* read_line takes the first line out of buf_; noise before it is part of  *)
(* it.                                                                     *)
Complete(b) == \E i \in DOMAIN b : b[i] # Noise
First(b)    == IF b[1] # Noise THEN b[1] ELSE [b[2] EXCEPT !.kind = "garbled"]

(* Fault: the line returned stays in buf_. *)
RestKeeps(b) == b

Rest(b) == IF b[1] # Noise THEN Tail(b) ELSE Tail(Tail(b))

ReadLine(c) ==
  /\ pc[c] = "read" /\ Complete(buf[c])
  /\ line' = [line EXCEPT ![c] = First(buf[c])]
  /\ buf' = [buf EXCEPT ![c] = Rest(@)]
  /\ Go(c, "parse")
  /\ UNCHANGED <<link, excl, up, script, id, unitVars, log, history, bounds>>

(* Bursts of noise in a row are one. *)
NoiseLast(b) == b # <<>> /\ b[Len(b)] = Noise
Joined(b, more) ==
  IF NoiseLast(b) /\ more[1] = Noise THEN b \o Tail(more) ELSE b \o more

(* poll() says there is input; read() takes it, and the loop goes round:   *)
(* the next poll() has the whole timeout again.                            *)
ReadMore(c) ==
  /\ pc[c] = "read" /\ ~Complete(buf[c]) /\ input # <<>>
  /\ buf' = [buf EXCEPT ![c] = Joined(@, input)]
  /\ input' = <<>>
  /\ UNCHANGED <<link, excl, up, pc, script, id, line, pend, cal, log, history, bounds>>

(* poll() or recv() gives up. *)
Timeout(c) ==
  /\ pc[c] = "read" /\ ~Complete(buf[c]) /\ input = <<>> /\ up
  /\ \/ pend' = <<>> /\ UNCHANGED mixed
     \/ Late /\ UNCHANGED pend /\ mixed' = (mixed \/ pend # <<>>)
  /\ Fails(c)
  /\ UNCHANGED <<link, excl, up, id, buf, line, input, cal, log, sent, bounds>>

(* read() or recv() returns 0 or an error. *)
ReadFails(c) ==
  /\ pc[c] = "read" /\ ~Complete(buf[c]) /\ input = <<>> /\ ~up
  /\ mixed' = (mixed \/ pend # <<>>)
  /\ Fails(c)
  /\ UNCHANGED <<link, excl, up, id, buf, line, unitVars, log, sent, bounds>>

(* The lines each parser takes for an answer: parse_cal_status looks at    *)
(* the letter z only, which an echo of zcal5..8 starts with too.           *)
Accepts(cmd) == IF cmd = "arm" THEN {"arm"} \cup Sets ELSE {cmd}

Parse(c) ==
  /\ pc[c] = "parse" /\ line[c].kind \in Accepts(Head(script[c].cmds))
  /\ script' = [script EXCEPT ![c].cmds = Tail(@)]
  /\ Go(c, Onward(Tail(script[c].cmds), script[c].row))
  /\ UNCHANGED <<link, excl, up, id, buf, line, unitVars, log, history, bounds>>

ParseFails(c) ==
  /\ pc[c] = "parse" /\ line[c].kind \notin Accepts(Head(script[c].cmds))
  /\ Fails(c)
  /\ UNCHANGED <<link, excl, up, id, buf, line, unitVars, log, sent, mixed, bounds>>

(* insert_calibration stores the cx answer just parsed. *)
Row(c) == line[c].cal

Record(c) ==
  /\ pc[c] = "record"
  /\ log' = Row(c)
  /\ cut' = mixed
  /\ Go(c, "close")
  /\ UNCHANGED <<link, excl, up, script, id, buf, line, unitVars, sent, mixed, bounds>>

(* The insert throws: the unit was changed and config_log does not say so. *)
RecordFails(c) ==
  /\ pc[c] = "record"
  /\ Go(c, "close")
  /\ cut' = (cut \/ script[c].row = "config_change")
  /\ UNCHANGED <<link, excl, up, script, id, buf, line, unitVars, log, sent, mixed, bounds>>

(* Fault: the descriptor is never closed. *)
CloseLeaks(c) ==
  /\ pc[c] = "close"
  /\ Go(c, "closed")
  /\ buf' = [buf EXCEPT ![c] = <<>>] /\ script' = [script EXCEPT ![c] = Closed]
  /\ line' = [line EXCEPT ![c] = Noise] /\ id' = [id EXCEPT ![c] = 0]
  /\ up' = (up \/ Holders = {c})
  /\ input' = IF Holders = {c} THEN <<>> ELSE input
  /\ UNCHANGED <<link, excl, pend, cal, log, history, bounds>>

(* ~SerialTransport, ~TcpTransport.  The last close of a tty drops its     *)
(* flag and its queues; the next open finds a link that works.             *)
Close(c) ==
  /\ pc[c] = "close"
  /\ Go(c, "closed")
  /\ buf' = [buf EXCEPT ![c] = <<>>] /\ script' = [script EXCEPT ![c] = Closed]
  /\ line' = [line EXCEPT ![c] = Noise] /\ id' = [id EXCEPT ![c] = 0]
  /\ excl' = (excl /\ Holders # {c})
  /\ up' = (up \/ Holders = {c})
  /\ input' = IF Holders = {c} THEN <<>> ELSE input
  /\ UNCHANGED <<link, pend, cal, log, history, bounds>>

Client(c) ==
  \/ Claim(c) \/ Flush(c) \/ ConfigureFails(c)
  \/ Send(c) \/ SendFails(c) \/ ReadLine(c) \/ ReadMore(c) \/ Timeout(c) \/ ReadFails(c)
  \/ Parse(c) \/ ParseFails(c) \/ Record(c) \/ RecordFails(c)
  \/ Close(c)

-----------------------------------------------------------------------------
(* The unit.  It carries out commands in turn and answers them; what comes *)
(* in while nobody has the link open, or while it is down, is lost.        *)

Answer ==
  /\ pend # <<>>
  /\ LET p == Head(pend)
     IN  /\ cal' = IF p.kind \in Sets THEN [cal EXCEPT ![p.kind] = p.id] ELSE cal
         /\ input' = IF Holders = {} \/ ~up THEN input
                     ELSE Append(input, IF p.kind = "c" THEN [p EXCEPT !.cal = cal] ELSE p)
  /\ pend' = Tail(pend)
  /\ UNCHANGED <<link, excl, up, clientVars, log, history, bounds>>

Babble ==
  /\ Holders # {} /\ up /\ ~NoiseLast(input)
  /\ noise < MaxNoise /\ noise' = noise + 1
  /\ input' = Append(input, Noise)
  /\ UNCHANGED <<link, excl, up, clientVars, pend, cal, log, history, sessions>>

(* The adapter is pulled out, the peer closes the connection. *)
Hangup ==
  /\ Holders # {} /\ up
  /\ noise < MaxNoise /\ noise' = noise + 1
  /\ up' = FALSE
  /\ UNCHANGED <<link, excl, clientVars, unitVars, log, history, sessions>>

Next ==
  \/ \E c \in Clients : Open(c) \/ Connect(c) \/ Client(c)
  \/ Answer \/ Babble \/ Hangup

(* A thread inside an exchange goes on with it. *)
Spec == Init /\ [][Next]_vars /\ \A c \in Clients : WF_vars(Client(c))

-----------------------------------------------------------------------------
(* Properties.                                                             *)

(* An answer a parser accepts is the answer to the command just sent: no   *)
(* timeout, noise or aborted session puts the two out of step, as long as  *)
(* no second thread got past open() before the port was claimed and the    *)
(* unit answers within the timeout or not at all; a session that finds     *)
(* itself alone with nothing owed is in step again.                        *)
OwnAnswer ==
  \A c \in Clients :
    ~mixed /\ pc[c] = "parse" /\ line[c].kind \in Accepts(Head(script[c].cmds)) => line[c].id = id[c]

(* config_log is the unit's audit trail: when nobody is talking to the     *)
(* unit its newest row shows the values the unit holds, unless a session   *)
(* that sets values was cut short after its first command or a row was     *)
(* taken while answers could be mixed up; the next recorded snapshot       *)
(* brings the two together again.                                          *)
AuditTrail == Holders = {} /\ ~cut => log = cal

(* Whoever claimed the port lets go of it: every path out of an exchange   *)
(* closes it, and the other threads' EBUSY is not for ever.                *)
PortComesFree == excl ~> ~excl
=============================================================================
