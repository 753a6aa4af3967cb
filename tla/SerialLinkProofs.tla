-------------------------- MODULE SerialLinkProofs --------------------------
(***************************************************************************)
(* Proofs about SerialLink: its types, that an answer a parser accepts is  *)
(* the answer to the command just sent (OwnAnswer), and that config_log    *)
(* shows the values the unit holds (AuditTrail), for every set of clients  *)
(* and scripts and any number of sessions and bursts of noise.             *)
(*                                                                         *)
(* The invariant has three parts.  Stage says what a client's stage tells  *)
(* of its script and its buffer.  InStep says where the one answer that is *)
(* owed may be while answers cannot be mixed up: with the unit, in the     *)
(* kernel's queue or in buf_, with at most one burst of noise on either    *)
(* side of it, and nowhere else.  Trail says that the log differs from the *)
(* unit only while a session that sets values is under way.                *)
(***************************************************************************)
EXTENDS SerialLink, SequenceTheorems, TLAPS

(* A list of some length is not the empty one.                             *)
LEMMA HasElements ==
  ASSUME NEW s, Len(s) > 0
  PROVE  s # <<>>
<1>1. Len(<<>>) = 0
  BY EmptySeq
<1>2. ~(0 > 0)
  OBVIOUS
<1>3. ASSUME s = <<>> PROVE FALSE
  <2>1. Len(s) = 0
    BY <1>1, <1>3, Zenon
  <2> QED  BY <1>2, <2>1
<1> QED  BY <1>3

-----------------------------------------------------------------------------
(* Scripts.                                                                *)

(* A script that inserts a row ends with cx, and only a set request, which *)
(* logs a change, has commands that change the unit.                       *)
Honest(s) ==
  /\ s.row # "none" /\ s.cmds # <<>> => s.cmds[Len(s.cmds)] = "c"
  /\ \A i \in DOMAIN s.cmds : s.cmds[i] \in Sets => s.row = "config_change"

(* The values a set request gives are a list of set commands.              *)
LEMMA GivenIsList ==
  ASSUME NEW K
  PROVE  Given(K) \in Seq(Sets)
<1>1. \A k \in Sets : Only(k, K) \in Seq(Sets)
  BY DEF Only
<1>2. "set5" \in Sets /\ "set6" \in Sets /\ "set7" \in Sets /\ "set8" \in Sets
  BY DEF Sets
<1>3. \A s, t \in Seq(Sets) : s \o t \in Seq(Sets)
  OBVIOUS
<1> QED  BY <1>1, <1>2, <1>3 DEF Given

(* Every script of the code is well formed, honest, and has a command to   *)
(* send when it has a row to insert.                                       *)
LEMMA ScriptFacts ==
  ASSUME NEW c \in Clients, NEW s \in ScriptsOf[c]
  PROVE  s \in Scripts /\ Honest(s) /\ (s.row # "none" => s.cmds # <<>>)
<1> DEFINE Good(t) == t \in Scripts /\ Honest(t) /\ (t.row # "none" => t.cmds # <<>>)
<1>1. \A q \in {"r", "i", "c", "arm"} : Good(Script(<<q>>, "none"))
  <2> SUFFICES ASSUME NEW q \in {"r", "i", "c", "arm"}
               PROVE  Good(Script(<<q>>, "none"))
    OBVIOUS
  <2>1. <<q>> \in Seq(Commands) /\ DOMAIN <<q>> = {1} /\ <<q>>[1] = q
    BY DEF Commands
  <2>2. q \notin Sets
    BY DEF Sets
  <2> QED  BY <2>1, <2>2 DEF Script, Scripts, Honest
<1>2. Good(Script(<<"c">>, "calibration"))
  <2>1. <<"c">> \in Seq(Commands) /\ DOMAIN <<"c">> = {1} /\ <<"c">>[1] = "c" /\ Len(<<"c">>) = 1 /\ <<"c">> # <<>>
    BY DEF Commands
  <2>2. "c" \notin Sets
    BY DEF Sets
  <2> QED  BY <2>1, <2>2 DEF Script, Scripts, Honest
<1>3. Good(SelfTest)
  <2>1. <<"i", "r", "c">> \in Seq(Commands) /\ DOMAIN <<"i", "r", "c">> = 1..3
    BY DEF Commands
  <2>2. \A i \in 1..3 : <<"i", "r", "c">>[i] \notin Sets
    BY DEF Sets
  <2> QED  BY <2>1, <2>2 DEF SelfTest, Scripts, Honest
<1>4. \A K : Good(SetValues(K))
  <2> TAKE K
  <2>1. CASE K = {}
    <3>1. <<>> \in Seq(Commands) /\ DOMAIN <<>> = {}
      OBVIOUS
    <3> QED  BY <2>1, <3>1 DEF SetValues, Script, Scripts, Honest
  <2>2. CASE K # {}
    <3> DEFINE g == Append(Given(K), "c")
    <3>1. SetValues(K) = [cmds |-> g, goOn |-> FALSE, row |-> "config_change"]
      BY <2>2 DEF SetValues, Script
    <3>2. Given(K) \in Seq(Commands)
      BY GivenIsList DEF Commands
    <3>3. "c" \in Commands
      BY DEF Commands
    <3>4. g \in Seq(Commands) /\ g # <<>> /\ g[Len(g)] = "c"
      BY <3>2, <3>3
    <3> HIDE DEF g
    <3> QED  BY <3>1, <3>4 DEF Scripts, Honest
  <2> QED  BY <2>1, <2>2
<1>5. s \in HandlerScripts \cup ToolScripts
  BY ScriptsAssumption
<1> HIDE DEF Good
<1>6. \A t \in HandlerScripts : Good(t)
  BY <1>1, <1>2, <1>3, <1>4 DEF HandlerScripts, PollNow, ReadCal, RecordCal, Arm, Disarm, ProbeFill
<1>7. \A t \in ToolScripts : Good(t)
  BY <1>1, <1>2 DEF ToolScripts, NwdbPoll, NwdbCal, NwdbProbe, Scan, ScanUsb, Queries
<1> QED  BY <1>5, <1>6, <1>7 DEF Good

(* What is left of a script after its first command is a script still.     *)
LEMMA ScriptTail ==
  ASSUME NEW s \in Scripts, s.cmds # <<>>
  PROVE  /\ Head(s.cmds) \in Commands
         /\ [s EXCEPT !.cmds = Tail(@)] \in Scripts
         /\ Honest(s) => Honest([s EXCEPT !.cmds = Tail(@)])
         /\ Len(s.cmds) > 1 => Tail(s.cmds) # <<>>
<1>1. s.cmds \in Seq(Commands)
  BY DEF Scripts
<1>2. /\ Head(s.cmds) \in Commands /\ Tail(s.cmds) \in Seq(Commands)
      /\ Len(s.cmds) \in Nat \ {0} /\ Len(Tail(s.cmds)) = Len(s.cmds) - 1
      /\ \A i \in DOMAIN Tail(s.cmds) : i + 1 \in DOMAIN s.cmds /\ Tail(s.cmds)[i] = s.cmds[i + 1]
      /\ Tail(s.cmds) # <<>> => Len(Tail(s.cmds)) \in DOMAIN Tail(s.cmds)
  BY <1>1
<1> DEFINE t == [s EXCEPT !.cmds = Tail(@)]
<1>3. t \in Scripts /\ t.cmds = Tail(s.cmds) /\ t.row = s.row
  BY <1>2 DEF Scripts
<1>4. Len(s.cmds) > 1 => Tail(s.cmds) # <<>>
  <2>1. Len(s.cmds) > 1 => Len(Tail(s.cmds)) > 0
    BY <1>2
  <2> QED  BY <2>1, HasElements
<1> HIDE DEF t
<1>5. ASSUME Honest(s) PROVE Honest(t)
  <2>1. ASSUME t.row # "none", t.cmds # <<>> PROVE t.cmds[Len(t.cmds)] = "c"
    <3>1. Len(t.cmds) \in DOMAIN t.cmds /\ t.cmds[Len(t.cmds)] = s.cmds[Len(t.cmds) + 1]
      BY <1>2, <1>3, <2>1
    <3>2. Len(t.cmds) + 1 = Len(s.cmds)
      BY <1>2, <1>3
    <3> QED  BY <1>3, <1>5, <2>1, <3>1, <3>2 DEF Honest
  <2>2. ASSUME NEW i \in DOMAIN t.cmds, t.cmds[i] \in Sets PROVE t.row = "config_change"
    BY <1>2, <1>3, <1>5, <2>2 DEF Honest
  <2> QED  BY <2>1, <2>2 DEF Honest
<1> QED  BY <1>2, <1>3, <1>4, <1>5 DEF t

-----------------------------------------------------------------------------
(* Lines.                                                                  *)

LEMMA NoiseIsLine == Noise \in Lines /\ Noise.kind = "noise" /\ Blank \in Values
<1>1. Blank \in Values
  BY DEF Blank, Values
<1> QED  BY <1>1 DEF Noise, Lines

(* What read_line returns and leaves, and what it takes from the kernel,   *)
(* are lines.                                                              *)
LEMMA LineTypes ==
  ASSUME NEW b \in Seq(Lines)
  PROVE  /\ Complete(b) => First(b) \in Lines /\ Rest(b) \in Seq(Lines)
         /\ \A more \in Seq(Lines) : more # <<>> => Joined(b, more) \in Seq(Lines)
<1>1. ASSUME Complete(b) PROVE First(b) \in Lines /\ Rest(b) \in Seq(Lines)
  <2>1. PICK i \in DOMAIN b : b[i] # Noise
    BY <1>1 DEF Complete
  <2>2. i \in 1..Len(b) /\ Len(b) \in Nat /\ b[1] \in Lines
    BY <2>1
  <2>3. CASE b[1] # Noise
    BY <2>2, <2>3 DEF First, Rest
  <2>4. CASE b[1] = Noise
    <3>1. Len(b) >= 2 /\ b[2] \in Lines
      BY <2>1, <2>2, <2>4
    <3>2. [b[2] EXCEPT !.kind = "garbled"] \in Lines
      BY <3>1 DEF Lines
    <3>3. Tail(b) \in Seq(Lines) /\ Tail(b) # <<>>
      <4>1. b # <<>>
        BY <3>1
      <4>2. Tail(b) \in Seq(Lines) /\ Len(Tail(b)) = Len(b) - 1
        BY <4>1
      <4>3. Len(Tail(b)) > 0
        BY <2>2, <3>1, <4>2
      <4> QED  BY <4>2, <4>3, HasElements
    <3>4. Tail(Tail(b)) \in Seq(Lines)
      BY <3>3
    <3> QED  BY <2>4, <3>2, <3>4 DEF First, Rest
  <2> QED  BY <2>3, <2>4
<1>2. ASSUME NEW more \in Seq(Lines), more # <<>> PROVE Joined(b, more) \in Seq(Lines)
  BY <1>2 DEF Joined
<1> QED  BY <1>1, <1>2

(* A command on its way to the unit, and the unit's answer to it.          *)
LEMMA AnswerTypes ==
  /\ \A k \in Commands, n \in Nat : /\ [Noise EXCEPT !.kind = k, !.id = n] \in Lines
                                    /\ [Noise EXCEPT !.kind = k, !.id = n].kind = k
                                    /\ [Noise EXCEPT !.kind = k, !.id = n].id = n
  /\ \A p \in Lines, v \in Values : /\ [p EXCEPT !.cal = v] \in Lines
                                    /\ [p EXCEPT !.cal = v].kind = p.kind
                                    /\ [p EXCEPT !.cal = v].id = p.id
                                    /\ [p EXCEPT !.cal = v].cal = v
  /\ \A p \in Lines, v \in Values : [v EXCEPT ![p.kind] = p.id] \in Values
<1>1. Blank \in Values
  BY NoiseIsLine
<1>2. \A k \in Commands, n \in Nat : /\ [Noise EXCEPT !.kind = k, !.id = n] \in Lines
                                    /\ [Noise EXCEPT !.kind = k, !.id = n].kind = k
                                    /\ [Noise EXCEPT !.kind = k, !.id = n].id = n
  BY <1>1 DEF Noise, Lines
<1>3. \A p \in Lines, v \in Values : /\ [p EXCEPT !.cal = v] \in Lines
                                    /\ [p EXCEPT !.cal = v].kind = p.kind
                                    /\ [p EXCEPT !.cal = v].id = p.id
                                    /\ [p EXCEPT !.cal = v].cal = v
  BY DEF Lines
<1>4. \A p \in Lines, v \in Values : [v EXCEPT ![p.kind] = p.id] \in Values
  BY DEF Lines, Values
<1> QED  BY <1>2, <1>3, <1>4

-----------------------------------------------------------------------------
(* Types and stages.                                                       *)

(* What the stage of a client tells of its script and its buffer.          *)
Ready(c) ==
  /\ Honest(script[c])
  /\ pc[c] \in {"send", "read", "parse"} => script[c].cmds # <<>>
  /\ pc[c] \in {"opened", "claimed"} /\ script[c].row # "none" => script[c].cmds # <<>>
  /\ pc[c] \in {"closed", "opened", "claimed"} => buf[c] = <<>>

(* A link nobody has open delivers nothing.                                *)
Idle == (\A c \in Clients : pc[c] = "closed") => input = <<>>

(* What the unit has yet to answer are commands.                           *)
Owed == \A i \in DOMAIN pend : pend[i].kind \in Commands

Stage == (\A c \in Clients : Ready(c)) /\ Idle /\ Owed

Inv == TypeOK /\ Stage

Stages == {"closed", "opened", "claimed", "send", "read", "parse", "record", "close"}

LEMMA StartsRight == Init => Inv
<1> SUFFICES ASSUME Init PROVE Inv
  OBVIOUS
<1>1. <<>> \in Seq(Commands) /\ <<>> \in Seq(Lines) /\ DOMAIN <<>> = {}
  OBVIOUS
<1>2. Closed \in Scripts /\ Honest(Closed)
  BY <1>1 DEF Closed, Script, Scripts, Honest
<1>3. TypeOK
  <2>1. 0 \in 0..MaxSessions /\ 0 \in 0..MaxNoise /\ 0 \in Nat
    BY LinkAssumption
  <2>2. buf \in [Clients -> Seq(Lines)] /\ input \in Seq(Lines) /\ pend \in Seq(Lines)
    BY <1>1 DEF Init
  <2>3. line \in [Clients -> Lines] /\ cal \in Values /\ log \in Values
    BY NoiseIsLine DEF Init
  <2>4. script \in [Clients -> Scripts]
    BY <1>2 DEF Init
  <2> QED  BY <2>1, <2>2, <2>3, <2>4 DEF Init, TypeOK
<1>4. \A c \in Clients : Ready(c)
  BY <1>2 DEF Init, Ready
<1>5. Idle /\ Owed
  BY <1>1 DEF Init, Idle, Owed
<1> QED  BY <1>3, <1>4, <1>5 DEF Inv, Stage

(* Where a session goes first, or next.                                    *)
LEMMA OnwardStages ==
  /\ \A cmds, row : Onward(cmds, row) \in {"send", "record", "close"}
  /\ \A cmds, row : Onward(cmds, row) = "send" => cmds # <<>>
  /\ \A cmds, row : Onward(cmds, row) = "record" => cmds = <<>> /\ row # "none"
  /\ \A c : AfterFailure(c) \in {"send", "close"}
  /\ \A c : AfterFailure(c) = "send" => script[c].goOn /\ Len(script[c].cmds) > 1
BY DEF Onward, AfterFailure

(* The queue a claimed port keeps is the front of the one it had.          *)
LEMMA Front ==
  ASSUME NEW S, NEW s \in Seq(S), NEW n \in 0..Len(s)
  PROVE  /\ SubSeq(s, 1, n) \in Seq(S)
         /\ \A i \in DOMAIN SubSeq(s, 1, n) : i \in DOMAIN s /\ SubSeq(s, 1, n)[i] = s[i]
         /\ s = <<>> => SubSeq(s, 1, n) = <<>>
<1>1. Len(s) \in Nat /\ n \in Nat /\ n <= Len(s) /\ DOMAIN s = 1..Len(s)
  OBVIOUS
<1>2. \A i \in 1..n : s[i] \in S
  BY <1>1
<1>3. /\ SubSeq(s, 1, n) \in Seq(S)
      /\ Len(SubSeq(s, 1, n)) = IF 1 <= n THEN n - 1 + 1 ELSE 0
      /\ \A i \in 1..(n - 1 + 1) : SubSeq(s, 1, n)[i] = s[1 + i - 1]
  BY <1>1, <1>2, SubSeqProperties
<1>4. Len(SubSeq(s, 1, n)) = n
  BY <1>1, <1>3
<1>5. DOMAIN SubSeq(s, 1, n) = 1..n
  BY <1>3, <1>4
<1>6. \A i \in 1..n : i \in DOMAIN s /\ SubSeq(s, 1, n)[i] = s[i]
  BY <1>1, <1>3
<1>7. ASSUME s = <<>> PROVE SubSeq(s, 1, n) = <<>>
  <2>1. Len(s) = 0
    BY <1>7, EmptySeq, Zenon
  <2>2. Len(SubSeq(s, 1, n)) = 0
    BY <1>1, <1>4, <2>1
  <2>3. SubSeq(s, 1, n) # <<>> => Len(SubSeq(s, 1, n)) \in Nat \ {0}
    BY <1>3, EmptySeq, Zenon
  <2> QED  BY <2>2, <2>3
<1> QED  BY <1>3, <1>5, <1>6, <1>7

(* A failed exchange leaves the rest of the script.                        *)
LEMMA AfterFails ==
  ASSUME Inv, NEW c \in Clients, pc[c] \in {"send", "read", "parse"}, Fails(c)
  PROVE  /\ pc' \in [Clients -> Stages] /\ pc'[c] \in {"send", "close"}
         /\ script' \in [Clients -> Scripts] /\ cut' \in BOOLEAN
         /\ Honest(script'[c])
         /\ pc'[c] = "send" => script'[c].cmds # <<>>
         /\ script'[c].row = script[c].row
         /\ \A d \in Clients \ {c} : pc'[d] = pc[d] /\ script'[d] = script[d]
<1>1. script \in [Clients -> Scripts] /\ pc \in [Clients -> Stages] /\ cut \in BOOLEAN
  BY DEF Inv, TypeOK, Stages
<1>2. script[c] \in Scripts /\ script[c].cmds # <<>> /\ Honest(script[c])
  BY <1>1 DEF Inv, Stage, Ready
<1> DEFINE t == [script[c] EXCEPT !.cmds = Tail(@)]
<1>3. t \in Scripts /\ Honest(t) /\ (Len(script[c].cmds) > 1 => t.cmds # <<>>) /\ t.row = script[c].row
  <2>1. t.cmds = Tail(script[c].cmds) /\ t.row = script[c].row
    BY <1>2 DEF Scripts
  <2> QED  BY <1>2, <2>1, ScriptTail
<1>4. script' = [script EXCEPT ![c] = t]
  BY DEF Fails
<1>5. pc' = [pc EXCEPT ![c] = AfterFailure(c)] /\ cut' = (cut \/ script[c].row = "config_change")
  BY DEF Fails, Go
<1>6. AfterFailure(c) \in {"send", "close"} /\ (AfterFailure(c) = "send" => Len(script[c].cmds) > 1)
  BY OnwardStages
<1> HIDE DEF t
<1>7. AfterFailure(c) \in Stages
  BY <1>6 DEF Stages
<1>8. script'[c] = t /\ pc'[c] = AfterFailure(c)
  BY <1>1, <1>4, <1>5
<1> QED  BY <1>1, <1>3, <1>4, <1>5, <1>6, <1>7, <1>8

LEMMA TypeStep ==
  ASSUME Inv, Next
  PROVE  TypeOK'
<1> DEFINE Steps == [Clients -> Stages]
<1>1. /\ link \in Links /\ excl \in BOOLEAN /\ up \in BOOLEAN /\ pc \in Steps
      /\ script \in [Clients -> Scripts] /\ id \in [Clients -> Nat]
      /\ buf \in [Clients -> Seq(Lines)] /\ line \in [Clients -> Lines]
      /\ input \in Seq(Lines) /\ pend \in Seq(Lines) /\ cal \in Values /\ log \in Values
      /\ sent \in Nat /\ mixed \in BOOLEAN /\ cut \in BOOLEAN
      /\ sessions \in 0..MaxSessions /\ noise \in 0..MaxNoise
  BY DEF Inv, TypeOK, Stages
<1> DEFINE Typed ==
      /\ link \in Links /\ excl \in BOOLEAN /\ up \in BOOLEAN /\ pc \in Steps
      /\ script \in [Clients -> Scripts] /\ id \in [Clients -> Nat]
      /\ buf \in [Clients -> Seq(Lines)] /\ line \in [Clients -> Lines]
      /\ input \in Seq(Lines) /\ pend \in Seq(Lines) /\ cal \in Values /\ log \in Values
      /\ sent \in Nat /\ mixed \in BOOLEAN /\ cut \in BOOLEAN
      /\ sessions \in 0..MaxSessions /\ noise \in 0..MaxNoise
<1> SUFFICES Typed'
  BY DEF TypeOK, Stages
<1>2. \A c \in Clients, p \in Stages : [pc EXCEPT ![c] = p] \in Steps
  BY <1>1
<1>3. <<>> \in Seq(Lines) /\ Noise \in Lines /\ Closed \in Scripts
  BY NoiseIsLine DEF Closed, Script, Scripts
<1>4. sessions < MaxSessions => sessions + 1 \in 0..MaxSessions
  BY <1>1, LinkAssumption
<1>5. noise < MaxNoise => noise + 1 \in 0..MaxNoise
  BY <1>1, LinkAssumption
<1>6. {"closed", "opened", "claimed", "send", "read", "parse", "record", "close"} = Stages
  BY DEF Stages
<1> HIDE DEF Steps
<1>7. ASSUME NEW c \in Clients, NEW s \in Scripts PROVE [script EXCEPT ![c] = s] \in [Clients -> Scripts]
  BY <1>1
<1>8. \A cmds, row : Onward(cmds, row) \in Stages
  BY OnwardStages DEF Stages
<1>10. ASSUME NEW c \in Clients, Open(c) PROVE Typed'
  <2>1. PICK s \in ScriptsOf[c] : script' = [script EXCEPT ![c] = s]
    BY <1>10 DEF Open
  <2>2. script' \in [Clients -> Scripts]
    BY <2>1, <1>7, ScriptFacts
  <2>3. pc' \in Steps
    BY <1>2, <1>6, <1>10 DEF Open, Go
  <2>4. sessions' \in 0..MaxSessions /\ mixed' \in BOOLEAN
    BY <1>1, <1>4, <1>10 DEF Open
  <2> QED  BY <1>1, <1>10, <2>2, <2>3, <2>4 DEF Open, unitVars
<1>11. ASSUME NEW c \in Clients, Connect(c) PROVE Typed'
  <2>1. PICK s \in ScriptsOf[c] : script' = [script EXCEPT ![c] = s] /\ Go(c, Onward(s.cmds, s.row))
    BY <1>11 DEF Connect
  <2>2. script' \in [Clients -> Scripts]
    BY <2>1, <1>7, ScriptFacts
  <2>3. pc' \in Steps
    BY <1>2, <1>8, <2>1 DEF Go
  <2>4. sessions' \in 0..MaxSessions /\ mixed' \in BOOLEAN
    BY <1>1, <1>4, <1>11 DEF Connect
  <2> QED  BY <1>1, <1>11, <2>2, <2>3, <2>4 DEF Connect, unitVars
<1>12. ASSUME NEW c \in Clients, Claim(c) PROVE Typed'
  <2>1. pc' \in Steps
    BY <1>2, <1>6, <1>12 DEF Claim, Go
  <2> QED  BY <1>1, <1>12, <2>1 DEF Claim, unitVars, history, bounds
<1>13. ASSUME NEW c \in Clients, Flush(c) PROVE Typed'
  <2>1. PICK n \in 0..Len(pend) : pend' = SubSeq(pend, 1, n)
    BY <1>13 DEF Flush
  <2>2. pend' \in Seq(Lines)
    BY <1>1, <2>1, Front
  <2>3. pc' \in Steps
    BY <1>2, <1>8, <1>13 DEF Flush, Go
  <2>4. mixed' \in BOOLEAN /\ input' \in Seq(Lines)
    BY <1>1, <1>3, <1>13 DEF Flush
  <2> QED  BY <1>1, <1>13, <2>2, <2>3, <2>4 DEF Flush, bounds
<1>14. ASSUME NEW c \in Clients, ConfigureFails(c) PROVE Typed'
  <2>1. pc' \in Steps
    BY <1>2, <1>6, <1>14 DEF ConfigureFails, Go
  <2> QED  BY <1>1, <1>14, <2>1 DEF ConfigureFails, unitVars, history, bounds
<1>15. ASSUME NEW c \in Clients, pc[c] \in {"send", "read", "parse"}, Fails(c)
       PROVE  pc' \in Steps /\ script' \in [Clients -> Scripts] /\ cut' \in BOOLEAN
  BY <1>15, AfterFails DEF Steps
<1>16. ASSUME NEW c \in Clients, Send(c) PROVE Typed'
  <2>1. script[c] \in Scripts /\ script[c].cmds # <<>>
    BY <1>1, <1>16 DEF Send, Inv, Stage, Ready
  <2>2. Head(script[c].cmds) \in Commands
    BY <2>1, ScriptTail
  <2>3. sent' \in Nat
    BY <1>1, <1>16 DEF Send
  <2>4. pend' \in Seq(Lines)
    <3>1. [Noise EXCEPT !.kind = Head(script[c].cmds), !.id = sent'] \in Lines
      BY <2>2, <2>3, AnswerTypes
    <3> QED  BY <1>1, <1>16, <3>1 DEF Send
  <2>5. id' \in [Clients -> Nat]
    BY <1>1, <2>3, <1>16 DEF Send
  <2>6. pc' \in Steps
    BY <1>2, <1>6, <1>16 DEF Send, Go
  <2> QED  BY <1>1, <1>16, <2>3, <2>4, <2>5, <2>6 DEF Send, bounds
<1>17. ASSUME NEW c \in Clients, SendFails(c) PROVE Typed'
  <2>1. pc' \in Steps /\ script' \in [Clients -> Scripts] /\ cut' \in BOOLEAN
    BY <1>15, <1>17 DEF SendFails
  <2> QED  BY <1>1, <1>17, <2>1 DEF SendFails, unitVars, bounds
<1>18. ASSUME NEW c \in Clients, ReadLine(c) PROVE Typed'
  <2>1. First(buf[c]) \in Lines /\ Rest(buf[c]) \in Seq(Lines)
    <3>1. buf[c] \in Seq(Lines) /\ Complete(buf[c])
      BY <1>1, <1>18 DEF ReadLine
    <3> QED  BY <3>1, LineTypes
  <2>2. line' \in [Clients -> Lines] /\ buf' \in [Clients -> Seq(Lines)]
    BY <1>1, <1>18, <2>1 DEF ReadLine
  <2>3. pc' \in Steps
    BY <1>2, <1>6, <1>18 DEF ReadLine, Go
  <2> QED  BY <1>1, <1>18, <2>2, <2>3 DEF ReadLine, unitVars, history, bounds
<1>19. ASSUME NEW c \in Clients, ReadMore(c) PROVE Typed'
  <2>1. Joined(buf[c], input) \in Seq(Lines)
    <3>1. buf[c] \in Seq(Lines) /\ input # <<>>
      BY <1>1, <1>19 DEF ReadMore
    <3> QED  BY <1>1, <3>1, LineTypes
  <2>2. buf' \in [Clients -> Seq(Lines)] /\ input' \in Seq(Lines)
    BY <1>1, <1>3, <1>19, <2>1 DEF ReadMore
  <2> QED  BY <1>1, <1>19, <2>2 DEF ReadMore, history, bounds
<1>20. ASSUME NEW c \in Clients, Timeout(c) PROVE Typed'
  <2>1. pc' \in Steps /\ script' \in [Clients -> Scripts] /\ cut' \in BOOLEAN
    BY <1>15, <1>20 DEF Timeout
  <2>2. pend' \in Seq(Lines) /\ mixed' \in BOOLEAN
    BY <1>1, <1>3, <1>20 DEF Timeout
  <2> QED  BY <1>1, <1>20, <2>1, <2>2 DEF Timeout, bounds
<1>21. ASSUME NEW c \in Clients, ReadFails(c) PROVE Typed'
  <2>1. pc' \in Steps /\ script' \in [Clients -> Scripts] /\ cut' \in BOOLEAN
    BY <1>15, <1>21 DEF ReadFails
  <2>2. mixed' \in BOOLEAN
    BY <1>1, <1>21 DEF ReadFails
  <2> QED  BY <1>1, <1>21, <2>1, <2>2 DEF ReadFails, unitVars, bounds
<1>22. ASSUME NEW c \in Clients, Parse(c) PROVE Typed'
  <2>1. script[c] \in Scripts /\ script[c].cmds # <<>>
    BY <1>1, <1>22 DEF Parse, Inv, Stage, Ready
  <2>2. [script[c] EXCEPT !.cmds = Tail(@)] \in Scripts
    BY <2>1, ScriptTail
  <2>3. script' \in [Clients -> Scripts]
    BY <1>7, <1>22, <2>2 DEF Parse
  <2>4. pc' \in Steps
    BY <1>2, <1>8, <1>22 DEF Parse, Go
  <2> QED  BY <1>1, <1>22, <2>3, <2>4 DEF Parse, unitVars, history, bounds
<1>23. ASSUME NEW c \in Clients, ParseFails(c) PROVE Typed'
  <2>1. pc' \in Steps /\ script' \in [Clients -> Scripts] /\ cut' \in BOOLEAN
    BY <1>15, <1>23 DEF ParseFails
  <2> QED  BY <1>1, <1>23, <2>1 DEF ParseFails, unitVars, bounds
<1>24. ASSUME NEW c \in Clients, Record(c) PROVE Typed'
  <2>1. log' \in Values
    <3>1. line[c] \in Lines
      BY <1>1
    <3> QED  BY <1>24, <3>1 DEF Record, Row, Lines
  <2>2. pc' \in Steps /\ cut' \in BOOLEAN
    BY <1>1, <1>2, <1>6, <1>24 DEF Record, Go
  <2> QED  BY <1>1, <1>24, <2>1, <2>2 DEF Record, unitVars, bounds
<1>25. ASSUME NEW c \in Clients, RecordFails(c) PROVE Typed'
  <2>1. pc' \in Steps /\ cut' \in BOOLEAN
    BY <1>1, <1>2, <1>6, <1>25 DEF RecordFails, Go
  <2> QED  BY <1>1, <1>25, <2>1 DEF RecordFails, unitVars, bounds
<1>26. ASSUME NEW c \in Clients, Close(c) PROVE Typed'
  <2>1. pc' \in Steps
    BY <1>2, <1>6, <1>26 DEF Close, Go
  <2>2. script' \in [Clients -> Scripts] /\ line' \in [Clients -> Lines]
    BY <1>1, <1>3, <1>26 DEF Close
  <2>3. buf' \in [Clients -> Seq(Lines)] /\ id' \in [Clients -> Nat] /\ input' \in Seq(Lines)
    BY <1>1, <1>3, <1>26 DEF Close
  <2>4. excl' \in BOOLEAN /\ up' \in BOOLEAN
    BY <1>1, <1>26 DEF Close
  <2> QED  BY <1>1, <1>26, <2>1, <2>2, <2>3, <2>4 DEF Close, history, bounds
<1>27. ASSUME Answer PROVE Typed'
  <2> DEFINE p == Head(pend)
  <2>1. p \in Lines /\ pend' \in Seq(Lines)
    BY <1>1, <1>27 DEF Answer
  <2>2. cal' \in Values
    <3>1. [cal EXCEPT ![p.kind] = p.id] \in Values
      BY <1>1, <2>1, AnswerTypes
    <3> QED  BY <1>1, <1>27, <3>1 DEF Answer
  <2>3. input' \in Seq(Lines)
    <3>1. [p EXCEPT !.cal = cal] \in Lines
      BY <1>1, <2>1, AnswerTypes
    <3> QED  BY <1>1, <1>27, <2>1, <3>1 DEF Answer
  <2> QED  BY <1>1, <1>27, <2>1, <2>2, <2>3 DEF Answer, clientVars, history, bounds
<1>28. ASSUME Babble PROVE Typed'
  <2>1. input' \in Seq(Lines) /\ noise' \in 0..MaxNoise
    BY <1>1, <1>3, <1>5, <1>28 DEF Babble
  <2> QED  BY <1>1, <1>28, <2>1 DEF Babble, clientVars, history
<1>29. ASSUME Hangup PROVE Typed'
  <2>1. noise' \in 0..MaxNoise
    BY <1>5, <1>29 DEF Hangup
  <2> QED  BY <1>1, <1>29, <2>1 DEF Hangup, clientVars, unitVars, history
<1> QED
  BY <1>10, <1>11, <1>12, <1>13, <1>14, <1>16, <1>17, <1>18, <1>19, <1>20, <1>21, <1>22, <1>23,
     <1>24, <1>25, <1>26, <1>27, <1>28, <1>29
  DEF Next, Client

(* Only the client that moves may lose its readiness.                      *)
LEMMA OthersReady ==
  ASSUME Inv, NEW c \in Clients, Ready(c)',
         \A d \in Clients \ {c} : pc'[d] = pc[d] /\ script'[d] = script[d] /\ buf'[d] = buf[d]
  PROVE  \A d \in Clients : Ready(d)'
<1> TAKE d \in Clients
<1>1. CASE d = c
  BY <1>1
<1>2. CASE d # c
  <2>1. pc'[d] = pc[d] /\ script'[d] = script[d] /\ buf'[d] = buf[d] /\ Ready(d)
    BY <1>2 DEF Inv, Stage
  <2> QED  BY <2>1 DEF Ready
<1> QED  BY <1>1, <1>2

LEMMA StageStep ==
  ASSUME Inv, Next, TypeOK'
  PROVE  Stage'
<1>1. /\ pc \in [Clients -> Stages] /\ script \in [Clients -> Scripts]
      /\ buf \in [Clients -> Seq(Lines)] /\ input \in Seq(Lines) /\ pend \in Seq(Lines)
      /\ pend' \in Seq(Lines)
  BY DEF Inv, TypeOK, Stages
<1>2. \A c \in Clients : Ready(c)
  BY DEF Inv, Stage
<1>3. Idle /\ Owed
  BY DEF Inv, Stage
<1>4. ASSUME NEW c \in Clients, pc' = [pc EXCEPT ![c] = pc'[c]], pc'[c] # "closed" PROVE Idle'
  BY <1>1, <1>4 DEF Idle
<1>5. ASSUME pend' = pend PROVE Owed'
  BY <1>3, <1>5 DEF Owed
<1>10. ASSUME NEW c \in Clients, Open(c) PROVE Stage'
  <2>1. PICK s \in ScriptsOf[c] : script' = [script EXCEPT ![c] = s]
    BY <1>10 DEF Open
  <2>2. /\ pc' = [pc EXCEPT ![c] = "opened"] /\ pc'[c] = "opened" /\ buf' = buf /\ pend' = pend
        /\ pc[c] = "closed"
    BY <1>1, <1>10 DEF Open, Go, unitVars
  <2>3. script'[c] = s
    BY <1>1, <2>1
  <2>4. Ready(c)'
    <3>1. buf[c] = <<>>
      BY <1>2, <2>2 DEF Ready
    <3>2. Honest(script'[c]) /\ (script'[c].row # "none" => script'[c].cmds # <<>>)
      BY <2>3, ScriptFacts
    <3> QED  BY <2>2, <3>1, <3>2 DEF Ready
  <2>5. \A d \in Clients \ {c} : pc'[d] = pc[d] /\ script'[d] = script[d] /\ buf'[d] = buf[d]
    BY <1>1, <2>1, <2>2
  <2> QED  BY <1>4, <1>5, <2>2, <2>4, <2>5, OthersReady DEF Stage
<1>11. ASSUME NEW c \in Clients, Connect(c) PROVE Stage'
  <2>1. PICK s \in ScriptsOf[c] : script' = [script EXCEPT ![c] = s] /\ Go(c, Onward(s.cmds, s.row))
    BY <1>11 DEF Connect
  <2>2. buf' = buf /\ pend' = pend
    BY <1>11 DEF Connect, unitVars
  <2>3. script'[c] = s /\ pc'[c] = Onward(s.cmds, s.row) /\ pc' = [pc EXCEPT ![c] = pc'[c]]
    BY <1>1, <2>1 DEF Go
  <2>4. pc'[c] \in {"send", "close"} /\ (pc'[c] = "send" => script'[c].cmds # <<>>)
    BY <2>3, ScriptFacts, OnwardStages
  <2>5. Ready(c)'
    <3>1. Honest(script'[c])
      BY <2>3, ScriptFacts
    <3> QED  BY <2>4, <3>1 DEF Ready
  <2>6. \A d \in Clients \ {c} : pc'[d] = pc[d] /\ script'[d] = script[d] /\ buf'[d] = buf[d]
    BY <1>1, <2>1, <2>2, <2>3
  <2>7. pc'[c] # "closed"
    BY <2>4
  <2> QED  BY <1>4, <1>5, <2>2, <2>3, <2>5, <2>6, <2>7, OthersReady DEF Stage
<1>12. ASSUME NEW c \in Clients, Claim(c) PROVE Stage'
  <2>1. /\ pc' = [pc EXCEPT ![c] = "claimed"] /\ pc'[c] = "claimed" /\ script' = script /\ buf' = buf /\ pend' = pend
        /\ pc[c] = "opened"
    BY <1>1, <1>12 DEF Claim, Go, unitVars
  <2>2. Ready(c)'
    BY <1>2, <2>1 DEF Ready
  <2>3. \A d \in Clients \ {c} : pc'[d] = pc[d] /\ script'[d] = script[d] /\ buf'[d] = buf[d]
    BY <1>1, <2>1
  <2> QED  BY <1>4, <1>5, <2>1, <2>2, <2>3, OthersReady DEF Stage
<1>13. ASSUME NEW c \in Clients, Flush(c) PROVE Stage'
  <2>1. /\ pc' = [pc EXCEPT ![c] = Onward(script[c].cmds, script[c].row)] /\ pc[c] = "claimed"
        /\ pc'[c] = Onward(script[c].cmds, script[c].row) /\ script' = script /\ buf' = buf
    BY <1>1, <1>13 DEF Flush, Go
  <2>2. pc'[c] \in {"send", "close"} /\ (pc'[c] = "send" => script'[c].cmds # <<>>) /\ pc'[c] # "closed"
    BY <1>2, <2>1, OnwardStages DEF Ready
  <2>3. Ready(c)'
    BY <1>2, <2>1, <2>2 DEF Ready
  <2>4. Owed'
    <3>1. PICK n \in 0..Len(pend) : pend' = SubSeq(pend, 1, n)
      BY <1>13 DEF Flush
    <3> QED  BY <1>1, <1>3, <3>1, Front DEF Owed
  <2>5. \A d \in Clients \ {c} : pc'[d] = pc[d] /\ script'[d] = script[d] /\ buf'[d] = buf[d]
    BY <1>1, <2>1
  <2>6. Idle'
    BY <1>4, <2>1, <2>2
  <2> QED  BY <2>3, <2>4, <2>5, <2>6, OthersReady DEF Stage
<1>14. ASSUME NEW c \in Clients, ConfigureFails(c) PROVE Stage'
  <2>1. pc' = [pc EXCEPT ![c] = "close"] /\ pc'[c] = "close" /\ script' = script /\ buf' = buf /\ pend' = pend
    BY <1>1, <1>14 DEF ConfigureFails, Go, unitVars
  <2>2. Ready(c)'
    BY <1>2, <2>1 DEF Ready
  <2>3. \A d \in Clients \ {c} : pc'[d] = pc[d] /\ script'[d] = script[d] /\ buf'[d] = buf[d]
    BY <1>1, <2>1
  <2> QED  BY <1>4, <1>5, <2>1, <2>2, <2>3, OthersReady DEF Stage
<1>15. ASSUME NEW c \in Clients, pc[c] \in {"send", "read", "parse"}, Fails(c), buf' = buf,
              pend' \in {pend, <<>>}
       PROVE  Stage'
  <2>1. /\ pc'[c] \in {"send", "close"} /\ Honest(script'[c]) /\ (pc'[c] = "send" => script'[c].cmds # <<>>)
        /\ \A d \in Clients \ {c} : pc'[d] = pc[d] /\ script'[d] = script[d] /\ buf'[d] = buf[d]
    BY <1>15, AfterFails
  <2>2. Ready(c)'
    BY <2>1 DEF Ready
  <2>3. Idle'
    BY <2>1 DEF Idle
  <2>4. Owed'
    <3>1. CASE pend' = <<>>
      BY <3>1 DEF Owed
    <3> QED  BY <1>5, <1>15, <3>1
  <2> QED  BY <2>1, <2>2, <2>3, <2>4, OthersReady DEF Stage
<1>16. ASSUME NEW c \in Clients, Send(c) PROVE Stage'
  <2>1. /\ pc' = [pc EXCEPT ![c] = "read"] /\ pc'[c] = "read" /\ script' = script /\ buf' = buf
        /\ pc[c] = "send"
    BY <1>1, <1>16 DEF Send, Go
  <2>2. Ready(c)'
    BY <1>2, <2>1 DEF Ready
  <2>3. \A d \in Clients \ {c} : pc'[d] = pc[d] /\ script'[d] = script[d] /\ buf'[d] = buf[d]
    BY <1>1, <2>1
  <2>4. Owed'
    <3> DEFINE p == [Noise EXCEPT !.kind = Head(script[c].cmds), !.id = sent']
    <3>1. script[c] \in Scripts /\ script[c].cmds # <<>>
      BY <1>1, <1>2, <2>1 DEF Ready
    <3>2. Head(script[c].cmds) \in Commands /\ sent' \in Nat
      <4>1. sent' \in Nat
        BY DEF TypeOK
      <4> QED  BY <3>1, <4>1, ScriptTail
    <3>3. p \in Lines /\ p.kind \in Commands
      BY <3>2, AnswerTypes
    <3>4. pend' = Append(pend, p)
      BY <1>16 DEF Send
    <3> HIDE DEF p
    <3> QED  BY <1>1, <1>3, <3>3, <3>4 DEF Owed
  <2> QED  BY <1>4, <2>1, <2>2, <2>3, <2>4, OthersReady DEF Stage
<1>17. ASSUME NEW c \in Clients, SendFails(c) PROVE Stage'
  BY <1>15, <1>17 DEF SendFails, unitVars
<1>18. ASSUME NEW c \in Clients, ReadLine(c) PROVE Stage'
  <2>1. /\ pc' = [pc EXCEPT ![c] = "parse"] /\ pc'[c] = "parse" /\ script' = script /\ pend' = pend
        /\ pc[c] = "read" /\ buf' = [buf EXCEPT ![c] = Rest(@)]
    BY <1>1, <1>18 DEF ReadLine, Go, unitVars
  <2>2. Ready(c)'
    BY <1>2, <2>1 DEF Ready
  <2>3. \A d \in Clients \ {c} : pc'[d] = pc[d] /\ script'[d] = script[d] /\ buf'[d] = buf[d]
    BY <1>1, <2>1
  <2> QED  BY <1>4, <1>5, <2>1, <2>2, <2>3, OthersReady DEF Stage
<1>19. ASSUME NEW c \in Clients, ReadMore(c) PROVE Stage'
  <2>1. /\ pc' = pc /\ script' = script /\ pend' = pend /\ input' = <<>>
        /\ pc[c] = "read" /\ buf' = [buf EXCEPT ![c] = Joined(@, input)]
    BY <1>19 DEF ReadMore
  <2>2. Ready(c)'
    BY <1>2, <2>1 DEF Ready
  <2>3. \A d \in Clients \ {c} : pc'[d] = pc[d] /\ script'[d] = script[d] /\ buf'[d] = buf[d]
    BY <1>1, <2>1
  <2>4. Idle'
    BY <2>1 DEF Idle
  <2> QED  BY <1>5, <2>1, <2>2, <2>3, <2>4, OthersReady DEF Stage
<1>20. ASSUME NEW c \in Clients, Timeout(c) PROVE Stage'
  BY <1>15, <1>20 DEF Timeout
<1>21. ASSUME NEW c \in Clients, ReadFails(c) PROVE Stage'
  BY <1>15, <1>21 DEF ReadFails, unitVars
<1>22. ASSUME NEW c \in Clients, Parse(c) PROVE Stage'
  <2> DEFINE t == [script[c] EXCEPT !.cmds = Tail(@)]
  <2>1. /\ pc' = [pc EXCEPT ![c] = Onward(Tail(script[c].cmds), script[c].row)] /\ pc[c] = "parse"
        /\ pc'[c] = Onward(Tail(script[c].cmds), script[c].row)
        /\ script' = [script EXCEPT ![c] = t] /\ script'[c] = t /\ buf' = buf /\ pend' = pend
    BY <1>1, <1>22 DEF Parse, Go, unitVars
  <2>2. script[c] \in Scripts /\ script[c].cmds # <<>> /\ Honest(script[c])
    BY <1>1, <1>2, <2>1 DEF Ready
  <2>3. Honest(t) /\ t.cmds = Tail(script[c].cmds)
    <3>1. Honest(t)
      BY <2>2, ScriptTail
    <3> QED  BY <2>2, <3>1 DEF Scripts
  <2> HIDE DEF t
  <2>4. pc'[c] \in {"send", "record", "close"} /\ (pc'[c] = "send" => script'[c].cmds # <<>>)
    BY <2>1, <2>3, OnwardStages
  <2>5. Ready(c)'
    BY <2>1, <2>3, <2>4 DEF Ready
  <2>6. \A d \in Clients \ {c} : pc'[d] = pc[d] /\ script'[d] = script[d] /\ buf'[d] = buf[d]
    BY <1>1, <2>1
  <2>7. pc'[c] # "closed"
    BY <2>4
  <2>8. Idle'
    BY <2>7 DEF Idle
  <2> QED  BY <1>5, <2>1, <2>5, <2>6, <2>8, OthersReady DEF Stage
<1>23. ASSUME NEW c \in Clients, ParseFails(c) PROVE Stage'
  BY <1>15, <1>23 DEF ParseFails, unitVars
<1>24. ASSUME NEW c \in Clients, Record(c) \/ RecordFails(c) PROVE Stage'
  <2>1. /\ pc' = [pc EXCEPT ![c] = "close"] /\ pc'[c] = "close" /\ script' = script /\ buf' = buf /\ pend' = pend
    BY <1>1, <1>24 DEF Record, RecordFails, Go, unitVars
  <2>2. Ready(c)'
    BY <1>2, <2>1 DEF Ready
  <2>3. \A d \in Clients \ {c} : pc'[d] = pc[d] /\ script'[d] = script[d] /\ buf'[d] = buf[d]
    BY <1>1, <2>1
  <2> QED  BY <1>4, <1>5, <2>1, <2>2, <2>3, OthersReady DEF Stage
<1>26. ASSUME NEW c \in Clients, Close(c) PROVE Stage'
  <2>1. /\ pc' = [pc EXCEPT ![c] = "closed"] /\ script' = [script EXCEPT ![c] = Closed]
        /\ buf' = [buf EXCEPT ![c] = <<>>] /\ pend' = pend
    BY <1>26 DEF Close, Go
  <2>2. pc'[c] = "closed" /\ script'[c] = Closed /\ buf'[c] = <<>>
    BY <1>1, <2>1
  <2>3. Ready(c)'
    <3>1. Honest(Closed)
      <4>1. DOMAIN <<>> = {}
        OBVIOUS
      <4> QED  BY <4>1 DEF Closed, Script, Honest
    <3> QED  BY <2>2, <3>1 DEF Ready
  <2>4. \A d \in Clients \ {c} : pc'[d] = pc[d] /\ script'[d] = script[d] /\ buf'[d] = buf[d]
    BY <1>1, <2>1
  <2>5. ASSUME \A d \in Clients : pc'[d] = "closed" PROVE input' = <<>>
    <3>1. pc[c] # "closed"
      BY <1>26 DEF Close
    <3>2. Holders = {c}
      BY <2>4, <2>5, <3>1 DEF Holders
    <3> QED  BY <1>26, <3>2 DEF Close
  <2> QED  BY <1>5, <2>1, <2>3, <2>4, <2>5, OthersReady DEF Stage, Idle
<1>27. ASSUME Answer PROVE Stage'
  <2>1. pend # <<>> /\ pend' = Tail(pend) /\ UNCHANGED <<pc, script, buf>>
    BY <1>27 DEF Answer, clientVars
  <2>2. \A c \in Clients : Ready(c)'
    BY <1>2, <2>1 DEF Ready
  <2>3. Owed'
    <3>1. \A i \in DOMAIN pend' : i + 1 \in DOMAIN pend /\ pend'[i] = pend[i + 1]
      BY <1>1, <2>1
    <3> QED  BY <1>3, <3>1 DEF Owed
  <2>4. Idle'
    BY <1>3, <1>27, <2>1 DEF Answer, Idle, Holders
  <2> QED  BY <2>2, <2>3, <2>4 DEF Stage
<1>28. ASSUME Babble \/ Hangup PROVE Stage'
  <2>1. UNCHANGED <<pc, script, buf, pend>> /\ \E c \in Clients : pc[c] # "closed"
    BY <1>28 DEF Babble, Hangup, clientVars, unitVars, Holders
  <2>2. \A c \in Clients : Ready(c)'
    BY <1>2, <2>1 DEF Ready
  <2>3. Idle'
    BY <2>1 DEF Idle
  <2> QED  BY <1>5, <2>1, <2>2, <2>3 DEF Stage
<1> QED
  BY <1>10, <1>11, <1>12, <1>13, <1>14, <1>16, <1>17, <1>18, <1>19, <1>20, <1>21, <1>22, <1>23,
     <1>24, <1>26, <1>27, <1>28
  DEF Next, Client

LEMMA InvStep == Inv /\ [Next]_vars => Inv'
<1> SUFFICES ASSUME Inv, [Next]_vars PROVE Inv'
  OBVIOUS
<1>1. CASE Next
  BY <1>1, TypeStep, StageStep DEF Inv
<1>2. CASE UNCHANGED vars
  BY <1>2 DEF vars, clientVars, unitVars, history, bounds, Inv, TypeOK, Stage, Ready, Idle, Owed
<1> QED  BY <1>1, <1>2

(* No client's stage, script or buffer, no queue and no counter ever       *)
(* leaves its type: a failure at any point of an exchange leaves a stage   *)
(* the code has.                                                           *)
THEOREM TypeCorrect == Spec => []TypeOK
<1>1. Inv => TypeOK
  BY DEF Inv
<1> QED  BY <1>1, StartsRight, InvStep, PTL DEF Spec

-----------------------------------------------------------------------------
(* The answer a client waits for.                                          *)

(* Nothing but, perhaps, a burst of noise.                                 *)
Quiet(s) == s \in {<<>>, <<Noise>>}

(* l answers command i of a unit whose values are v; a garbled answer      *)
(* shows no values.                                                        *)
Answers(l, i, v) == l.kind # "noise" /\ l.id = i /\ (l.kind = "c" => l.cal = v)

(* One answer, with perhaps a burst of noise on either side.               *)
One(s, i, v) ==
  \E l \in Lines : /\ Answers(l, i, v)
                   /\ s \in {<<l>>, <<Noise, l>>, <<l, Noise>>, <<Noise, l, Noise>>}

(* Lists of up to three, taken apart and put together.                     *)
LEMMA ShortLists ==
  ASSUME NEW S, NEW a \in S, NEW b \in S
  PROVE  /\ Append(<<>>, a) = <<a>> /\ Append(<<a>>, b) = <<a, b>>
         /\ Tail(<<a>>) = <<>> /\ Tail(<<a, b>>) = <<b>>
         /\ <<a>> \o <<b>> = <<a, b>>
<1>a. <<>> \in Seq(S) /\ <<a>> \in Seq(S) /\ <<b>> \in Seq(S) /\ <<a, b>> \in Seq(S)
  OBVIOUS
<1>b. /\ Len(<<a>>) = 1 /\ <<a>>[1] = a /\ Len(<<a, b>>) = 2
      /\ <<a, b>>[1] = a /\ <<a, b>>[2] = b
  OBVIOUS
<1>1. Append(<<>>, a) = <<a>>
  OBVIOUS
<1>2. Append(<<a>>, b) = <<a, b>>
  <2> DEFINE s == <<a>>  t == <<a, b>> u == Append(s, b)
  <2>1. u \in Seq(S) /\ Len(u) = Len(s) + 1 /\ (\A i \in 1..Len(s) : u[i] = s[i]) /\ u[Len(s) + 1] = b
    BY <1>a, AppendProperties
  <2>2. t \in Seq(S) /\ Len(t) = 2 /\ t[1] = a /\ t[2] = b /\ Len(s) = 1 /\ s[1] = a
    BY <1>a, <1>b
  <2> HIDE DEF s, t, u
  <2>3. Len(u) = Len(t) /\ \A i \in 1..Len(u) : u[i] = t[i]
    BY <2>1, <2>2
  <2>4. u = t
    BY <2>1, <2>2, <2>3, SeqEqual
  <2> QED  BY <2>4 DEF s, t, u
<1>4. Tail(<<a>>) = <<>>
  OBVIOUS
<1>5. Tail(<<a, b>>) = <<b>>
  OBVIOUS
<1>7. <<a>> \o <<b>> = <<a, b>>
  BY <1>a, <1>2, AppendIsConcat
<1> QED  BY <1>1, <1>2, <1>4, <1>5, <1>7

LEMMA Extended ==
  ASSUME NEW S, NEW a \in S, NEW b \in S, NEW c \in S
  PROVE  Append(<<a, b>>, c) = <<a, b, c>>
<1>a. <<a, b>> \in Seq(S) /\ <<a, b, c>> \in Seq(S)
  OBVIOUS
<1>b. /\ Len(<<a, b>>) = 2 /\ <<a, b>>[1] = a /\ <<a, b>>[2] = b
      /\ Len(<<a, b, c>>) = 3 /\ <<a, b, c>>[1] = a /\ <<a, b, c>>[2] = b /\ <<a, b, c>>[3] = c
  OBVIOUS
<1>3. Append(<<a, b>>, c) = <<a, b, c>>
  <2> DEFINE s == <<a, b>>  t == <<a, b, c>> u == Append(s, c)
  <2>1. u \in Seq(S) /\ Len(u) = Len(s) + 1 /\ (\A i \in 1..Len(s) : u[i] = s[i]) /\ u[Len(s) + 1] = c
    BY <1>a, AppendProperties
  <2>2. t \in Seq(S) /\ Len(t) = 3 /\ t[1] = a /\ t[2] = b /\ t[3] = c /\ Len(s) = 2 /\ s[1] = a /\ s[2] = b
    BY <1>a, <1>b
  <2> HIDE DEF s, t, u
  <2>3. Len(u) = Len(t) /\ \A i \in 1..Len(u) : u[i] = t[i]
    BY <2>1, <2>2
  <2>4. u = t
    BY <2>1, <2>2, <2>3, SeqEqual
  <2> QED  BY <2>4 DEF s, t, u
<1> QED  BY <1>3

LEMMA Preceded ==
  ASSUME NEW S, NEW a \in S, NEW b \in S, NEW c \in S
  PROVE  <<a>> \o <<b, c>> = <<a, b, c>> /\ Tail(<<a, b, c>>) = <<b, c>>
<1>a. <<a>> \in Seq(S) /\ <<b, c>> \in Seq(S) /\ <<a, b, c>> \in Seq(S)
  OBVIOUS
<1>b. /\ Len(<<a>>) = 1 /\ <<a>>[1] = a /\ Len(<<b, c>>) = 2 /\ <<b, c>>[1] = b /\ <<b, c>>[2] = c
      /\ Len(<<a, b, c>>) = 3 /\ <<a, b, c>>[1] = a /\ <<a, b, c>>[2] = b /\ <<a, b, c>>[3] = c
  OBVIOUS
<1>8. <<a>> \o <<b, c>> = <<a, b, c>>
  <2> DEFINE s == <<a>>  r == <<b, c>>  t == <<a, b, c>>  u == s \o r
  <2>1. /\ u \in Seq(S) /\ Len(u) = Len(s) + Len(r)
        /\ \A i \in 1..(Len(s) + Len(r)) : u[i] = IF i <= Len(s) THEN s[i] ELSE r[i - Len(s)]
    BY <1>a, ConcatProperties
  <2>2. /\ t \in Seq(S) /\ Len(t) = 3 /\ t[1] = a /\ t[2] = b /\ t[3] = c
        /\ Len(s) = 1 /\ s[1] = a /\ Len(r) = 2 /\ r[1] = b /\ r[2] = c
    BY <1>a, <1>b
  <2> HIDE DEF s, r, t, u
  <2>3. Len(u) = Len(t) /\ \A i \in 1..Len(u) : u[i] = t[i]
    BY <2>1, <2>2
  <2>4. u = t
    BY <2>1, <2>2, <2>3, SeqEqual
  <2> QED  BY <2>4 DEF s, r, t, u
<1>6. Tail(<<a, b, c>>) = <<b, c>>
  OBVIOUS
<1> QED  BY <1>6, <1>8

LEMMA QuietFacts ==
  ASSUME NEW s, Quiet(s)
  PROVE  /\ ~Complete(s)
         /\ ~NoiseLast(s) => Quiet(Append(s, Noise))
         /\ \A l \in Lines : \A i, v : Answers(l, i, v) => One(Append(s, l), i, v)
         /\ \A m : Quiet(m) /\ m # <<>> => Quiet(Joined(s, m))
         /\ \A m, i, v : One(m, i, v) => One(Joined(s, m), i, v)
<1>1. Noise \in Lines /\ Noise.kind = "noise"
  BY NoiseIsLine
<1>2. s = <<>> \/ s = <<Noise>>
  BY DEF Quiet
<1>3. ~Complete(s)
  <2>1. DOMAIN <<>> = {} /\ DOMAIN <<Noise>> = {1} /\ <<Noise>>[1] = Noise
    OBVIOUS
  <2> QED  BY <1>2, <2>1 DEF Complete
<1>4. /\ <<Noise>> # <<>> /\ <<Noise>>[1] = Noise /\ Len(<<Noise>>) = 1
      /\ Append(<<>>, Noise) = <<Noise>> /\ Tail(<<Noise>>) = <<>> /\ <<Noise>> \o <<>> = <<Noise>>
      /\ <<>> \o <<Noise>> = <<Noise>>
  BY <1>1
<1>5. NoiseLast(<<Noise>>) /\ ~NoiseLast(<<>>)
  BY <1>4 DEF NoiseLast
<1>6. ~NoiseLast(s) => Quiet(Append(s, Noise))
  BY <1>2, <1>4, <1>5 DEF Quiet
<1>7. ASSUME NEW l \in Lines, NEW i, NEW v, Answers(l, i, v) PROVE One(Append(s, l), i, v)
  <2>1. Append(<<>>, l) = <<l>> /\ Append(<<Noise>>, l) = <<Noise, l>>
    BY <1>1, ShortLists
  <2> QED  BY <1>2, <1>7, <2>1 DEF One
<1>8. ASSUME NEW m, Quiet(m), m # <<>> PROVE Quiet(Joined(s, m))
  <2>1. m = <<Noise>>
    BY <1>8 DEF Quiet
  <2> QED  BY <1>2, <1>4, <1>5, <2>1 DEF Joined, Quiet
<1>9. ASSUME NEW m, NEW i, NEW v, One(m, i, v) PROVE One(Joined(s, m), i, v)
  <2>1. PICK l \in Lines : /\ Answers(l, i, v)
                           /\ m \in {<<l>>, <<Noise, l>>, <<l, Noise>>, <<Noise, l, Noise>>}
    BY <1>9 DEF One
  <2>2. l # Noise
    BY <1>1, <2>1 DEF Answers
  <2>3. CASE s = <<>>
    <3>1. Joined(s, m) = m
      <4>1. \A t \in Seq(Lines) : <<>> \o t = t
        BY ConcatEmptySeq
      <4>2. m \in Seq(Lines)
        <5>1. /\ <<l>> \in Seq(Lines) /\ <<Noise, l>> \in Seq(Lines)
              /\ <<l, Noise>> \in Seq(Lines) /\ <<Noise, l, Noise>> \in Seq(Lines)
          BY <1>1
        <5> QED  BY <2>1, <5>1
      <4> QED  BY <1>5, <2>3, <4>1, <4>2 DEF Joined
    <3> QED  BY <1>9, <3>1
  <2>4. CASE s = <<Noise>>
    <3>1. CASE m = <<l>> \/ m = <<Noise, l>>
      <4>1. <<l>>[1] = l /\ <<Noise, l>>[1] = Noise /\ Tail(<<Noise, l>>) = <<l>> /\ <<Noise>> \o <<l>> = <<Noise, l>>
        BY <1>1, ShortLists
      <4>2. Joined(s, m) = <<Noise, l>>
        BY <1>5, <2>2, <2>4, <3>1, <4>1 DEF Joined
      <4> QED  BY <2>1, <4>2 DEF One
    <3>2. CASE m = <<l, Noise>> \/ m = <<Noise, l, Noise>>
      <4>1. /\ <<l, Noise>>[1] = l /\ <<Noise, l, Noise>>[1] = Noise /\ Tail(<<Noise, l, Noise>>) = <<l, Noise>>
            /\ <<Noise>> \o <<l, Noise>> = <<Noise, l, Noise>>
        <5>1. <<l, Noise>>[1] = l /\ <<Noise, l, Noise>>[1] = Noise
          OBVIOUS
        <5>2. Tail(<<Noise, l, Noise>>) = <<l, Noise>>
          BY <1>1, Preceded
        <5>4. <<Noise>> \o <<l, Noise>> = <<Noise, l, Noise>>
          BY <1>1, Preceded
        <5> QED  BY <5>1, <5>2, <5>4
      <4>2. Joined(s, m) = <<Noise, l, Noise>>
        BY <1>5, <2>2, <2>4, <3>2, <4>1 DEF Joined
      <4> QED  BY <2>1, <4>2 DEF One
    <3> QED  BY <2>1, <3>1, <3>2
  <2> QED  BY <1>2, <2>3, <2>4
<1> QED  BY <1>3, <1>6, <1>7, <1>8, <1>9

LEMMA OneFacts ==
  ASSUME NEW s, NEW i, NEW v, One(s, i, v)
  PROVE  /\ Complete(s) /\ s # <<>>
         /\ ~NoiseLast(s) => One(Append(s, Noise), i, v)
         /\ Answers(First(s), i, v)
         /\ Quiet(Rest(s))
<1>1. Noise \in Lines /\ Noise.kind = "noise"
  BY NoiseIsLine
<1>2. PICK l \in Lines : /\ Answers(l, i, v)
                         /\ s \in {<<l>>, <<Noise, l>>, <<l, Noise>>, <<Noise, l, Noise>>}
  BY DEF One
<1>3. l # Noise
  BY <1>1, <1>2 DEF Answers
<1>4. [l EXCEPT !.kind = "garbled"].kind = "garbled" /\ [l EXCEPT !.kind = "garbled"].id = l.id
  BY DEF Lines
<1>5. Answers([l EXCEPT !.kind = "garbled"], i, v)
  BY <1>2, <1>4 DEF Answers
<1>10. Complete(s) /\ s # <<>>
  <2>1. /\ 1 \in DOMAIN <<l>> /\ <<l>>[1] = l
        /\ 2 \in DOMAIN <<Noise, l>> /\ <<Noise, l>>[2] = l
        /\ 1 \in DOMAIN <<l, Noise>> /\ <<l, Noise>>[1] = l
        /\ 2 \in DOMAIN <<Noise, l, Noise>> /\ <<Noise, l, Noise>>[2] = l
    OBVIOUS
  <2>2. <<l>> # <<>> /\ <<Noise, l>> # <<>> /\ <<l, Noise>> # <<>> /\ <<Noise, l, Noise>> # <<>>
    OBVIOUS
  <2> QED  BY <1>2, <1>3, <2>1, <2>2 DEF Complete
<1>6. CASE s = <<l>>
  <2>1. Append(<<l>>, Noise) = <<l, Noise>> /\ <<l>>[1] = l /\ Tail(<<l>>) = <<>>
    BY <1>1, ShortLists
  <2> QED  BY <1>10, <1>2, <1>3, <1>6, <2>1 DEF One, First, Rest, Quiet
<1>7. CASE s = <<Noise, l>>
  <2>1. /\ Append(<<Noise, l>>, Noise) = <<Noise, l, Noise>> /\ <<Noise, l>>[1] = Noise /\ <<Noise, l>>[2] = l
        /\ Tail(<<Noise, l>>) = <<l>> /\ Tail(<<l>>) = <<>>
    <3>1. <<Noise, l>>[1] = Noise /\ <<Noise, l>>[2] = l
      OBVIOUS
    <3>2. Append(<<Noise, l>>, Noise) = <<Noise, l, Noise>>
      BY <1>1, Extended
    <3>3. Tail(<<Noise, l>>) = <<l>> /\ Tail(<<l>>) = <<>>
      BY <1>1, ShortLists
    <3> QED  BY <3>1, <3>2, <3>3
  <2>2. First(s) = [l EXCEPT !.kind = "garbled"]
    BY <1>7, <2>1 DEF First
  <2> QED  BY <1>10, <1>2, <1>5, <1>7, <2>1, <2>2 DEF One, Rest, Quiet
<1>8. CASE s = <<l, Noise>>
  <2>1. /\ <<l, Noise>> # <<>> /\ Len(<<l, Noise>>) = 2 /\ <<l, Noise>>[2] = Noise
        /\ <<l, Noise>>[1] = l /\ Tail(<<l, Noise>>) = <<Noise>>
    BY <1>1
  <2>2. NoiseLast(s)
    BY <1>8, <2>1 DEF NoiseLast
  <2> QED  BY <1>10, <1>2, <1>3, <1>8, <2>1, <2>2 DEF First, Rest, Quiet
<1>9. CASE s = <<Noise, l, Noise>>
  <2>1. /\ <<Noise, l, Noise>> # <<>> /\ Len(<<Noise, l, Noise>>) = 3 /\ <<Noise, l, Noise>>[3] = Noise
        /\ <<Noise, l, Noise>>[1] = Noise /\ <<Noise, l, Noise>>[2] = l
        /\ Tail(<<Noise, l, Noise>>) = <<l, Noise>> /\ Tail(<<l, Noise>>) = <<Noise>>
    BY <1>1
  <2>2. NoiseLast(s)
    BY <1>9, <2>1 DEF NoiseLast
  <2>3. First(s) = [l EXCEPT !.kind = "garbled"]
    BY <1>9, <2>1 DEF First
  <2> QED  BY <1>10, <1>5, <1>9, <2>1, <2>2, <2>3 DEF Rest, Quiet
<1> QED  BY <1>2, <1>6, <1>7, <1>8, <1>9

(* Nothing is owed and nothing is on its way.                              *)
Silent(c) == pend = <<>> /\ Quiet(input) /\ Quiet(buf[c])

(* The one answer a client waits for is with the unit, in the kernel's     *)
(* queue or in buf_, or it is lost.                                        *)
Expecting(c) ==
  \/ \E p \in Lines : /\ p.kind \in Commands /\ p.id = id[c] /\ pend = <<p>>
                      /\ Quiet(input) /\ Quiet(buf[c])
  \/ pend = <<>> /\ One(input, id[c], cal) /\ Quiet(buf[c])
  \/ pend = <<>> /\ Quiet(input) /\ One(buf[c], id[c], cal)
  \/ Silent(c)

InStep(c) ==
  /\ pc[c] = "read" => Expecting(c)
  /\ pc[c] # "read" => Silent(c)
  /\ pc[c] = "parse" => Answers(line[c], id[c], cal)
  /\ pc[c] = "record" => line[c].cal = cal

(* While answers cannot be mixed up one client has the link, in step with  *)
(* the unit.                                                               *)
Exclusive ==
  ~mixed => /\ \A c \in Clients : pc[c] # "closed" =>
                 InStep(c) /\ \A d \in Clients \ {c} : pc[d] = "closed"
            /\ (\A c \in Clients : pc[c] = "closed") => pend = <<>>

LEMMA Turn ==
  ASSUME NEW c \in Clients, \A d \in Clients \ {c} : pc'[d] = "closed",
         pc'[c] = "closed" => pend' = <<>>, pc'[c] # "closed" => InStep(c)'
  PROVE  Exclusive'
<1>1. ASSUME NEW d \in Clients, pc'[d] # "closed"
      PROVE  InStep(d)' /\ \A e \in Clients \ {d} : pc'[e] = "closed"
  <2>1. d = c
    BY <1>1
  <2> QED  BY <1>1, <2>1
<1> QED  BY <1>1 DEF Exclusive

LEMMA SilentTurn ==
  ASSUME NEW c \in Clients, \A d \in Clients \ {c} : pc'[d] = "closed",
         Silent(c)', pc'[c] \notin {"parse", "record"}
  PROVE  Exclusive'
<1>1. pend' = <<>>
  BY DEF Silent
<1>2. InStep(c)'
  BY DEF InStep, Expecting
<1> QED  BY <1>1, <1>2, Turn

(* What Exclusive gives of the client that moves.                          *)
LEMMA Alone ==
  ASSUME Exclusive, ~mixed, NEW c \in Clients, pc[c] # "closed"
  PROVE  InStep(c) /\ \A d \in Clients \ {c} : pc[d] = "closed"
BY DEF Exclusive

(* An answer that is not there leaves nothing behind.                      *)
LEMMA NoAnswer ==
  ASSUME NEW c \in Clients, Expecting(c), ~Complete(buf[c]), input = <<>>
  PROVE  Quiet(input) /\ Quiet(buf[c])
<1>1. ~One(input, id[c], cal)
  BY OneFacts
<1>2. ~One(buf[c], id[c], cal)
  BY OneFacts
<1> QED  BY <1>1, <1>2 DEF Expecting, Silent

LEMMA ExclusiveStep ==
  ASSUME Inv, Exclusive, Next, Inv'
  PROVE  Exclusive'
<1> SUFFICES ASSUME ~mixed' PROVE Exclusive'
  BY DEF Exclusive
<1>1. /\ pc \in [Clients -> Stages] /\ script \in [Clients -> Scripts] /\ id \in [Clients -> Nat]
      /\ buf \in [Clients -> Seq(Lines)] /\ line \in [Clients -> Lines]
      /\ input \in Seq(Lines) /\ pend \in Seq(Lines) /\ mixed \in BOOLEAN /\ cal \in Values
  BY DEF Inv, TypeOK, Stages
<1>2. \A c \in Clients : Ready(c)
  BY DEF Inv, Stage
<1>3. Idle /\ Owed
  BY DEF Inv, Stage
<1>4. Quiet(<<>>)
  BY DEF Quiet
<1>5. ASSUME NEW c \in Clients, pc[c] # "closed", ~mixed, pc' = [pc EXCEPT ![c] = pc'[c]]
      PROVE  InStep(c) /\ \A d \in Clients \ {c} : pc'[d] = "closed"
  <2>1. InStep(c) /\ \A d \in Clients \ {c} : pc[d] = "closed"
    BY <1>5, Alone
  <2>2. \A d \in Clients \ {c} : pc'[d] = pc[d]
    BY <1>1, <1>5
  <2> QED  BY <2>1, <2>2
<1>10. ASSUME NEW c \in Clients, Open(c) PROVE Exclusive'
  <2>1. ~mixed /\ Holders = {}
    BY <1>10 DEF Open
  <2>2. \A d \in Clients : pc[d] = "closed"
    BY <2>1 DEF Holders
  <2>3. pend = <<>> /\ input = <<>> /\ buf[c] = <<>>
    BY <1>2, <1>3, <2>1, <2>2 DEF Exclusive, Idle, Ready
  <2>4. pc' = [pc EXCEPT ![c] = "opened"] /\ UNCHANGED <<pend, input, buf>>
    BY <1>10 DEF Open, Go, unitVars
  <2>5. \A d \in Clients \ {c} : pc'[d] = "closed"
    BY <1>1, <2>2, <2>4
  <2>6. Silent(c)' /\ pc'[c] = "opened"
    BY <1>1, <1>4, <2>3, <2>4 DEF Silent
  <2> QED  BY <2>5, <2>6, SilentTurn
<1>11. ASSUME NEW c \in Clients, Connect(c) PROVE Exclusive'
  <2>1. PICK s \in ScriptsOf[c] : Go(c, Onward(s.cmds, s.row))
    BY <1>11 DEF Connect
  <2>2. \A d \in Clients : pc[d] = "closed"
    BY <1>11 DEF Connect, Holders
  <2>3. input = <<>> /\ buf[c] = <<>>
    BY <1>2, <1>3, <2>2 DEF Idle, Ready
  <2>4. pend = <<>>
    <3>1. CASE mixed
      BY <1>11, <3>1 DEF Connect
    <3>2. CASE ~mixed
      BY <2>2, <3>2 DEF Exclusive
    <3> QED  BY <3>1, <3>2
  <2>5. pc' = [pc EXCEPT ![c] = Onward(s.cmds, s.row)] /\ UNCHANGED <<pend, input, buf>>
    BY <1>11, <2>1 DEF Connect, Go, unitVars
  <2>6. \A d \in Clients \ {c} : pc'[d] = "closed"
    BY <1>1, <2>2, <2>5
  <2>7. pc'[c] \in {"send", "close"}
    BY <1>1, <2>5, ScriptFacts, OnwardStages
  <2>8. Silent(c)'
    BY <1>4, <2>3, <2>4, <2>5 DEF Silent
  <2> QED  BY <2>6, <2>7, <2>8, SilentTurn
<1>12. ASSUME NEW c \in Clients, Claim(c) \/ ConfigureFails(c) PROVE Exclusive'
  <2>1. /\ pc' = [pc EXCEPT ![c] = pc'[c]] /\ pc'[c] \in {"claimed", "close"} /\ pc[c] \in {"opened", "claimed"}
        /\ mixed' = mixed /\ UNCHANGED <<pend, input, buf>>
    BY <1>1, <1>12 DEF Claim, ConfigureFails, Go, unitVars, history
  <2>2. InStep(c) /\ \A d \in Clients \ {c} : pc'[d] = "closed"
    BY <1>5, <2>1
  <2>3. Silent(c)'
    BY <2>1, <2>2 DEF InStep, Silent
  <2> QED  BY <2>1, <2>2, <2>3, SilentTurn
<1>13. ASSUME NEW c \in Clients, Flush(c) PROVE Exclusive'
  <2>1. /\ pc' = [pc EXCEPT ![c] = Onward(script[c].cmds, script[c].row)] /\ pc[c] = "claimed"
        /\ input' = <<>> /\ buf' = buf /\ script' = script
        /\ mixed' = (mixed /\ (Holders # {c} \/ pend # <<>>))
    BY <1>13 DEF Flush, Go
  <2>2. (\A d \in Clients \ {c} : pc[d] = "closed") /\ pend = <<>>
    <3>1. CASE mixed
      <4>1. Holders = {c} /\ pend = <<>>
        BY <2>1, <3>1
      <4> QED  BY <4>1 DEF Holders
    <3>2. CASE ~mixed
      BY <2>1, <3>2, Alone DEF InStep, Silent
    <3> QED  BY <3>1, <3>2
  <2>3. pend' = <<>>
    <3>1. PICK n \in 0..Len(pend) : pend' = SubSeq(pend, 1, n)
      BY <1>13 DEF Flush
    <3> QED  BY <1>1, <2>2, <3>1, Front
  <2>4. buf[c] = <<>>
    BY <1>2, <2>1 DEF Ready
  <2>5. pc'[c] \in {"send", "close"} /\ \A d \in Clients \ {c} : pc'[d] = "closed"
    <3>1. pc'[c] = Onward(script[c].cmds, script[c].row) /\ \A d \in Clients \ {c} : pc'[d] = pc[d]
      BY <1>1, <2>1
    <3>2. script[c].row # "none" => script[c].cmds # <<>>
      BY <1>2, <2>1 DEF Ready
    <3> QED  BY <2>2, <3>1, <3>2, OnwardStages
  <2>6. Silent(c)'
    BY <1>4, <2>1, <2>3, <2>4 DEF Silent
  <2> QED  BY <2>5, <2>6, SilentTurn
<1>15. ASSUME NEW c \in Clients, pc[c] \in {"send", "read", "parse"}, Fails(c), ~mixed, Silent(c)'
       PROVE  Exclusive'
  <2>1. pc'[c] \in {"send", "close"} /\ \A d \in Clients \ {c} : pc'[d] = pc[d]
    BY <1>15, AfterFails
  <2>2. \A d \in Clients \ {c} : pc[d] = "closed"
    BY <1>15, Alone
  <2> QED  BY <1>15, <2>1, <2>2, SilentTurn
<1>16. ASSUME NEW c \in Clients, Send(c) PROVE Exclusive'
  <2> DEFINE p == [Noise EXCEPT !.kind = Head(script[c].cmds), !.id = sent']
  <2>1. /\ pc' = [pc EXCEPT ![c] = "read"] /\ pc[c] = "send" /\ pc'[c] = "read" /\ mixed' = mixed
        /\ input' = input /\ buf' = buf /\ pend' = Append(pend, p) /\ id'[c] = sent'
    BY <1>1, <1>16 DEF Send, Go
  <2>2. InStep(c) /\ \A d \in Clients \ {c} : pc'[d] = "closed"
    BY <1>5, <2>1
  <2>3. Silent(c)
    BY <2>1, <2>2 DEF InStep
  <2>4. p \in Lines /\ p.kind \in Commands /\ p.id = sent'
    <3>1. script[c] \in Scripts /\ script[c].cmds # <<>> /\ sent' \in Nat
      BY <1>1, <1>2, <2>1 DEF Ready, Inv, TypeOK
    <3>2. Head(script[c].cmds) \in Commands
      BY <3>1, ScriptTail
    <3> QED  BY <3>1, <3>2, AnswerTypes
  <2> HIDE DEF p
  <2>5. pend' = <<p>>
    <3>1. pend = <<>>
      BY <2>3 DEF Silent
    <3> QED  BY <2>1, <2>4, <3>1, ShortLists
  <2>6. Expecting(c)'
    BY <2>1, <2>3, <2>4, <2>5 DEF Expecting, Silent
  <2>7. InStep(c)'
    BY <2>1, <2>6 DEF InStep
  <2> QED  BY <2>1, <2>2, <2>7, Turn
<1>17. ASSUME NEW c \in Clients, SendFails(c) PROVE Exclusive'
  <2>1. pc[c] = "send" /\ Fails(c) /\ mixed' = mixed /\ UNCHANGED <<pend, input, buf>>
    BY <1>17 DEF SendFails, unitVars
  <2>2. Silent(c)'
    BY <2>1, Alone DEF InStep, Silent
  <2> QED  BY <1>15, <2>1, <2>2
<1>18. ASSUME NEW c \in Clients, ReadLine(c) PROVE Exclusive'
  <2>1. /\ pc' = [pc EXCEPT ![c] = "parse"] /\ pc[c] = "read" /\ pc'[c] = "parse" /\ mixed' = mixed
        /\ Complete(buf[c]) /\ buf'[c] = Rest(buf[c]) /\ line'[c] = First(buf[c])
        /\ UNCHANGED <<pend, input, id, cal>>
    BY <1>1, <1>18 DEF ReadLine, Go, unitVars, history
  <2>2. InStep(c) /\ \A d \in Clients \ {c} : pc'[d] = "closed"
    BY <1>5, <2>1
  <2>3. ~Quiet(buf[c])
    BY <2>1, QuietFacts
  <2>4. pend = <<>> /\ Quiet(input) /\ One(buf[c], id[c], cal)
    BY <2>1, <2>2, <2>3 DEF InStep, Expecting, Silent
  <2>5. Answers(First(buf[c]), id[c], cal) /\ Quiet(Rest(buf[c]))
    BY <2>4, OneFacts
  <2>6. Silent(c)'
    BY <2>1, <2>4, <2>5 DEF Silent
  <2>7. InStep(c)'
    BY <2>1, <2>5, <2>6 DEF InStep
  <2> QED  BY <2>1, <2>2, <2>7, Turn
<1>19. ASSUME NEW c \in Clients, ReadMore(c) PROVE Exclusive'
  <2>1. /\ pc' = pc /\ pc[c] = "read" /\ mixed' = mixed /\ ~Complete(buf[c]) /\ input # <<>>
        /\ buf'[c] = Joined(buf[c], input) /\ input' = <<>> /\ UNCHANGED <<pend, id, cal>>
    BY <1>1, <1>19 DEF ReadMore, history
  <2>2. InStep(c) /\ \A d \in Clients \ {c} : pc'[d] = "closed"
    BY <2>1, Alone
  <2>3. ~One(buf[c], id[c], cal)
    BY <2>1, OneFacts
  <2>4. Quiet(buf[c])
    BY <2>1, <2>2, <2>3 DEF InStep, Expecting, Silent
  <2>5. Quiet(input) => Quiet(buf'[c])
    BY <2>1, <2>4, QuietFacts
  <2>6. One(input, id[c], cal) => One(buf'[c], id'[c], cal')
    BY <2>1, <2>4, QuietFacts
  <2>7. Expecting(c)'
    BY <1>4, <2>1, <2>2, <2>3, <2>5, <2>6 DEF InStep, Expecting, Silent
  <2>8. InStep(c)'
    BY <2>1, <2>7 DEF InStep
  <2> QED  BY <2>1, <2>2, <2>8, Turn
<1>20. ASSUME NEW c \in Clients, Timeout(c) \/ ReadFails(c) PROVE Exclusive'
  <2>1. /\ pc[c] = "read" /\ Fails(c) /\ ~mixed /\ ~Complete(buf[c]) /\ input = <<>>
        /\ pend' = <<>> \/ (pend' = pend /\ mixed' = (mixed \/ pend # <<>>))
        /\ UNCHANGED <<input, buf>>
    <3>1. CASE Timeout(c)
      <4>1. /\ pc[c] = "read" /\ Fails(c) /\ ~Complete(buf[c]) /\ input = <<>>
            /\ UNCHANGED <<input, buf>>
        BY <3>1 DEF Timeout
      <4>2. \/ pend' = <<>> /\ mixed' = mixed
            \/ (pend' = pend /\ mixed' = (mixed \/ pend # <<>>))
        BY <3>1 DEF Timeout
      <4>3. ~mixed
        BY <1>1, <4>2
      <4> QED  BY <4>1, <4>2, <4>3
    <3>2. CASE ReadFails(c)
      BY <1>1, <3>2 DEF ReadFails, unitVars
    <3> QED  BY <1>20, <3>1, <3>2
  <2>2. pend' = <<>>
    BY <2>1
  <2>3. Expecting(c)
    BY <2>1, Alone DEF InStep
  <2>4. Silent(c)'
    BY <2>1, <2>2, <2>3, NoAnswer DEF Silent
  <2> QED  BY <1>15, <2>1, <2>4
<1>22. ASSUME NEW c \in Clients, Parse(c) PROVE Exclusive'
  <2>1. /\ pc' = [pc EXCEPT ![c] = Onward(Tail(script[c].cmds), script[c].row)] /\ pc[c] = "parse"
        /\ pc'[c] = Onward(Tail(script[c].cmds), script[c].row)
        /\ line[c].kind \in Accepts(Head(script[c].cmds))
        /\ UNCHANGED <<pend, input, buf, line, id, cal, mixed>>
    BY <1>1, <1>22 DEF Parse, Go, unitVars, history
  <2>2. InStep(c) /\ \A d \in Clients \ {c} : pc'[d] = "closed"
    BY <1>1, <1>5, <2>1
  <2>3. Silent(c)' /\ Answers(line[c], id[c], cal)
    BY <2>1, <2>2 DEF InStep, Silent
  <2>4. pc'[c] \in {"send", "record", "close"}
    BY <2>1, OnwardStages
  <2>5. ASSUME pc'[c] = "record" PROVE line'[c].cal = cal'
    <3>1. Tail(script[c].cmds) = <<>> /\ script[c].row # "none"
      BY <2>1, <2>5, OnwardStages
    <3>2. script[c].cmds \in Seq(Commands) /\ script[c].cmds # <<>> /\ Honest(script[c])
      BY <1>1, <1>2, <2>1 DEF Scripts, Ready
    <3>3. Len(script[c].cmds) = 1
      <4>1. Len(Tail(script[c].cmds)) = Len(script[c].cmds) - 1 /\ Len(script[c].cmds) \in Nat
        BY <3>2
      <4>2. Len(Tail(script[c].cmds)) = 0
        BY <3>1, EmptySeq, Zenon
      <4> QED  BY <4>1, <4>2
    <3>4. Head(script[c].cmds) = "c"
      <4>1. script[c].cmds[1] = "c"
        BY <3>1, <3>2, <3>3 DEF Honest
      <4> QED  BY <3>2, <4>1
    <3>5. line[c].kind = "c"
      BY <2>1, <3>4 DEF Accepts
    <3> QED  BY <2>1, <2>3, <3>5 DEF Answers
  <2>6. InStep(c)'
    BY <2>3, <2>4, <2>5 DEF InStep
  <2> QED  BY <2>2, <2>4, <2>6, Turn
<1>23. ASSUME NEW c \in Clients, ParseFails(c) PROVE Exclusive'
  <2>1. pc[c] = "parse" /\ Fails(c) /\ mixed' = mixed /\ UNCHANGED <<pend, input, buf>>
    BY <1>23 DEF ParseFails, unitVars
  <2>2. Silent(c)'
    BY <2>1, Alone DEF InStep, Silent
  <2> QED  BY <1>15, <2>1, <2>2
<1>24. ASSUME NEW c \in Clients, Record(c) \/ RecordFails(c) PROVE Exclusive'
  <2>1. /\ pc' = [pc EXCEPT ![c] = "close"] /\ pc[c] = "record" /\ pc'[c] = "close"
        /\ mixed' = mixed /\ UNCHANGED <<pend, input, buf>>
    BY <1>1, <1>24 DEF Record, RecordFails, Go, unitVars
  <2>2. InStep(c) /\ \A d \in Clients \ {c} : pc'[d] = "closed"
    BY <1>5, <2>1
  <2>3. Silent(c)'
    BY <2>1, <2>2 DEF InStep, Silent
  <2> QED  BY <2>1, <2>2, <2>3, SilentTurn
<1>26. ASSUME NEW c \in Clients, Close(c) PROVE Exclusive'
  <2>1. /\ pc' = [pc EXCEPT ![c] = "closed"] /\ pc[c] = "close" /\ pc'[c] = "closed"
        /\ mixed' = mixed /\ pend' = pend
    BY <1>1, <1>26 DEF Close, Go, history
  <2>2. InStep(c) /\ \A d \in Clients \ {c} : pc'[d] = "closed"
    BY <1>5, <2>1
  <2>3. pend' = <<>>
    BY <2>1, <2>2 DEF InStep, Silent
  <2> QED  BY <2>1, <2>2, <2>3, Turn
<1>27. ASSUME Answer PROVE Exclusive'
  <2>1. /\ pend # <<>> /\ ~mixed /\ pend' = Tail(pend) /\ UNCHANGED <<pc, id, buf>>
    BY <1>27 DEF Answer, clientVars, history
  <2>2. PICK c \in Clients : pc[c] # "closed"
    BY <2>1 DEF Exclusive
  <2>3. InStep(c) /\ \A d \in Clients \ {c} : pc'[d] = "closed"
    BY <2>1, <2>2, Alone
  <2>4. pc[c] = "read" /\ Expecting(c)
    BY <2>1, <2>3 DEF InStep, Silent
  <2>5. PICK p \in Lines : /\ p.kind \in Commands /\ p.id = id[c] /\ pend = <<p>>
                           /\ Quiet(input) /\ Quiet(buf[c])
    BY <2>1, <2>4 DEF Expecting, Silent
  <2>6. Head(pend) = p /\ pend' = <<>>
    BY <2>1, <2>5, ShortLists
  <2> DEFINE a == IF p.kind = "c" THEN [p EXCEPT !.cal = cal] ELSE p
  <2>7. a \in Lines /\ a.kind = p.kind /\ a.id = p.id /\ (p.kind = "c" => a.cal = cal)
    BY <1>1, AnswerTypes
  <2>8. p.kind = "c" => cal' = cal
    <3>1. "c" \notin Sets
      BY DEF Sets
    <3> QED  BY <1>27, <2>6, <3>1 DEF Answer
  <2>9. input' = input \/ input' = Append(input, a)
    BY <1>27, <2>6 DEF Answer
  <2> HIDE DEF a
  <2>10. Answers(a, id'[c], cal')
    <3>1. "noise" \notin Commands
      BY DEF Commands, Sets
    <3> QED  BY <2>1, <2>5, <2>7, <2>8, <3>1 DEF Answers
  <2>11. Quiet(input') \/ One(input', id'[c], cal')
    BY <2>5, <2>7, <2>9, <2>10, QuietFacts
  <2>12. Expecting(c)'
    BY <2>1, <2>5, <2>6, <2>11 DEF Expecting, Silent
  <2>13. InStep(c)'
    BY <2>1, <2>4, <2>12 DEF InStep
  <2> QED  BY <2>1, <2>3, <2>4, <2>13, Turn
<1>28. ASSUME Babble PROVE Exclusive'
  <2>1. /\ ~mixed /\ ~NoiseLast(input) /\ input' = Append(input, Noise)
        /\ UNCHANGED <<pc, id, buf, line, pend, cal>>
    BY <1>28 DEF Babble, clientVars, history
  <2>2. PICK c \in Clients : pc[c] # "closed"
    BY <1>28 DEF Babble, Holders
  <2>3. InStep(c) /\ \A d \in Clients \ {c} : pc'[d] = "closed"
    BY <2>1, <2>2, Alone
  <2>4. Quiet(input) => Quiet(input')
    BY <2>1, QuietFacts
  <2>5. One(input, id[c], cal) => One(input', id'[c], cal')
    BY <2>1, OneFacts
  <2>6. Silent(c) => Silent(c)'
    BY <2>1, <2>4 DEF Silent
  <2>7. Expecting(c) => Expecting(c)'
    BY <2>1, <2>4, <2>5, <2>6 DEF Expecting
  <2>8. InStep(c)'
    BY <2>1, <2>3, <2>6, <2>7 DEF InStep
  <2> QED  BY <2>1, <2>2, <2>3, <2>8, Turn
<1>29. ASSUME Hangup PROVE Exclusive'
  BY <1>29 DEF Hangup, clientVars, unitVars, history, Exclusive, InStep, Expecting, Silent
<1> QED
  BY <1>10, <1>11, <1>12, <1>13, <1>16, <1>17, <1>18, <1>19, <1>20, <1>22, <1>23,
     <1>24, <1>26, <1>27, <1>28, <1>29
  DEF Next, Client

LEMMA ExclusiveStays == Inv /\ Exclusive /\ [Next]_vars => Exclusive'
<1> SUFFICES ASSUME Inv, Exclusive, [Next]_vars PROVE Exclusive'
  OBVIOUS
<1>1. CASE Next
  BY <1>1, InvStep, ExclusiveStep
<1>2. CASE UNCHANGED vars
  BY <1>2 DEF vars, clientVars, unitVars, history, bounds, Exclusive, InStep, Expecting, Silent
<1> QED  BY <1>1, <1>2

LEMMA StartsInStep == Init => Exclusive
BY DEF Init, Exclusive

(* An answer a parser accepts is the answer to the command just sent, for  *)
(* every way a timeout, a burst of noise, a hangup or a session that was   *)
(* given up may leave the link, as long as answers cannot be mixed up.     *)
THEOREM AnswersInStep == Spec => []OwnAnswer
<1>1. Inv /\ Exclusive => OwnAnswer
  <2> SUFFICES ASSUME Exclusive, NEW c \in Clients, ~mixed, pc[c] = "parse"
               PROVE  line[c].id = id[c]
    BY DEF OwnAnswer
  <2> QED  BY Alone DEF InStep, Answers
<1>2. Init => Inv /\ Exclusive
  BY StartsRight, StartsInStep
<1>3. Inv /\ Exclusive /\ [Next]_vars => (Inv /\ Exclusive)'
  BY InvStep, ExclusiveStays
<1> QED  BY <1>1, <1>2, <1>3, PTL DEF Spec

-----------------------------------------------------------------------------
(* The audit trail.                                                        *)

Busy == {"send", "read", "parse", "record"}

(* A session that sets values is under way.                                *)
Setting == \E c \in Clients : pc[c] \in Busy /\ script[c].row = "config_change"

(* No command the unit has yet to carry out changes it.                    *)
NoSets == \A i \in DOMAIN pend : pend[i].kind \notin Sets

Trail == ~cut => Setting \/ (log = cal /\ NoSets)

LEMMA TrailMoves ==
  ASSUME NEW c \in Clients, Trail, ~cut, log' = log, cal' = cal,
         \A d \in Clients \ {c} : pc'[d] = pc[d] /\ script'[d] = script[d],
         pc[c] \in Busy /\ script[c].row = "config_change" =>
           pc'[c] \in Busy /\ script'[c].row = "config_change",
         ~Setting /\ NoSets => NoSets'
  PROVE  Trail'
<1>1. CASE Setting
  <2>1. PICK d \in Clients : pc[d] \in Busy /\ script[d].row = "config_change"
    BY <1>1 DEF Setting
  <2>2. pc'[d] \in Busy /\ script'[d].row = "config_change"
    <3>1. CASE d = c
      BY <2>1, <3>1
    <3>2. CASE d # c
      <4>1. pc'[d] = pc[d] /\ script'[d] = script[d]
        BY <3>2
      <4> QED  BY <2>1, <4>1
    <3> QED  BY <3>1, <3>2
  <2>3. Setting'
    BY <2>2 DEF Setting, Busy
  <2> QED  BY <2>3 DEF Trail
<1>2. CASE ~Setting
  BY <1>2 DEF Trail
<1> QED  BY <1>1, <1>2

LEMMA TrailStep ==
  ASSUME Inv, Exclusive, Trail, Next
  PROVE  Trail'
<1> SUFFICES ASSUME ~cut' PROVE Trail'
  BY DEF Trail
<1>1. /\ pc \in [Clients -> Stages] /\ script \in [Clients -> Scripts]
      /\ pend \in Seq(Lines) /\ mixed \in BOOLEAN /\ cut \in BOOLEAN /\ sent \in Nat
  BY DEF Inv, TypeOK, Stages
<1>2. \A c \in Clients : Ready(c)
  BY DEF Inv, Stage
<1>3. pend' = pend => (NoSets => NoSets')
  BY DEF NoSets
<1>4. pend' = <<>> => NoSets'
  BY DEF NoSets
<1>5. Busy = {"send", "read", "parse", "record"}
  BY DEF Busy
<1>10. ASSUME NEW c \in Clients, Open(c) \/ Connect(c) PROVE Trail'
  <2>1. PICK s \in ScriptsOf[c] : script' = [script EXCEPT ![c] = s]
    BY <1>10 DEF Open, Connect
  <2>2. \E p : pc' = [pc EXCEPT ![c] = p]
    BY <1>10 DEF Open, Connect, Go
  <2>3. pc[c] = "closed" /\ UNCHANGED <<pend, log, cal, cut>>
    BY <1>10 DEF Open, Connect, Holders, unitVars
  <2>4. \A d \in Clients \ {c} : pc'[d] = pc[d] /\ script'[d] = script[d]
    BY <1>1, <2>1, <2>2
  <2> QED  BY <1>3, <1>5, <2>3, <2>4, TrailMoves
<1>12. ASSUME NEW c \in Clients, Claim(c) \/ ConfigureFails(c) PROVE Trail'
  <2>1. \E p : pc' = [pc EXCEPT ![c] = p]
    BY <1>12 DEF Claim, ConfigureFails, Go
  <2>2. pc[c] \in {"opened", "claimed"} /\ UNCHANGED <<pend, log, cal, cut, script>>
    BY <1>12 DEF Claim, ConfigureFails, unitVars, history
  <2>3. \A d \in Clients \ {c} : pc'[d] = pc[d] /\ script'[d] = script[d]
    BY <1>1, <2>1, <2>2
  <2> QED  BY <1>3, <1>5, <2>2, <2>3, TrailMoves
<1>13. ASSUME NEW c \in Clients, Flush(c) PROVE Trail'
  <2>1. \E p : pc' = [pc EXCEPT ![c] = p]
    BY <1>13 DEF Flush, Go
  <2>2. pc[c] = "claimed" /\ UNCHANGED <<log, cal, cut, script>>
    BY <1>13 DEF Flush
  <2>3. PICK n \in 0..Len(pend) : pend' = SubSeq(pend, 1, n)
    BY <1>13 DEF Flush
  <2>4. NoSets => NoSets'
    BY <1>1, <2>3, Front DEF NoSets
  <2>5. \A d \in Clients \ {c} : pc'[d] = pc[d] /\ script'[d] = script[d]
    BY <1>1, <2>1, <2>2
  <2> QED  BY <1>5, <2>2, <2>4, <2>5, TrailMoves
<1>15. ASSUME NEW c \in Clients, pc[c] \in {"send", "read", "parse"}, Fails(c), pend' \in {pend, <<>>},
              log' = log, cal' = cal
       PROVE  Trail'
  <2>1. ~cut /\ script[c].row # "config_change"
    BY <1>1, <1>15 DEF Fails
  <2>2. \A d \in Clients \ {c} : pc'[d] = pc[d] /\ script'[d] = script[d]
    BY <1>15, AfterFails
  <2>3. NoSets => NoSets'
    BY <1>3, <1>4, <1>15
  <2> QED  BY <1>15, <2>1, <2>2, <2>3, TrailMoves
<1>16. ASSUME NEW c \in Clients, Send(c) PROVE Trail'
  <2> DEFINE p == [Noise EXCEPT !.kind = Head(script[c].cmds), !.id = sent']
  <2>1. /\ pc' = [pc EXCEPT ![c] = "read"] /\ pc[c] = "send" /\ pc'[c] = "read"
        /\ UNCHANGED <<log, cal, cut, script>> /\ pend' = Append(pend, p) /\ sent' = sent + 1
    BY <1>1, <1>16 DEF Send, Go
  <2>2. script[c] \in Scripts /\ script[c].cmds # <<>> /\ Honest(script[c])
    BY <1>1, <1>2, <2>1 DEF Ready
  <2>3. p \in Lines /\ p.kind = Head(script[c].cmds)
    <3>1. Head(script[c].cmds) \in Commands
      BY <2>2, ScriptTail
    <3>2. sent' \in Nat
      BY <1>1, <2>1
    <3> QED  BY <3>1, <3>2, AnswerTypes
  <2>4. ASSUME ~Setting PROVE p.kind \notin Sets
    <3>1. script[c].row # "config_change"
      BY <1>5, <2>1, <2>4 DEF Setting
    <3>2. script[c].cmds \in Seq(Commands)
      BY <2>2 DEF Scripts
    <3>3. 1 \in DOMAIN script[c].cmds /\ Head(script[c].cmds) = script[c].cmds[1]
      BY <2>2, <3>2
    <3> QED  BY <2>2, <2>3, <3>1, <3>3 DEF Honest
  <2> HIDE DEF p
  <2>5. ~Setting /\ NoSets => NoSets'
    BY <1>1, <2>1, <2>3, <2>4 DEF NoSets
  <2>6. \A d \in Clients \ {c} : pc'[d] = pc[d] /\ script'[d] = script[d]
    BY <1>1, <2>1
  <2> QED  BY <1>5, <2>1, <2>5, <2>6, TrailMoves
<1>17. ASSUME NEW c \in Clients, SendFails(c) PROVE Trail'
  BY <1>15, <1>17 DEF SendFails, unitVars
<1>18. ASSUME NEW c \in Clients, ReadLine(c) \/ ReadMore(c) PROVE Trail'
  <2>1. /\ pc' = [pc EXCEPT ![c] = pc'[c]] /\ pc'[c] \in {"read", "parse"}
        /\ UNCHANGED <<pend, log, cal, cut, script>>
    BY <1>1, <1>18 DEF ReadLine, ReadMore, Go, unitVars, history
  <2>2. \A d \in Clients \ {c} : pc'[d] = pc[d] /\ script'[d] = script[d]
    BY <1>1, <2>1
  <2> QED  BY <1>3, <1>5, <2>1, <2>2, TrailMoves
<1>20. ASSUME NEW c \in Clients, Timeout(c) PROVE Trail'
  BY <1>15, <1>20 DEF Timeout
<1>21. ASSUME NEW c \in Clients, ReadFails(c) PROVE Trail'
  BY <1>15, <1>21 DEF ReadFails, unitVars
<1>22. ASSUME NEW c \in Clients, Parse(c) PROVE Trail'
  <2> DEFINE t == [script[c] EXCEPT !.cmds = Tail(@)]
  <2>1. /\ pc' = [pc EXCEPT ![c] = Onward(Tail(script[c].cmds), script[c].row)]
        /\ script' = [script EXCEPT ![c] = t] /\ UNCHANGED <<pend, log, cal, cut>>
    BY <1>22 DEF Parse, Go, unitVars, history
  <2>2. pc'[c] = Onward(Tail(script[c].cmds), script[c].row) /\ script'[c].row = script[c].row
    <3>1. script[c] \in Scripts /\ script'[c] = t
      BY <1>1, <2>1
    <3>2. t.row = script[c].row
      BY <3>1 DEF Scripts
    <3> QED  BY <1>1, <2>1, <3>1, <3>2
  <2> HIDE DEF t
  <2>3. script[c].row = "config_change" => pc'[c] \in {"send", "record"}
    BY <2>2 DEF Onward
  <2>4. \A d \in Clients \ {c} : pc'[d] = pc[d] /\ script'[d] = script[d]
    BY <1>1, <2>1
  <2> QED  BY <1>3, <1>5, <2>1, <2>2, <2>3, <2>4, TrailMoves
<1>23. ASSUME NEW c \in Clients, ParseFails(c) PROVE Trail'
  BY <1>15, <1>23 DEF ParseFails, unitVars
<1>24. ASSUME NEW c \in Clients, Record(c) PROVE Trail'
  <2>1. ~mixed /\ pc[c] = "record" /\ log' = line[c].cal /\ UNCHANGED <<pend, cal>>
    BY <1>24 DEF Record, Row, unitVars
  <2>2. line[c].cal = cal /\ pend = <<>>
    BY <2>1, Alone DEF InStep, Silent
  <2> QED  BY <1>4, <2>1, <2>2 DEF Trail
<1>25. ASSUME NEW c \in Clients, RecordFails(c) PROVE Trail'
  <2>1. pc' = [pc EXCEPT ![c] = "close"] /\ UNCHANGED <<pend, log, cal, script>>
    BY <1>25 DEF RecordFails, Go, unitVars
  <2>2. ~cut /\ script[c].row # "config_change"
    BY <1>1, <1>25 DEF RecordFails
  <2>3. \A d \in Clients \ {c} : pc'[d] = pc[d] /\ script'[d] = script[d]
    BY <1>1, <2>1
  <2> QED  BY <1>3, <2>1, <2>2, <2>3, TrailMoves
<1>26. ASSUME NEW c \in Clients, Close(c) PROVE Trail'
  <2>1. /\ pc' = [pc EXCEPT ![c] = "closed"] /\ script' = [script EXCEPT ![c] = Closed]
        /\ pc[c] = "close" /\ UNCHANGED <<pend, log, cal, cut>>
    BY <1>26 DEF Close, Go, history
  <2>2. \A d \in Clients \ {c} : pc'[d] = pc[d] /\ script'[d] = script[d]
    BY <1>1, <2>1
  <2> QED  BY <1>3, <1>5, <2>1, <2>2, TrailMoves
<1>27. ASSUME Answer PROVE Trail'
  <2>1. /\ pend # <<>> /\ pend' = Tail(pend) /\ UNCHANGED <<pc, script, log, cut>>
        /\ Head(pend).kind \notin Sets => cal' = cal
    BY <1>27 DEF Answer, clientVars, history
  <2>2. CASE Setting
    BY <2>1, <2>2 DEF Setting, Trail
  <2>3. CASE ~Setting
    <3>1. log = cal /\ NoSets
      BY <2>1, <2>3 DEF Trail
    <3>2. /\ 1 \in DOMAIN pend /\ Head(pend) = pend[1]
          /\ \A i \in DOMAIN Tail(pend) : i + 1 \in DOMAIN pend /\ Tail(pend)[i] = pend[i + 1]
      BY <1>1, <2>1
    <3>3. cal' = cal
      BY <2>1, <3>1, <3>2 DEF NoSets
    <3>4. NoSets'
      BY <2>1, <3>1, <3>2 DEF NoSets
    <3> QED  BY <2>1, <3>1, <3>3, <3>4 DEF Trail
  <2> QED  BY <2>2, <2>3
<1>28. ASSUME Babble \/ Hangup PROVE Trail'
  BY <1>28 DEF Babble, Hangup, clientVars, unitVars, history, Trail, Setting, NoSets
<1> QED
  BY <1>10, <1>12, <1>13, <1>16, <1>17, <1>18, <1>20, <1>21, <1>22, <1>23,
     <1>24, <1>25, <1>26, <1>27, <1>28
  DEF Next, Client

(* When nobody is talking to the unit config_log shows the values it       *)
(* holds, unless a session that sets values was cut short or a row was     *)
(* taken while answers could be mixed up: no other path of any handler,    *)
(* tool or worker changes the unit without its row.                        *)
THEOREM LogShowsTheUnit == Spec => []AuditTrail
<1>1. Trail => AuditTrail
  <2> SUFFICES ASSUME Trail, Holders = {}, ~cut PROVE log = cal
    BY DEF AuditTrail
  <2>1. ~Setting
    BY DEF Holders, Setting, Busy
  <2> QED  BY <2>1 DEF Trail
<1>2. Init => Inv /\ Exclusive /\ Trail
  <2>1. Init => Trail
    BY DEF Init, Trail, NoSets
  <2> QED  BY <2>1, StartsRight, StartsInStep
<1>3. Inv /\ Exclusive /\ Trail /\ [Next]_vars => (Inv /\ Exclusive /\ Trail)'
  <2> SUFFICES ASSUME Inv, Exclusive, Trail, [Next]_vars PROVE Trail'
    BY InvStep, ExclusiveStays
  <2>1. CASE Next
    BY <2>1, TrailStep
  <2>2. CASE UNCHANGED vars
    BY <2>2 DEF vars, clientVars, unitVars, history, Trail, Setting, NoSets
  <2> QED  BY <2>1, <2>2
<1> QED  BY <1>1, <1>2, <1>3, PTL DEF Spec
=============================================================================
