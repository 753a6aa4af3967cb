------------------------ MODULE MonthlyExportProofs ------------------------
(***************************************************************************)
(* Proofs about the monthly export (MonthlyExport): any number of runners, *)
(* any length of a month, any clock bound and timezones.                   *)
(*                                                                         *)
(* Everything rests on two ideas.  A second that lies in the past (Past)   *)
(* gets no new reading, so what a run has seen of it stays complete but    *)
(* for pruning.  And every watermark a run may have started from, or may   *)
(* be about to write, is one at which the files are complete (CompleteAt), *)
(* but for the months that run still has to rebuild.                       *)
(***************************************************************************)
EXTENDS MonthlyExport, TLAPS, NaturalsInduction, WellFoundedInduction, SequenceTheorems

(* Seconds at which no further reading will be stored. *)
Past == {t \in Times : t < clock \/ t \in readings}

(* Past its query. *)
Busy(r) == pc[r] \notin {"idle", "query", "done"}

(* The type invariant proper: TypeOK does not say that file is a function. *)
TypeInv == TypeOK /\ file \in [Months -> Seq(SUBSET Times)]

(* What is stored, known or published is of the past. *)
PastInv ==
  /\ \A t \in readings : t <= clock
  /\ wm \in Past \cup {0}
  /\ \A r \in Runners : /\ cur[r] \in Past \cup {0} /\ newest[r] \in Past \cup {0}
                        /\ rows[r] \subseteq Past
  /\ \A m \in Months : \A i \in DOMAIN file[m] : file[m][i] \subseteq Past

(* Where a run can be, and what it then has to do. *)
StageInv ==
  /\ dest # "outbox" => ~unflushed
  /\ \A r \in Runners :
       /\ Busy(r) => cur[r] < newest[r]
       /\ Busy(r) /\ pc[r] # "mark" => todo[r] # {}
       /\ pc[r] = "mark" => todo[r] = {}
       /\ dest = "outbox" => pc[r] \notin {"sign", "search", "upload"}
       /\ dest # "outbox" => pc[r] \notin {"open", "write", "close"}

(* As long as no two runs cross, no two have one month in hand, and the    *)
(* file a run found is the only one.                                       *)
HandInv == ~crossed =>
  /\ \A r, o \in Runners : r # o /\ InHand(r) /\ InHand(o) => This(r) # This(o)
  /\ \A m \in Months : Len(file[m]) <= 1
  /\ \A r \in Runners : pc[r] = "upload" => found[r] = Len(file[This(r)])
  /\ \A r \in Runners : pc[r] \in {"write", "close"} => Len(file[This(r)]) = 1

ZoneInv == ~rezoned => \A r \in Runners : Busy(r) => tz[r] = zone

(* With a watermark at w, nothing would be missing. *)
CompleteAt(w) ==
  \A t \in readings : t <= w =>
    t \in Published \/ \E u \in readings : u > w /\ MonthOf(u, zone) = MonthOf(t, zone)

(* The months run r has yet to publish. *)
Left(r) == IF pc[r] = "log" THEN todo[r] \ {This(r)} ELSE todo[r]

AtMark == CompleteAt(wm)

AtCopies == \A r \in Runners : CompleteAt(cur[r])

(* Up to its watermark to be, what run r does not find published it has    *)
(* still to rebuild.                                                       *)
Pending ==
  \A r \in Runners : Busy(r) =>
    \A t \in readings : t <= newest[r] => t \in Published \/ MonthOf(t, zone) \in Left(r)

(* A month is rebuilt because of a reading newer than the copy, or because *)
(* of readings that are all gone.                                          *)
Newer ==
  \A r \in Runners : Busy(r) =>
    \A t \in readings : t <= cur[r] /\ MonthOf(t, zone) \in todo[r] =>
      \E u \in readings : u > cur[r] /\ MonthOf(u, zone) = MonthOf(t, zone)

(* The rows in hand hold what they will replace. *)
RowsCover ==
  \A r \in Runners : InHand(r) =>
    \A t \in readings :
      MonthOf(t, zone) = This(r) /\ (t <= newest[r] \/ t \in Published) => t \in rows[r]

(* An outbox file about to be filled. *)
Torn == \A r \in Runners : pc[r] = "write" => file[This(r)] = <<{}>>

(* Runs that write into an outbox do so one after the other, each from the *)
(* watermark of the one before.                                            *)
Filling == {"write", "close", "log", "mark"}
OneByOne ==
  dest = "outbox" => \A r \in Runners :
    /\ cur[r] <= wm
    /\ pc[r] \in Filling => wm <= cur[r] /\ \A o \in Runners \ {r} : pc[o] \notin Filling

Filed == AtMark /\ AtCopies /\ Pending /\ Newer /\ RowsCover /\ Torn /\ OneByOne

Clean == ~unflushed /\ ~rezoned /\ ~crossed

FileInv == Clean => Filed

Base == TypeInv /\ PastInv /\ StageInv /\ HandInv /\ ZoneInv

-----------------------------------------------------------------------------
(* Months.                                                                 *)

LEMMA Constants ==
  /\ MonthLen \in Nat \ {0} /\ MaxTime \in Nat \ {0} /\ MaxFiles \in Nat \ {0}
  /\ MaxZone \in Nat /\ RunNow \subseteq Runners
  /\ Times \subseteq Nat \ {0} /\ Zones \subseteq Nat /\ 0 \in Zones /\ 1 \in Times
BY MonthlyAssumption DEF Times, Zones

(* Integer division, in both directions. *)
LEMMA Division ==
  ASSUME NEW a \in Int
  PROVE  /\ a \div MonthLen \in Int
         /\ (a \div MonthLen) * MonthLen <= a /\ a < (a \div MonthLen) * MonthLen + MonthLen
         /\ \A q \in Int : q * MonthLen <= a /\ a < q * MonthLen + MonthLen => a \div MonthLen = q
<1>1. a \div MonthLen \in Int
  BY Constants
<1>2. (a \div MonthLen) * MonthLen <= a /\ a < (a \div MonthLen) * MonthLen + MonthLen
  BY Constants
<1>3. ASSUME NEW q \in Int, q * MonthLen <= a, a < q * MonthLen + MonthLen
      PROVE  a \div MonthLen = q
  BY <1>3, Constants
<1> QED BY <1>1, <1>2, <1>3

LEMMA MonthTypes ==
  /\ \A t \in Times, z \in Zones : MonthOf(t, z) \in Months
  /\ Months \subseteq Nat
<1>1. ASSUME NEW t \in Times, NEW z \in Zones PROVE MonthOf(t, z) \in Nat
  <2>1. t - 1 + z \in Nat
    BY Constants
  <2>2. (t - 1 + z) \div MonthLen \in Nat
    BY <2>1, Constants
  <2> QED BY <2>2 DEF MonthOf
<1> QED BY <1>1 DEF Months

(* Every nonempty set of naturals has a least element. *)
LEMMA LeastExists == ASSUME NEW T \in SUBSET Nat, T # {} PROVE \E x \in T : \A y \in T : x <= y
<1>1. PICK x \in T : \A y \in T : <<y, x>> \notin OpToRel(<, Nat)
  BY WFMin, NatLessThanWellFounded
<1>2. \A y \in T : ~(y < x)
  BY <1>1 DEF OpToRel
<1>3. \A y \in T : x <= y
  BY <1>2
<1> QED BY <1>3

(* The month being rebuilt is one of those to rebuild. *)
LEMMA ThisIsLeft ==
  ASSUME NEW r \in Runners, todo[r] \subseteq Months, todo[r] # {}
  PROVE  This(r) \in todo[r] /\ This(r) \in Months /\ This(r) \in Nat
<1>1. \E m \in todo[r] : \A n \in todo[r] : m <= n
  BY LeastExists, MonthTypes
<1> QED BY <1>1, MonthTypes DEF This

(* A month's file bears its name: the local month of its last second is    *)
(* that month.                                                             *)
LEMMA NameOfThis ==
  ASSUME NEW r \in Runners, This(r) \in Nat, tz[r] \in Zones
  PROVE  FileName(r) = This(r)
<1> DEFINE m == This(r)  z == tz[r]
<1>1. m \in Int /\ z \in Int /\ MonthLen \in Nat \ {0} /\ m * MonthLen \in Int
  <2>1. \A x \in Zones : x \in Int
    BY Constants
  <2>2. m \in Int /\ z \in Int
    BY <2>1
  <2> HIDE DEF m, z
  <2> QED BY <2>2, Constants
<1>2. (m + 1) * MonthLen = m * MonthLen + MonthLen
  BY <1>1
<1>3. MonthEnd(m, z) - 1 + z = m * MonthLen + MonthLen - 1
  BY <1>1, <1>2 DEF MonthEnd
<1>4. m * MonthLen + MonthLen - 1 \in Int
  BY <1>1
<1>5. (m * MonthLen + MonthLen - 1) \div MonthLen = m
  BY <1>1, <1>4, Division
<1> QED BY <1>3, <1>5 DEF FileName, MonthOf

(* The rows of a month are the readings of that local month, no second of  *)
(* it missing and none of the next.                                        *)
LEMMA RowsOfMonth ==
  ASSUME NEW r \in Runners, This(r) \in Nat, tz[r] \in Zones, readings \subseteq Times,
         NEW t \in readings
  PROVE  t \in Rows(r) <=> MonthOf(t, tz[r]) = This(r)
<1> DEFINE m == This(r)  z == tz[r]  a == t - 1 + z
<1>1. m \in Int /\ z \in Int /\ t \in Int /\ a \in Int /\ MonthLen \in Nat \ {0}
      /\ m * MonthLen \in Int
  <2>1. (\A x \in Zones : x \in Int) /\ \A x \in Times : x \in Int
    BY Constants
  <2>2. m \in Int /\ z \in Int /\ t \in Int
    BY <2>1
  <2> HIDE DEF m, z
  <2> QED BY <2>2, Constants
<1>2. (m + 1) * MonthLen = m * MonthLen + MonthLen
  BY <1>1
<1>3. t \in Rows(r) <=> m * MonthLen <= a /\ a < m * MonthLen + MonthLen
  BY <1>1, <1>2 DEF Rows, MonthStart, MonthEnd
<1>4. a \div MonthLen = m <=> m * MonthLen <= a /\ a < m * MonthLen + MonthLen
  BY <1>1, Division
<1> QED BY <1>3, <1>4 DEF MonthOf

-----------------------------------------------------------------------------
(* Steps.                                                                  *)

RunnerStep(r) == RunExport(r) \/ WriteFails(r) \/ FlushFails(r) \/ UploadFails(r) \/ Throws(r)

(* The database, the clock and the user. *)
EnvStep ==
  \/ Tick \/ StoreReading \/ HealthChanges
  \/ \E b \in Times : Prune(b)
  \/ \E z \in Zones : EditZone(z)

LEMMA StepKinds ==
  [Next]_vars => EnvStep \/ Crash \/ (\E r \in Runners : RunnerStep(r)) \/ UNCHANGED vars
BY DEF Next, EnvStep, RunnerStep

LEMMA TypeFacts ==
  ASSUME TypeInv
  PROVE  /\ clock \in Times /\ readings \subseteq Times /\ wm \in 0..MaxTime
         /\ zone \in Zones /\ file \in [Months -> Seq(SUBSET Times)]
         /\ \A m \in Months : Len(file[m]) \in 0..MaxFiles
         /\ \A r \in Runners :
              /\ pc[r] \in {"idle", "query", "build", "open", "write", "close", "sign", "search",
                            "upload", "log", "mark", "done"}
              /\ cur[r] \in 0..MaxTime /\ newest[r] \in 0..MaxTime /\ tz[r] \in Zones
              /\ todo[r] \subseteq Months /\ rows[r] \subseteq Times
              /\ found[r] \in 0..MaxFiles
<1>1. file \in [Months -> Seq(SUBSET Times)] /\ \A m \in Months : Len(file[m]) <= MaxFiles
  BY DEF TypeInv, TypeOK
<1>2. \A m \in Months : Len(file[m]) \in 0..MaxFiles
  BY <1>1, Constants
<1> QED BY <1>1, <1>2 DEF TypeInv, TypeOK

(* What the end of a run does to its runner. *)
LEMMA RunEnds ==
  ASSUME TypeInv, NEW r \in Runners, EndRun(r)
  PROVE  /\ pc'[r] \in {"idle", "done"} /\ cur'[r] = 0 /\ newest'[r] = 0 /\ tz'[r] = 0
         /\ todo'[r] = {} /\ rows'[r] = {} /\ found'[r] = 0
BY DEF TypeInv, TypeOK, EndRun, Go

(* A runner's step leaves the others' locals alone. *)
LEMMA OthersStay ==
  ASSUME TypeInv, NEW r \in Runners, RunnerStep(r), NEW o \in Runners \ {r}
  PROVE  /\ pc'[o] = pc[o] /\ cur'[o] = cur[o] /\ newest'[o] = newest[o] /\ tz'[o] = tz[o]
         /\ todo'[o] = todo[o] /\ rows'[o] = rows[o] /\ found'[o] = found[o]
<1> USE DEF TypeInv, TypeOK, Go, run
<1>1. CASE EndRun(r)
  BY <1>1 DEF EndRun
<1>2. CASE Start(r) \/ (Query(r) /\ ~EndRun(r)) \/ Build(r) \/ OpenFile(r)
  BY <1>2 DEF Start, Query, Build, OpenFile
<1>3. CASE WriteFile(r) \/ CloseFile(r) \/ FlushFails(r) \/ SignIn(r)
  BY <1>3 DEF WriteFile, CloseFile, FlushFails, SignIn
<1>4. CASE Search(r) \/ Upload(r) \/ LogMonth(r)
  BY <1>4 DEF Search, Upload, LogMonth
<1> QED BY <1>1, <1>2, <1>3, <1>4
        DEF RunnerStep, RunExport, WriteFails, UploadFails, Throws, SetWatermark

(* What it leaves alone of the rest. *)
LEMMA RestStays ==
  ASSUME NEW r \in Runners, RunnerStep(r)
  PROVE  /\ UNCHANGED <<dest, zone, clock, readings, healthy, rezoned>>
         /\ wm' = wm \/ (pc[r] = "mark" /\ EndRun(r) /\ wm' = newest[r])
         /\ (crossed => crossed') /\ (unflushed => unflushed')
<1>1. CASE Start(r) \/ WriteFile(r) \/ CloseFile(r)
  BY <1>1 DEF Start, WriteFile, CloseFile, history
<1>5. CASE Build(r) \/ OpenFile(r)
  <2>1. /\ UNCHANGED <<dest, zone, clock, readings, healthy, rezoned>>
        /\ wm' = wm /\ unflushed' = unflushed
    BY <1>5 DEF Build, OpenFile, run
  <2>2. crossed => crossed'
    BY <1>5, Zenon DEF Build, OpenFile
  <2> QED BY <2>1, <2>2
<1>4. CASE Query(r)
  BY <1>4 DEF Query, history
<1>2. CASE SignIn(r) \/ Search(r) \/ Upload(r) \/ LogMonth(r) \/ SetWatermark(r)
  BY <1>2 DEF SignIn, Search, Upload, LogMonth, SetWatermark, history
<1>3. CASE WriteFails(r) \/ FlushFails(r) \/ UploadFails(r) \/ Throws(r)
  BY <1>3 DEF WriteFails, FlushFails, UploadFails, Throws, history
<1> QED BY <1>1, <1>2, <1>3, <1>4, <1>5 DEF RunnerStep, RunExport

LEMMA EnvFrame ==
  ASSUME EnvStep
  PROVE  /\ UNCHANGED <<dest, wm, file, pc, cur, newest, tz, todo, rows, found, unflushed, crossed>>
         /\ (rezoned => rezoned') /\ (~rezoned' => zone' = zone)
BY DEF EnvStep, Tick, StoreReading, HealthChanges, Prune, EditZone, run, history

(* The same as values, for the operators that depend on todo only. *)
LEMMA ThisStays == \A r \in Runners : todo'[r] = todo[r] => This(r)' = This(r)
BY DEF This

(* In a month's files: a list of one set, or one with a set put or         *)
(* appended.                                                               *)
LEMMA ListTypes ==
  ASSUME NEW D, NEW s \in Seq(SUBSET D), NEW S \in SUBSET D
  PROVE  /\ <<S>> \in Seq(SUBSET D) /\ Len(<<S>>) = 1 /\ <<S>>[1] = S /\ DOMAIN <<S>> = {1}
         /\ Append(s, S) \in Seq(SUBSET D) /\ Len(Append(s, S)) = Len(s) + 1
         /\ \A i \in DOMAIN Append(s, S) :
              Append(s, S)[i] = S \/ (i \in DOMAIN s /\ Append(s, S)[i] = s[i])
         /\ \A i \in DOMAIN s : i \in DOMAIN Append(s, S) /\ Append(s, S)[i] = s[i]
         /\ Len(s) + 1 \in DOMAIN Append(s, S) /\ Append(s, S)[Len(s) + 1] = S
<1>1. /\ <<S>> \in Seq(SUBSET D) /\ Len(<<S>>) = 1 /\ <<S>>[1] = S /\ DOMAIN <<S>> = {1}
  OBVIOUS
<1>2. Len(s) \in Nat /\ DOMAIN s = 1..Len(s)
  BY LenProperties
<1>3. /\ Append(s, S) \in Seq(SUBSET D) /\ Len(Append(s, S)) = Len(s) + 1
      /\ \A i \in 1..Len(s) : Append(s, S)[i] = s[i]
      /\ Append(s, S)[Len(s) + 1] = S
  BY AppendProperties
<1>4. DOMAIN Append(s, S) = 1..(Len(s) + 1)
  BY <1>3, LenProperties
<1> QED BY <1>1, <1>2, <1>3, <1>4

LEMMA FunctionIsList ==
  ASSUME NEW D, NEW n \in Nat, NEW e \in [1..n -> D]
  PROVE  e \in Seq(D) /\ Len(e) = n /\ DOMAIN e = 1..n
BY SeqDef

(* The acting runner, action by action. *)
Kept(r) ==
  /\ cur'[r] = cur[r] /\ newest'[r] = newest[r] /\ tz'[r] = tz[r] /\ todo'[r] = todo[r]

Moves(r, from, to) == pc[r] = from /\ pc'[r] = to /\ Kept(r)

FreshAfter(w) == {t \in readings : t > w /\ t <= clock}

Begins(r) ==
  /\ pc[r] = "query" /\ pc'[r] = "build" /\ cur'[r] = cur[r] /\ tz'[r] = zone
  /\ newest'[r] \in FreshAfter(cur[r])
  /\ \A t \in FreshAfter(cur[r]) : t <= newest'[r]
  /\ todo'[r] = {MonthOf(t, zone) : t \in FreshAfter(cur[r])}

LEMMA QuietMoves ==
  ASSUME TypeInv, NEW r \in Runners
  PROVE  /\ Start(r) => /\ pc[r] = "idle" /\ pc'[r] = "query" /\ cur'[r] = wm
                        /\ rows'[r] = rows[r] /\ newest'[r] = newest[r] /\ tz'[r] = tz[r]
                        /\ todo'[r] = todo[r] /\ found'[r] = found[r]
         /\ Query(r) => /\ pc[r] = "query"
                        /\ EndRun(r) \/ (Begins(r) /\ rows'[r] = rows[r] /\ found'[r] = found[r])
         /\ SignIn(r) => Moves(r, "sign", "search") /\ rows'[r] = rows[r] /\ found'[r] = found[r]
         /\ Search(r) => /\ Moves(r, "search", "upload") /\ rows'[r] = rows[r]
                         /\ \/ file[FileName(r)] = << >> /\ found'[r] = 0
                            \/ found'[r] \in DOMAIN file[FileName(r)]
         /\ LogMonth(r) => /\ pc[r] = "log" /\ pc'[r] = IF todo'[r] = {} THEN "mark" ELSE "build"
                           /\ cur'[r] = cur[r] /\ newest'[r] = newest[r] /\ tz'[r] = tz[r]
                           /\ todo'[r] = todo[r] \ {This(r)} /\ rows'[r] = {} /\ found'[r] = 0
         /\ SetWatermark(r) => pc[r] = "mark" /\ EndRun(r) /\ wm' = newest[r]
         /\ Throws(r) => EndRun(r)
         /\ Start(r) \/ Query(r) \/ SignIn(r) \/ Search(r) \/ LogMonth(r) \/ SetWatermark(r) \/ Throws(r)
              => file' = file /\ unflushed' = unflushed /\ crossed' = crossed
<1> USE DEF TypeInv, TypeOK, Go, run, history, Moves, Kept
<1>1. ASSUME Start(r)
      PROVE  /\ pc[r] = "idle" /\ pc'[r] = "query" /\ cur'[r] = wm
             /\ rows'[r] = rows[r] /\ newest'[r] = newest[r] /\ tz'[r] = tz[r]
             /\ todo'[r] = todo[r] /\ found'[r] = found[r]
             /\ file' = file /\ unflushed' = unflushed /\ crossed' = crossed
  BY <1>1 DEF Start
<1>2. ASSUME Query(r)
      PROVE  /\ pc[r] = "query"
             /\ EndRun(r) \/ (Begins(r) /\ rows'[r] = rows[r] /\ found'[r] = found[r])
             /\ file' = file /\ unflushed' = unflushed /\ crossed' = crossed
  <2>1. CASE EndRun(r)
    BY <1>2, <2>1 DEF Query
  <2>2. CASE ~EndRun(r)
    BY <1>2, <2>2 DEF Query, Begins, FreshAfter
  <2> QED BY <2>1, <2>2
<1>3. ASSUME SignIn(r)
      PROVE  /\ Moves(r, "sign", "search") /\ rows'[r] = rows[r] /\ found'[r] = found[r]
             /\ file' = file /\ unflushed' = unflushed /\ crossed' = crossed
  BY <1>3 DEF SignIn
<1>4. ASSUME Search(r)
      PROVE  /\ Moves(r, "search", "upload") /\ rows'[r] = rows[r]
             /\ \/ file[FileName(r)] = << >> /\ found'[r] = 0
                \/ found'[r] \in DOMAIN file[FileName(r)]
             /\ file' = file /\ unflushed' = unflushed /\ crossed' = crossed
  BY <1>4 DEF Search
<1>5. ASSUME LogMonth(r)
      PROVE  /\ pc[r] = "log" /\ pc'[r] = IF todo'[r] = {} THEN "mark" ELSE "build"
             /\ cur'[r] = cur[r] /\ newest'[r] = newest[r] /\ tz'[r] = tz[r]
             /\ todo'[r] = todo[r] \ {This(r)} /\ rows'[r] = {} /\ found'[r] = 0
             /\ file' = file /\ unflushed' = unflushed /\ crossed' = crossed
  BY <1>5 DEF LogMonth
<1>6. ASSUME SetWatermark(r)
      PROVE  /\ pc[r] = "mark" /\ EndRun(r) /\ wm' = newest[r]
             /\ file' = file /\ unflushed' = unflushed /\ crossed' = crossed
  BY <1>6 DEF SetWatermark
<1>7. ASSUME Throws(r)
      PROVE  /\ EndRun(r)
             /\ file' = file /\ unflushed' = unflushed /\ crossed' = crossed
  BY <1>7 DEF Throws
<1> QED BY <1>1, <1>2, <1>3, <1>4, <1>5, <1>6, <1>7

LEMMA FileMoves ==
  ASSUME TypeInv, NEW r \in Runners
  PROVE  /\ Build(r) => /\ Moves(r, "build", IF dest = "outbox" THEN "open" ELSE "sign")
                        /\ rows'[r] = Rows(r) /\ found'[r] = found[r]
                        /\ file' = file /\ unflushed' = unflushed
                        /\ ~crossed' => \A o \in Runners \ {r} : ~(InHand(o) /\ This(o) = This(r))
         /\ OpenFile(r) => /\ Moves(r, "open", "write") /\ rows'[r] = rows[r] /\ found'[r] = found[r]
                           /\ unflushed' = unflushed
                           /\ ~crossed' => /\ ~(cur[r] < wm)
                                           /\ \A o \in Runners \ {r} : ~Busy(o)
         /\ WriteFile(r) => Moves(r, "write", "close") /\ rows'[r] = rows[r] /\ found'[r] = found[r]
         /\ CloseFile(r) => Moves(r, "close", "log") /\ rows'[r] = rows[r] /\ found'[r] = found[r]
         /\ FlushFails(r) => /\ Moves(r, "close", "log") /\ rows'[r] = rows[r] /\ found'[r] = found[r]
                             /\ unflushed' = TRUE /\ file' = file
         /\ Upload(r) => Moves(r, "upload", "log") /\ rows'[r] = rows[r] /\ found'[r] = found[r]
         /\ WriteFails(r) => pc[r] = "write" /\ EndRun(r)
         /\ UploadFails(r) => pc[r] = "upload" /\ EndRun(r)
         /\ WriteFile(r) \/ CloseFile(r) \/ Upload(r) \/ WriteFails(r) \/ UploadFails(r)
              => unflushed' = unflushed
         /\ WriteFile(r) \/ CloseFile(r) \/ Upload(r) \/ WriteFails(r) \/ UploadFails(r) \/ FlushFails(r)
              => crossed' = crossed
<1> USE DEF TypeInv, TypeOK, Go, run, history, Moves, Kept
<1>1. ASSUME Build(r)
      PROVE  /\ Moves(r, "build", IF dest = "outbox" THEN "open" ELSE "sign")
             /\ rows'[r] = Rows(r) /\ found'[r] = found[r]
             /\ file' = file /\ unflushed' = unflushed
             /\ ~crossed' => \A o \in Runners \ {r} : ~(InHand(o) /\ This(o) = This(r))
  <2>1. /\ Moves(r, "build", IF dest = "outbox" THEN "open" ELSE "sign")
        /\ rows'[r] = Rows(r) /\ found'[r] = found[r] /\ file' = file /\ unflushed' = unflushed
    BY <1>1 DEF Build, Content, Destination
  <2>2. ~crossed' => \A o \in Runners \ {r} : ~(InHand(o) /\ This(o) = This(r))
    BY <1>1, Zenon DEF Build
  <2> QED BY <2>1, <2>2
<1>2. ASSUME OpenFile(r)
      PROVE  /\ Moves(r, "open", "write") /\ rows'[r] = rows[r] /\ found'[r] = found[r]
             /\ unflushed' = unflushed
             /\ ~crossed' => ~(cur[r] < wm) /\ \A o \in Runners \ {r} : ~Busy(o)
  <2>1. /\ Moves(r, "open", "write") /\ rows'[r] = rows[r] /\ found'[r] = found[r]
        /\ unflushed' = unflushed
    BY <1>2 DEF OpenFile
  <2>2. ~crossed' => ~(cur[r] < wm) /\ \A o \in Runners \ {r} : ~Busy(o)
    BY <1>2, Zenon DEF OpenFile, Busy
  <2> QED BY <2>1, <2>2
<1>3. ASSUME WriteFile(r) \/ CloseFile(r) \/ Upload(r)
      PROVE  /\ WriteFile(r) => Moves(r, "write", "close")
             /\ CloseFile(r) => Moves(r, "close", "log")
             /\ Upload(r) => Moves(r, "upload", "log")
             /\ rows'[r] = rows[r] /\ found'[r] = found[r]
             /\ unflushed' = unflushed /\ crossed' = crossed
  BY <1>3 DEF WriteFile, CloseFile, Upload
<1>4. ASSUME FlushFails(r)
      PROVE  /\ Moves(r, "close", "log") /\ rows'[r] = rows[r] /\ found'[r] = found[r]
             /\ unflushed' = TRUE /\ file' = file /\ crossed' = crossed
  BY <1>4 DEF FlushFails
<1>5. ASSUME WriteFails(r) \/ UploadFails(r)
      PROVE  /\ WriteFails(r) => pc[r] = "write"
             /\ UploadFails(r) => pc[r] = "upload"
             /\ EndRun(r) /\ unflushed' = unflushed /\ crossed' = crossed
  BY <1>5 DEF WriteFails, UploadFails
<1> QED BY <1>1, <1>2, <1>3, <1>4, <1>5

-----------------------------------------------------------------------------
(* What a step does to the files.                                          *)

LEMMA MonthInHand ==
  ASSUME TypeInv, StageInv, NEW r \in Runners, Busy(r), pc[r] # "mark"
  PROVE  /\ This(r) \in todo[r] /\ This(r) \in Months /\ This(r) \in Nat
         /\ FileName(r) = This(r)
<1>1. todo[r] # {} /\ todo[r] \subseteq Months /\ tz[r] \in Zones
  BY TypeFacts DEF StageInv
<1>2. This(r) \in todo[r] /\ This(r) \in Months /\ This(r) \in Nat
  BY <1>1, ThisIsLeft
<1> QED BY <1>1, <1>2, NameOfThis

LEMMA HandsBusy == \A r \in Runners : InHand(r) => Busy(r) /\ pc[r] # "mark" /\ pc[r] # "log"
BY DEF InHand, Busy

(* The month's list of files becomes s. *)
Becomes(r, s) == file' = [file EXCEPT ![This(r)] = s]

Sent(r) ==
  \/ found[r] # 0 /\ Becomes(r, [file[This(r)] EXCEPT ![found[r]] = rows[r]])
  \/ /\ found[r] = 0 /\ Len(file[This(r)]) < MaxFiles
     /\ Becomes(r, Append(file[This(r)], rows[r]))

LEMMA FileEffects ==
  ASSUME TypeInv, StageInv, NEW r \in Runners
  PROVE  /\ OpenFile(r) => Becomes(r, <<{}>>)
         /\ WriteFile(r) \/ WriteFails(r) => \E S \in SUBSET rows[r] : Becomes(r, <<S>>)
         /\ CloseFile(r) => Becomes(r, <<rows[r]>>)
         /\ Upload(r) => Sent(r)
         /\ UploadFails(r) => Sent(r) \/ file' = file
<1>1. InHand(r) => FileName(r) = This(r)
  BY MonthInHand, HandsBusy
<1>2. OpenFile(r) => Becomes(r, <<{}>>)
  BY <1>1 DEF OpenFile, InHand, Becomes
<1>3. WriteFile(r) \/ WriteFails(r) => \E S \in SUBSET rows[r] : Becomes(r, <<S>>)
  BY <1>1 DEF WriteFile, WriteFails, InHand, Becomes
<1>4. CloseFile(r) => Becomes(r, <<rows[r]>>)
  BY <1>1 DEF CloseFile, InHand, Becomes
<1>5. pc[r] = "upload" /\ Put(r) => Sent(r)
  <2> SUFFICES ASSUME pc[r] = "upload", Put(r) PROVE Sent(r)
    OBVIOUS
  <2>1. FileName(r) = This(r)
    BY <1>1 DEF InHand
  <2> QED BY <2>1 DEF Put, Sent, Becomes
<1> QED BY <1>2, <1>3, <1>4, <1>5 DEF Upload, UploadFails

(* It touches one month's files only, those of the month in hand, and puts *)
(* nothing there but rows in hand.                                         *)
LEMMA OneFileChanges ==
  ASSUME TypeInv, StageInv, NEW r \in Runners, RunnerStep(r)
  PROVE  /\ file' \in [Months -> Seq(SUBSET Times)]
         /\ \A m \in Months :
              /\ Len(file'[m]) <= MaxFiles
              /\ file'[m] # file[m] => InHand(r) /\ m = This(r)
              /\ \A i \in DOMAIN file'[m] :
                   \/ InHand(r) /\ file'[m][i] \subseteq rows[r]
                   \/ i \in DOMAIN file[m] /\ file'[m][i] = file[m][i]
<1> DEFINE Good == /\ file' \in [Months -> Seq(SUBSET Times)]
                   /\ \A m \in Months :
                        /\ Len(file'[m]) <= MaxFiles
                        /\ file'[m] # file[m] => InHand(r) /\ m = This(r)
                        /\ \A i \in DOMAIN file'[m] :
                             \/ InHand(r) /\ file'[m][i] \subseteq rows[r]
                             \/ i \in DOMAIN file[m] /\ file'[m][i] = file[m][i]
<1>0. /\ file \in [Months -> Seq(SUBSET Times)]
      /\ \A m \in Months : Len(file[m]) \in Nat /\ Len(file[m]) <= MaxFiles
      /\ rows[r] \in SUBSET Times /\ MaxFiles \in Nat /\ 1 <= MaxFiles
  BY TypeFacts, Constants
<1>1. CASE file' = file
  BY <1>0, <1>1
<1>2. ASSUME InHand(r), NEW s \in Seq(SUBSET Times), Len(s) <= MaxFiles, Becomes(r, s),
             \A i \in DOMAIN s :
               \/ s[i] \subseteq rows[r]
               \/ i \in DOMAIN file[This(r)] /\ s[i] = file[This(r)][i]
      PROVE  Good
  <2>1. This(r) \in Months
    BY <1>2, MonthInHand, HandsBusy
  <2>2. file' \in [Months -> Seq(SUBSET Times)] /\ file'[This(r)] = s
        /\ \A m \in Months \ {This(r)} : file'[m] = file[m]
    BY <1>0, <1>2, <2>1 DEF Becomes
  <2>3. ASSUME NEW m \in Months
        PROVE  /\ Len(file'[m]) <= MaxFiles
               /\ file'[m] # file[m] => InHand(r) /\ m = This(r)
               /\ \A i \in DOMAIN file'[m] :
                    \/ InHand(r) /\ file'[m][i] \subseteq rows[r]
                    \/ i \in DOMAIN file[m] /\ file'[m][i] = file[m][i]
    <3>1. CASE m = This(r)
      BY <1>2, <2>2, <3>1
    <3>2. CASE m # This(r)
      BY <1>0, <2>2, <3>2
    <3> QED BY <3>1, <3>2
  <2> QED BY <2>2, <2>3
<1>3. ASSUME InHand(r), NEW S \in SUBSET rows[r], Becomes(r, <<S>>) PROVE Good
  <2>1. S \in SUBSET Times
    BY <1>0
  <2>2. <<S>> \in Seq(SUBSET Times) /\ Len(<<S>>) <= MaxFiles
        /\ \A i \in DOMAIN <<S>> : <<S>>[i] \subseteq rows[r]
    BY <1>0, <2>1
  <2> HIDE DEF Good
  <2> QED BY <1>2, <1>3, <2>2
<1>4. ASSUME InHand(r), Sent(r) PROVE Good
  <2> DEFINE s == file[This(r)]
  <2>1. s \in Seq(SUBSET Times) /\ Len(s) \in Nat /\ Len(s) <= MaxFiles
    BY <1>0, <1>4, MonthInHand, HandsBusy
  <2> HIDE DEF Good
  <2>2. CASE Becomes(r, [s EXCEPT ![found[r]] = rows[r]])
    <3> DEFINE e == [s EXCEPT ![found[r]] = rows[r]]
    <3>1. e \in Seq(SUBSET Times) /\ Len(e) <= MaxFiles
          /\ \A i \in DOMAIN e : e[i] \subseteq rows[r] \/ (i \in DOMAIN s /\ e[i] = s[i])
      <4> HIDE DEF s
      <4>1. DOMAIN s = 1..Len(s) /\ s \in [1..Len(s) -> SUBSET Times]
        BY <2>1
      <4>2. /\ e \in [1..Len(s) -> SUBSET Times]
            /\ \A i \in 1..Len(s) : e[i] = IF i = found[r] THEN rows[r] ELSE s[i]
        BY <1>0, <4>1
      <4> HIDE DEF e
      <4>3. e \in Seq(SUBSET Times) /\ Len(e) = Len(s) /\ DOMAIN e = 1..Len(s)
        BY <2>1, <4>2, FunctionIsList
      <4> QED BY <2>1, <4>1, <4>2, <4>3
    <3> QED BY <1>2, <1>4, <2>2, <3>1
  <2>3. CASE Len(s) < MaxFiles /\ Becomes(r, Append(s, rows[r]))
    <3> DEFINE e == Append(s, rows[r])
    <3>1. e \in Seq(SUBSET Times) /\ Len(e) = Len(s) + 1
          /\ \A i \in DOMAIN e : e[i] \subseteq rows[r] \/ (i \in DOMAIN s /\ e[i] = s[i])
      <4> HIDE DEF s
      <4>1. /\ e \in Seq(SUBSET Times) /\ Len(e) = Len(s) + 1
            /\ \A i \in DOMAIN e : e[i] = rows[r] \/ (i \in DOMAIN s /\ e[i] = s[i])
        BY <1>0, <2>1, ListTypes
      <4> HIDE DEF e
      <4> QED BY <4>1
    <3>2. Len(e) <= MaxFiles
      BY <1>0, <2>1, <2>3, <3>1
    <3> QED BY <1>2, <1>4, <2>3, <3>1, <3>2
  <2> QED BY <1>4, <2>2, <2>3 DEF Sent
<1>5. CASE OpenFile(r)
  <2>1. {} \in SUBSET rows[r] /\ InHand(r)
    BY <1>5 DEF OpenFile, InHand
  <2> QED BY <1>3, <1>5, <2>1, FileEffects
<1>6. CASE WriteFile(r) \/ WriteFails(r)
  <2>1. InHand(r)
    BY <1>6 DEF WriteFile, WriteFails, InHand
  <2> QED BY <1>3, <1>6, <2>1, FileEffects
<1>7. CASE CloseFile(r)
  <2>1. rows[r] \in SUBSET rows[r] /\ InHand(r)
    BY <1>7 DEF CloseFile, InHand
  <2> QED BY <1>3, <1>7, <2>1, FileEffects
<1>8. CASE Upload(r) \/ UploadFails(r)
  <2>1. InHand(r)
    BY <1>8 DEF Upload, UploadFails, InHand
  <2> QED BY <1>1, <1>4, <1>8, <2>1, FileEffects
<1> QED BY <1>1, <1>5, <1>6, <1>7, <1>8, QuietMoves, FileMoves DEF RunnerStep, RunExport

-----------------------------------------------------------------------------
(* Types, and where runs can be.                                           *)

LEMMA InitInv == Init => TypeInv /\ PastInv /\ StageInv /\ HandInv /\ ZoneInv /\ FileInv
<1> SUFFICES ASSUME Init PROVE TypeInv /\ PastInv /\ StageInv /\ HandInv /\ ZoneInv /\ FileInv
  OBVIOUS
<1> USE DEF Init
<1>1. TypeInv
  <2>1. clock \in Times /\ 0 \in 0..MaxTime /\ 0 \in Zones /\ 0 \in 0..MaxFiles
    BY Constants
  <2>2. file \in [Months -> Seq(SUBSET Times)] /\ \A m \in Months : Len(file[m]) = 0 /\ DOMAIN file[m] = {}
    OBVIOUS
  <2>3. \A m \in Months : Len(file[m]) <= MaxFiles
    BY <2>2, Constants
  <2> QED BY <2>1, <2>2, <2>3 DEF TypeInv, TypeOK
<1>2. PastInv
  BY DEF PastInv
<1>3. \A r \in Runners : pc[r] = "idle"
  OBVIOUS
<1>4. StageInv
  BY <1>3 DEF StageInv, Busy
<1>5. HandInv
  BY <1>3 DEF HandInv, InHand
<1>6. ZoneInv
  BY <1>3 DEF ZoneInv, Busy
<1>7. FileInv
  <2>1. readings = {} /\ \A r \in Runners : cur[r] <= wm
    OBVIOUS
  <2>2. \A r \in Runners : ~Busy(r) /\ ~InHand(r) /\ pc[r] \notin Filling
    BY <1>3 DEF Busy, InHand, Filling
  <2>3. AtMark /\ AtCopies
    BY <2>1 DEF AtMark, AtCopies, CompleteAt
  <2>4. Pending /\ Newer /\ RowsCover /\ Torn /\ OneByOne
    BY <1>3, <2>1, <2>2 DEF Pending, Newer, RowsCover, Torn, OneByOne
  <2> QED BY <2>3, <2>4 DEF FileInv, Filed
<1> QED BY <1>1, <1>2, <1>4, <1>5, <1>6, <1>7

(* The types of the runners' locals. *)
LocalsOK ==
  /\ pc \in [Runners -> {"idle", "query", "build", "open", "write", "close", "sign", "search", "upload",
                         "log", "mark", "done"}]
  /\ cur \in [Runners -> 0..MaxTime] /\ newest \in [Runners -> 0..MaxTime]
  /\ todo \in [Runners -> SUBSET Months] /\ rows \in [Runners -> SUBSET Times]
  /\ found \in [Runners -> 0..MaxFiles] /\ tz \in [Runners -> Zones]

LEMMA LocalsNext == ASSUME TypeInv, StageInv, NEW r \in Runners, RunnerStep(r) PROVE LocalsOK'
<1> USE DEF LocalsOK, Go, run
<1>0. LocalsOK /\ 0 \in 0..MaxTime /\ 0 \in 0..MaxFiles /\ 0 \in Zones
      /\ wm \in 0..MaxTime /\ zone \in Zones /\ readings \subseteq Times
  BY Constants DEF TypeInv, TypeOK
<1>1. CASE EndRun(r)
  BY <1>0, <1>1 DEF EndRun
<1>2. CASE Start(r)
  BY <1>0, <1>2 DEF Start
<1>3. CASE Query(r) /\ ~EndRun(r)
  <2>1. PICK n \in FreshAfter(cur[r]) :
          /\ newest' = [newest EXCEPT ![r] = n] /\ tz' = [tz EXCEPT ![r] = zone]
          /\ todo' = [todo EXCEPT ![r] = {MonthOf(t, zone) : t \in FreshAfter(cur[r])}]
          /\ pc' = [pc EXCEPT ![r] = "build"] /\ UNCHANGED <<cur, rows, found>>
    BY <1>3 DEF Query, FreshAfter
  <2>2. FreshAfter(cur[r]) \subseteq Times /\ Times \subseteq 0..MaxTime
    <3>1. FreshAfter(cur[r]) \subseteq Times
      BY <1>0 DEF FreshAfter
    <3>2. Times \subseteq 0..MaxTime
      BY DEF Times
    <3> QED BY <3>1, <3>2
  <2>3. {MonthOf(t, zone) : t \in FreshAfter(cur[r])} \subseteq Months
    BY <1>0, <2>2, MonthTypes
  <2>4. n \in 0..MaxTime
    BY <2>1, <2>2
  <2> QED BY <1>0, <2>1, <2>3, <2>4
<1>4. CASE Build(r)
  BY <1>0, <1>4 DEF Build, Content, Rows, Destination
<1>5. CASE OpenFile(r) \/ WriteFile(r) \/ CloseFile(r) \/ FlushFails(r) \/ SignIn(r) \/ Upload(r)
  BY <1>0, <1>5 DEF OpenFile, WriteFile, CloseFile, FlushFails, SignIn, Upload
<1>6. CASE Search(r)
  <2>1. FileName(r) \in Months
    BY <1>6, MonthInHand, HandsBusy DEF Search, InHand
  <2>2. \A i \in DOMAIN file[FileName(r)] : i \in 0..MaxFiles
    <3>1. file[FileName(r)] \in Seq(SUBSET Times) /\ Len(file[FileName(r)]) \in 0..MaxFiles
      BY <2>1, TypeFacts
    <3> DEFINE s == file[FileName(r)]
    <3>2. DOMAIN s = 1..Len(s)
      BY <3>1, LenProperties
    <3> HIDE DEF s
    <3>3. DOMAIN s \subseteq 0..MaxFiles
      BY <3>1, <3>2, Constants DEF s
    <3> QED BY <3>3 DEF s
  <2> QED BY <1>0, <1>6, <2>2 DEF Search
<1>7. CASE LogMonth(r)
  BY <1>0, <1>7 DEF LogMonth
<1> QED BY <1>1, <1>2, <1>3, <1>4, <1>5, <1>6, <1>7
        DEF RunnerStep, RunExport, WriteFails, UploadFails, Throws, SetWatermark

LEMMA TypeNext == ASSUME TypeInv, StageInv, [Next]_vars PROVE TypeInv'
<1>0. /\ dest \in Dests /\ clock \in Times /\ readings \in SUBSET Times /\ wm \in 0..MaxTime
      /\ zone \in Zones /\ healthy \in BOOLEAN /\ unflushed \in BOOLEAN /\ rezoned \in BOOLEAN
      /\ crossed \in BOOLEAN /\ file \in [Months -> Seq(SUBSET Times)]
      /\ \A m \in Months : Len(file[m]) <= MaxFiles
      /\ LocalsOK
  BY DEF TypeInv, TypeOK, LocalsOK
<1>1. ASSUME dest' \in Dests, clock' \in Times, readings' \in SUBSET Times, wm' \in 0..MaxTime,
             zone' \in Zones, healthy' \in BOOLEAN, unflushed' \in BOOLEAN, rezoned' \in BOOLEAN,
             crossed' \in BOOLEAN, file' \in [Months -> Seq(SUBSET Times)],
             \A m \in Months : Len(file'[m]) <= MaxFiles,
             LocalsOK'
      PROVE  TypeInv'
  <2>1. \A m \in Months : \A i \in DOMAIN file'[m] : file'[m][i] \subseteq Times
    <3>1. ASSUME NEW m \in Months, NEW i \in DOMAIN file'[m] PROVE file'[m][i] \subseteq Times
      <4>1. file'[m] \in Seq(SUBSET Times)
        BY <1>1
      <4> QED BY <3>1, <4>1
    <3> QED BY <3>1
  <2> QED BY <1>1, <2>1 DEF TypeInv, TypeOK, LocalsOK
<1>2. ASSUME NEW r \in Runners, RunnerStep(r) PROVE TypeInv'
  <2>1. crossed' \in BOOLEAN /\ unflushed' \in BOOLEAN
    <3>1. CASE Build(r) \/ OpenFile(r)
      <4>1. crossed' \in BOOLEAN
        BY <3>1, Zenon DEF Build, OpenFile
      <4>2. unflushed' = unflushed
        BY <3>1 DEF Build, OpenFile
      <4> QED BY <1>0, <4>1, <4>2
    <3>2. CASE ~Build(r) /\ ~OpenFile(r)
      BY <1>0, <1>2, <3>2, QuietMoves, FileMoves DEF RunnerStep, RunExport
    <3> QED BY <3>1, <3>2
  <2>2. LocalsOK' /\ file' \in [Months -> Seq(SUBSET Times)] /\ \A m \in Months : Len(file'[m]) <= MaxFiles
    BY <1>2, LocalsNext, OneFileChanges
  <2>3. UNCHANGED <<dest, zone, clock, readings, healthy, rezoned>> /\ wm' \in 0..MaxTime
    BY <1>0, <1>2, RestStays DEF LocalsOK
  <2> QED BY <1>0, <1>1, <2>1, <2>2, <2>3
<1>3. CASE EnvStep
  <2>1. UNCHANGED <<dest, wm, file, pc, cur, newest, tz, todo, rows, found, unflushed, crossed>>
    BY <1>3, EnvFrame
  <2>2. clock' \in Times /\ readings' \in SUBSET Times /\ zone' \in Zones /\ healthy' \in BOOLEAN
        /\ rezoned' \in BOOLEAN
    <3>1. CASE Tick
      <4>1. clock + 1 \in Times
        BY <1>0, <3>1, Constants DEF Tick, Times
      <4> QED BY <1>0, <3>1, <4>1 DEF Tick, history
    <3>2. CASE StoreReading \/ HealthChanges \/ \E b \in Times : Prune(b)
      BY <1>0, <3>2 DEF StoreReading, HealthChanges, Prune, history
    <3>3. CASE \E z \in Zones : EditZone(z)
      BY <1>0, <3>3 DEF EditZone
    <3> QED BY <1>3, <3>1, <3>2, <3>3 DEF EnvStep
  <2>3. LocalsOK'
    BY <1>0, <2>1 DEF LocalsOK
  <2> QED BY <1>0, <1>1, <2>1, <2>2, <2>3
<1>4. CASE Crash
  <2>1. LocalsOK'
    BY <1>4, Constants DEF Crash, LocalsOK
  <2> QED BY <1>0, <1>1, <1>4, <2>1 DEF Crash, history
<1>5. CASE UNCHANGED vars
  <2>1. LocalsOK'
    BY <1>0, <1>5 DEF vars, run, LocalsOK
  <2> QED BY <1>0, <1>1, <1>5, <2>1 DEF vars, history
<1> QED BY <1>2, <1>3, <1>4, <1>5, StepKinds

-----------------------------------------------------------------------------
(* The past, the stages of a run, the months in hand.                      *)

LEMMA StartsAndEnds ==
  ASSUME TypeInv, NEW r \in Runners, RunnerStep(r)
  PROVE  \/ EndRun(r)
         \/ pc[r] = "idle" /\ pc'[r] = "query" /\ cur'[r] = wm /\ newest'[r] = newest[r]
            /\ rows'[r] = rows[r]
         \/ Begins(r) /\ rows'[r] = rows[r]
         \/ cur'[r] = cur[r] /\ newest'[r] = newest[r] /\ tz'[r] = tz[r]
            /\ (rows'[r] = rows[r] \/ rows'[r] \subseteq readings)
BY QuietMoves, FileMoves DEF RunnerStep, RunExport, Moves, Kept, Rows

LEMMA PastGrows == ASSUME TypeInv, PastInv, [Next]_vars PROVE Past \subseteq Past'
<1>0. clock \in Nat /\ readings \subseteq Times /\ Times \subseteq Nat
  BY TypeFacts, Constants
<1>1. CASE clock' = clock /\ readings' = readings
  BY <1>1 DEF Past
<1>2. CASE Tick
  <2>1. readings' = readings /\ \A t \in Times : t < clock => t < clock'
    BY <1>0, <1>2 DEF Tick
  <2> QED BY <2>1 DEF Past
<1>3. CASE StoreReading
  BY <1>3 DEF StoreReading, Past
<1>4. CASE \E b \in Times : Prune(b)
  <2>1. PICK b \in Times : b <= clock /\ readings' = {t \in readings : t >= b} /\ clock' = clock
    BY <1>4 DEF Prune
  <2>2. \A t \in readings : t < clock \/ t \in readings'
    BY <1>0, <2>1
  <2> QED BY <2>1, <2>2 DEF Past
<1>5. CASE HealthChanges \/ (\E z \in Zones : EditZone(z)) \/ Crash \/ UNCHANGED vars
  BY <1>1, <1>5 DEF HealthChanges, EditZone, Crash, vars
<1>6. CASE \E r \in Runners : RunnerStep(r)
  BY <1>1, <1>6, RestStays
<1> QED BY <1>2, <1>3, <1>4, <1>5, <1>6, StepKinds DEF EnvStep

LEMMA PastNext == ASSUME TypeInv, StageInv, PastInv, [Next]_vars PROVE PastInv'
<1>0. /\ clock \in Nat /\ readings \subseteq Times /\ Times \subseteq Nat
      /\ readings \subseteq Past /\ Past \subseteq Past'
  BY TypeFacts, Constants, PastGrows DEF Past
<1>1. \A t \in readings' : t <= clock'
  <2>1. CASE Tick \/ StoreReading \/ HealthChanges \/ \E b \in Times : Prune(b)
    <3>1. \A t \in readings : t \in Nat /\ t <= clock
      BY <1>0 DEF PastInv
    <3>2. CASE Tick
      <4>1. readings' = readings /\ clock' = clock + 1
        BY <3>2 DEF Tick
      <4> QED BY <1>0, <3>1, <4>1
    <3>3. CASE StoreReading
      BY <1>0, <3>1, <3>3 DEF StoreReading
    <3>4. CASE HealthChanges \/ \E b \in Times : Prune(b)
      BY <3>1, <3>4 DEF HealthChanges, Prune
    <3> QED BY <2>1, <3>2, <3>3, <3>4
  <2>2. CASE (\E z \in Zones : EditZone(z)) \/ Crash \/ UNCHANGED vars
    BY <2>2 DEF EditZone, Crash, vars, PastInv
  <2>3. CASE \E r \in Runners : RunnerStep(r)
    BY <2>3, RestStays DEF PastInv
  <2> QED BY <2>1, <2>2, <2>3, StepKinds DEF EnvStep
<1>2. ASSUME NEW r \in Runners, RunnerStep(r)
      PROVE  /\ wm' \in Past \cup {0}
             /\ \A o \in Runners : /\ cur'[o] \in Past \cup {0} /\ newest'[o] \in Past \cup {0}
                                   /\ rows'[o] \subseteq Past
             /\ \A m \in Months : \A i \in DOMAIN file'[m] : file'[m][i] \subseteq Past
  <2>1. wm' \in Past \cup {0}
    BY <1>2, RestStays DEF PastInv
  <2>2. cur'[r] \in Past \cup {0} /\ newest'[r] \in Past \cup {0} /\ rows'[r] \subseteq Past
    <3>1. CASE EndRun(r)
      BY <3>1, RunEnds
    <3>2. CASE Begins(r) /\ rows'[r] = rows[r]
      BY <1>0, <3>2 DEF Begins, FreshAfter, PastInv
    <3> QED BY <1>0, <1>2, <3>1, <3>2, StartsAndEnds DEF PastInv
  <2>3. ASSUME NEW o \in Runners \ {r}
        PROVE  cur'[o] \in Past \cup {0} /\ newest'[o] \in Past \cup {0} /\ rows'[o] \subseteq Past
    BY <1>2, <2>3, OthersStay DEF PastInv
  <2>4. \A m \in Months : \A i \in DOMAIN file'[m] : file'[m][i] \subseteq Past
    BY <1>2, OneFileChanges DEF PastInv
  <2> QED BY <2>1, <2>2, <2>3, <2>4
<1>3. CASE \E r \in Runners : RunnerStep(r)
  <2>1. PICK r \in Runners : RunnerStep(r)
    BY <1>3
  <2> QED BY <1>0, <1>1, <1>2, <2>1 DEF PastInv
<1>4. CASE EnvStep \/ UNCHANGED vars
  <2>1. UNCHANGED <<wm, file, cur, newest, rows>>
    BY <1>4, EnvFrame DEF vars, run
  <2> QED BY <1>0, <1>1, <2>1 DEF PastInv
<1>5. CASE Crash
  BY <1>0, <1>1, <1>5 DEF Crash, PastInv
<1> QED BY <1>3, <1>4, <1>5, StepKinds

LEMMA StageNext == ASSUME TypeInv, StageInv, [Next]_vars PROVE StageInv'
<1> DEFINE At(o) ==
      /\ Busy(o) => cur[o] < newest[o]
      /\ Busy(o) /\ pc[o] # "mark" => todo[o] # {}
      /\ pc[o] = "mark" => todo[o] = {}
      /\ dest = "outbox" => pc[o] \notin {"sign", "search", "upload"}
      /\ dest # "outbox" => pc[o] \notin {"open", "write", "close"}
<1>0. dest' # "outbox" => ~unflushed'
  <2>1. CASE \E r \in Runners : RunnerStep(r)
    BY <2>1, RestStays, QuietMoves, FileMoves DEF RunnerStep, RunExport, StageInv, Moves
  <2>2. CASE EnvStep \/ Crash \/ UNCHANGED vars
    BY <2>2, EnvFrame DEF Crash, vars, history, StageInv
  <2> QED BY <2>1, <2>2, StepKinds
<1>1. ASSUME NEW r \in Runners, RunnerStep(r), NEW o \in Runners PROVE At(o)'
  <2>0. dest' = dest
    BY <1>1, RestStays
  <2>2. CASE o # r
    BY <1>1, <2>0, <2>2, OthersStay DEF StageInv, Busy
  <2>3. CASE o = r /\ EndRun(r)
    BY <2>0, <2>3, RunEnds DEF Busy
  <2>4. CASE o = r /\ Begins(r)
    <3>1. newest'[r] > cur[r] /\ MonthOf(newest'[r], zone) \in todo'[r]
      BY <2>4 DEF Begins, FreshAfter
    <3>2. cur[r] < newest'[r]
      <4>1. newest'[r] \in Times /\ Times \subseteq Nat
        BY <2>4, TypeFacts, Constants DEF Begins, FreshAfter
      <4>2. cur[r] \in Nat
        BY TypeFacts
      <4> QED BY <3>1, <4>1, <4>2
    <3>3. cur'[r] < newest'[r] /\ pc'[r] = "build" /\ todo'[r] # {}
      BY <2>4, <3>1, <3>2 DEF Begins
    <3> QED BY <2>0, <2>4, <3>3 DEF Busy
  <2>5. CASE o = r /\ Start(r)
    BY <2>0, <2>5, QuietMoves DEF Busy
  <2>6. CASE o = r /\ LogMonth(r)
    BY <2>0, <2>6, QuietMoves DEF Busy, StageInv
  <2>7. CASE o = r /\ (SignIn(r) \/ Search(r))
    BY <2>0, <2>7, QuietMoves DEF Busy, StageInv, Moves, Kept
  <2>8. CASE o = r /\ (Build(r) \/ OpenFile(r) \/ WriteFile(r) \/ CloseFile(r) \/ FlushFails(r) \/ Upload(r))
    BY <2>0, <2>8, FileMoves DEF Busy, StageInv, Moves, Kept
  <2> QED BY <1>1, <2>2, <2>3, <2>4, <2>5, <2>6, <2>7, <2>8, QuietMoves, FileMoves
          DEF RunnerStep, RunExport
<1>2. ASSUME EnvStep \/ UNCHANGED vars, NEW o \in Runners PROVE At(o)'
  <2>1. UNCHANGED <<dest, pc, cur, newest, todo>>
    BY <1>2, EnvFrame DEF vars, run
  <2> QED BY <2>1 DEF StageInv, Busy
<1>3. ASSUME Crash, NEW o \in Runners PROVE At(o)'
  <2>1. pc'[o] \in {"idle", "done"} /\ dest' = dest
    BY <1>3 DEF Crash
  <2> QED BY <2>1 DEF StageInv, Busy
<1> QED BY <1>0, <1>1, <1>2, <1>3, StepKinds DEF StageInv

LEMMA ZoneNext == ASSUME TypeInv, ZoneInv, [Next]_vars PROVE ZoneInv'
<1>1. ASSUME NEW r \in Runners, RunnerStep(r), ~rezoned', NEW o \in Runners, Busy(o)'
      PROVE  tz'[o] = zone'
  <2>1. zone' = zone /\ ~rezoned
    BY <1>1, RestStays
  <2>2. CASE o # r
    BY <1>1, <2>1, <2>2, OthersStay DEF ZoneInv, Busy
  <2>3. CASE o = r
    <3>1. ~EndRun(r) /\ ~(pc'[r] = "query")
      BY <1>1, <2>3, RunEnds DEF Busy
    <3>2. CASE Begins(r)
      BY <2>1, <2>3, <3>2 DEF Begins
    <3>3. CASE ~Begins(r)
      <4>1. Busy(r) /\ tz'[r] = tz[r]
        BY <1>1, <3>1, <3>3, QuietMoves, FileMoves DEF RunnerStep, RunExport, Moves, Kept, Busy
      <4> QED BY <2>1, <2>3, <4>1 DEF ZoneInv
    <3> QED BY <3>2, <3>3
  <2> QED BY <2>2, <2>3
<1>2. ASSUME EnvStep \/ UNCHANGED vars, ~rezoned', NEW o \in Runners, Busy(o)'
      PROVE  tz'[o] = zone'
  <2>1. UNCHANGED <<pc, tz, zone>> /\ ~rezoned
    BY <1>2, EnvFrame DEF vars, run, history
  <2> QED BY <1>2, <2>1 DEF ZoneInv, Busy
<1>3. ASSUME Crash, NEW o \in Runners PROVE ~Busy(o)'
  BY <1>3 DEF Crash, Busy
<1> QED BY <1>1, <1>2, <1>3, StepKinds DEF ZoneInv

(* While no two runs cross, nobody touches the files of another's month in *)
(* hand.                                                                   *)
LEMMA HandsOff ==
  ASSUME TypeInv, StageInv, HandInv, ~crossed, NEW r \in Runners, RunnerStep(r),
         NEW o \in Runners \ {r}, InHand(o)
  PROVE  This(o)' = This(o) /\ file'[This(o)] = file[This(o)]
<1>1. This(o) \in Months
  BY MonthInHand, HandsBusy
<1>2. file'[This(o)] # file[This(o)] => InHand(r) /\ This(o) = This(r)
  BY <1>1, OneFileChanges
<1>3. ~(InHand(r) /\ This(o) = This(r))
  BY DEF HandInv
<1>4. This(o)' = This(o)
  BY OthersStay, ThisStays
<1> QED BY <1>2, <1>3, <1>4

(* A step after which a runner has a month in hand leaves it with it.      *)
LEMMA StaysInHand ==
  ASSUME TypeInv, NEW r \in Runners, RunnerStep(r), InHand(r)'
  PROVE  /\ InHand(r) \/ Build(r)
         /\ tz'[r] = tz[r] /\ todo'[r] = todo[r] /\ This(r)' = This(r)
<1>1. ~EndRun(r) /\ ~Begins(r) /\ pc'[r] # "query"
  BY RunEnds DEF InHand, Begins
<1>2. InHand(r) \/ Build(r)
  BY <1>1, QuietMoves, FileMoves DEF RunnerStep, RunExport, Moves, InHand
<1>3. tz'[r] = tz[r] /\ todo'[r] = todo[r]
  <2>1. ~LogMonth(r)
    BY QuietMoves DEF InHand
  <2> QED BY <1>1, <2>1, QuietMoves, FileMoves DEF RunnerStep, RunExport, Moves, Kept
<1> QED BY <1>2, <1>3, ThisStays

(* What is sent goes over the only file, or makes it.                      *)
LEMMA SentOne ==
  ASSUME TypeInv, StageInv, HandInv, ~crossed, NEW r \in Runners, pc[r] = "upload", Sent(r)
  PROVE  /\ \A m \in Months \ {This(r)} : file'[m] = file[m]
         /\ Len(file'[This(r)]) = 1 /\ DOMAIN file'[This(r)] = {1}
         /\ file'[This(r)][1] = rows[r]
<1> DEFINE s == file[This(r)]
<1>1. This(r) \in Months /\ InHand(r)
  BY MonthInHand, HandsBusy DEF InHand
<1>2. file \in [Months -> Seq(SUBSET Times)] /\ rows[r] \in SUBSET Times
  BY TypeFacts
<1>3. s \in Seq(SUBSET Times) /\ Len(s) \in Nat /\ Len(s) <= 1 /\ found[r] = Len(s) /\ DOMAIN s = 1..Len(s)
  BY <1>1, <1>2 DEF HandInv
<1>4. ASSUME NEW e, Becomes(r, e)
      PROVE  file'[This(r)] = e /\ \A m \in Months \ {This(r)} : file'[m] = file[m]
  BY <1>1, <1>2, <1>4 DEF Becomes
<1>5. CASE Becomes(r, Append(s, rows[r])) /\ found[r] = 0
  <2> HIDE DEF s
  <2>1. Len(s) = 0
    BY <1>3, <1>5
  <2>2. Len(Append(s, rows[r])) = 1 /\ Append(s, rows[r])[1] = rows[r]
    BY <1>2, <1>3, <2>1, ListTypes
  <2>3. Append(s, rows[r]) \in Seq(SUBSET Times)
    BY <1>2, <1>3
  <2>4. DOMAIN Append(s, rows[r]) = {1}
    BY <2>2, <2>3
  <2> QED BY <1>4, <1>5, <2>2, <2>4 DEF s
<1>6. CASE Becomes(r, [s EXCEPT ![found[r]] = rows[r]]) /\ found[r] # 0
  <2> DEFINE e == [s EXCEPT ![found[r]] = rows[r]]
  <2>0. file'[This(r)] = e /\ \A m \in Months \ {This(r)} : file'[m] = file[m]
    BY <1>4, <1>6
  <2> HIDE DEF s
  <2>1. Len(s) = 1 /\ found[r] = 1 /\ s \in [1..1 -> SUBSET Times]
    BY <1>3, <1>6
  <2>2. e \in [1..1 -> SUBSET Times] /\ e[1] = rows[r]
    BY <1>2, <2>1
  <2> HIDE DEF e
  <2>3. Len(e) = 1 /\ DOMAIN e = {1}
    BY <2>2, FunctionIsList
  <2> QED BY <2>0, <2>2, <2>3
<1> QED BY <1>5, <1>6 DEF Sent

LEMMA HandNext == ASSUME TypeInv, StageInv, HandInv, [Next]_vars PROVE HandInv'
<1> DEFINE Apart == \A p, o \in Runners : p # o /\ InHand(p) /\ InHand(o) => This(p) # This(o)
           Single == \A m \in Months : Len(file[m]) <= 1
           Hit == \A o \in Runners : pc[o] = "upload" => found[o] = Len(file[This(o)])
           Opened == \A o \in Runners : pc[o] \in {"write", "close"} => Len(file[This(o)]) = 1
<1>1. ASSUME NEW r \in Runners, RunnerStep(r), ~crossed' PROVE Apart' /\ Single' /\ Hit' /\ Opened'
  <2>0. ~crossed /\ Apart /\ Single /\ Hit /\ Opened
    <3>1. ~crossed
      BY <1>1, RestStays
    <3> QED BY <3>1 DEF HandInv
  <2>1. ASSUME NEW o \in Runners \ {r}, InHand(o)'
        PROVE  InHand(o) /\ This(o)' = This(o) /\ file'[This(o)] = file[This(o)]
    <3>1. InHand(o)
      BY <1>1, <2>1, OthersStay DEF InHand
    <3> QED BY <1>1, <2>0, <2>1, <3>1, HandsOff
  <2>2. ASSUME InHand(r)', NEW o \in Runners \ {r}, InHand(o)' PROVE This(r)' # This(o)'
    <3>1. CASE Build(r)
      <4>1. ~(InHand(o) /\ This(o) = This(r))
        BY <1>1, <3>1, FileMoves
      <4> QED BY <1>1, <2>1, <2>2, <4>1, StaysInHand
    <3>2. CASE InHand(r)
      BY <1>1, <2>0, <2>1, <2>2, <3>2, StaysInHand
    <3> QED BY <1>1, <2>2, <3>1, <3>2, StaysInHand
  <2>3. Apart'
    <3>1. ASSUME NEW p \in Runners, NEW o \in Runners, p # o, InHand(p)', InHand(o)'
          PROVE  This(p)' # This(o)'
      <4>1. CASE p = r
        BY <2>2, <3>1, <4>1
      <4>2. CASE o = r
        BY <2>2, <3>1, <4>2
      <4>3. CASE p # r /\ o # r
        BY <2>0, <2>1, <3>1, <4>3
      <4> QED BY <4>1, <4>2, <4>3
    <3> QED BY <3>1
  <2>4. Single' /\ (InHand(r) /\ file'[This(r)] # file[This(r)] => Len(file'[This(r)]) = 1)
    <3> DEFINE One == /\ \A m \in Months : Len(file'[m]) <= 1
                      /\ InHand(r) /\ file'[This(r)] # file[This(r)] => Len(file'[This(r)]) = 1
    <3> SUFFICES One
      OBVIOUS
    <3>0. ASSUME \A m \in Months \ {This(r)} : file'[m] = file[m], Len(file'[This(r)]) = 1
          PROVE  One
      <4>1. ASSUME NEW m \in Months PROVE Len(file'[m]) <= 1
        <5>1. CASE m = This(r)
          <6>1. Len(file'[m]) = 1
            BY <3>0, <5>1, Zenon
          <6> QED BY <6>1
        <5>2. CASE m # This(r)
          BY <2>0, <3>0, <5>2
        <5> QED BY <5>1, <5>2
      <4> QED BY <3>0, <4>1
    <3>1. CASE file' = file
      BY <2>0, <3>1
    <3>2. ASSUME NEW S, InHand(r), Becomes(r, <<S>>) PROVE One
      <4>1. This(r) \in Months /\ file \in [Months -> Seq(SUBSET Times)]
        BY <3>2, MonthInHand, HandsBusy, TypeFacts
      <4>2. file'[This(r)] = <<S>> /\ \A m \in Months \ {This(r)} : file'[m] = file[m]
        BY <3>2, <4>1 DEF Becomes
      <4>3. Len(<<S>>) = 1
        OBVIOUS
      <4>4. Len(file'[This(r)]) = 1
        BY <4>2, <4>3
      <4> HIDE DEF One
      <4> QED BY <3>0, <4>2, <4>4
    <3>3. CASE pc[r] = "upload" /\ Sent(r)
      <4> HIDE DEF One
      <4> QED BY <2>0, <3>0, <3>3, SentOne
    <3>a. (OpenFile(r) \/ WriteFile(r) \/ WriteFails(r) \/ CloseFile(r)) => InHand(r)
      BY DEF OpenFile, WriteFile, WriteFails, CloseFile, InHand
    <3> HIDE DEF One
    <3>4. CASE OpenFile(r)
      BY <3>2, <3>a, <3>4, FileEffects
    <3>5. CASE WriteFile(r) \/ WriteFails(r)
      BY <3>2, <3>a, <3>5, FileEffects
    <3>6. CASE CloseFile(r)
      BY <3>2, <3>a, <3>6, FileEffects
    <3>7. CASE Upload(r) \/ UploadFails(r)
      BY <3>1, <3>3, <3>7, FileEffects DEF Upload, UploadFails
    <3> QED BY <1>1, <3>1, <3>4, <3>5, <3>6, <3>7, QuietMoves, FileMoves DEF RunnerStep, RunExport
  <2>5. pc'[r] = "upload" => found'[r] = Len(file'[This(r)'])
    <3> SUFFICES ASSUME pc'[r] = "upload" PROVE found'[r] = Len(file'[This(r)'])
      OBVIOUS
    <3>1. Search(r)
      BY <1>1, RunEnds, QuietMoves, FileMoves DEF RunnerStep, RunExport, Moves, Begins
    <3>2. /\ file' = file /\ This(r)' = This(r) /\ FileName(r) = This(r) /\ This(r) \in Months
          /\ (file[This(r)] = << >> /\ found'[r] = 0) \/ found'[r] \in DOMAIN file[This(r)]
      <4>1. InHand(r) /\ InHand(r)'
        BY <3>1 DEF InHand, Search
      <4> QED BY <1>1, <3>1, <4>1, StaysInHand, MonthInHand, HandsBusy, QuietMoves
    <3> DEFINE s == file[This(r)]
    <3>3. s \in Seq(SUBSET Times) /\ Len(s) <= 1
      BY <2>0, <3>2, TypeFacts
    <3>4. CASE s = << >> /\ found'[r] = 0
      BY <3>2, <3>4
    <3>5. CASE found'[r] \in DOMAIN s
      <4>1. Len(s) \in Nat /\ DOMAIN s = 1..Len(s)
        BY <3>3, LenProperties
      <4> HIDE DEF s
      <4>2. Len(s) = 1 /\ found'[r] = 1
        BY <3>3, <3>5, <4>1
      <4> QED BY <3>2, <4>2 DEF s
    <3> QED BY <3>2, <3>4, <3>5
  <2>6. pc'[r] \in {"write", "close"} => Len(file'[This(r)']) = 1
    <3> SUFFICES ASSUME pc'[r] \in {"write", "close"} PROVE Len(file'[This(r)']) = 1
      OBVIOUS
    <3>1. OpenFile(r) \/ WriteFile(r)
      BY <1>1, RunEnds, QuietMoves, FileMoves DEF RunnerStep, RunExport, Moves, Begins
    <3>2. InHand(r) /\ InHand(r)'
      BY <3>1 DEF InHand, OpenFile, WriteFile
    <3>3. This(r)' = This(r) /\ This(r) \in Months /\ file \in [Months -> Seq(SUBSET Times)]
      BY <1>1, <3>2, StaysInHand, MonthInHand, HandsBusy, TypeFacts
    <3>4. \E S : Becomes(r, <<S>>)
      BY <3>1, FileEffects
    <3>5. PICK S : Becomes(r, <<S>>)
      BY <3>4
    <3>6. file'[This(r)] = <<S>>
      BY <3>3, <3>5 DEF Becomes
    <3>7. Len(<<S>>) = 1
      OBVIOUS
    <3> QED BY <3>3, <3>6, <3>7
  <2>7. ASSUME NEW o \in Runners \ {r}, pc'[o] \in {"upload", "write", "close"}
        PROVE  /\ pc[o] = pc'[o] /\ found'[o] = found[o] /\ file'[This(o)'] = file[This(o)]
    <3>1. InHand(o)'
      BY <2>7 DEF InHand
    <3> QED BY <1>1, <2>1, <3>1, OthersStay
  <2>8. Hit' /\ Opened'
    <3>1. ASSUME NEW o \in Runners
          PROVE  /\ pc'[o] = "upload" => found'[o] = Len(file'[This(o)'])
                 /\ pc'[o] \in {"write", "close"} => Len(file'[This(o)']) = 1
      BY <2>0, <2>5, <2>6, <2>7
    <3> QED BY <3>1
  <2> QED BY <2>3, <2>4, <2>8
<1>2. ASSUME EnvStep \/ UNCHANGED vars PROVE HandInv'
  <2>1. UNCHANGED <<pc, file, found, todo, crossed>>
    BY <1>2, EnvFrame DEF vars, run, history
  <2>2. \A o \in Runners : This(o)' = This(o)
    BY <2>1, ThisStays
  <2> QED BY <2>1, <2>2 DEF HandInv, InHand
<1>3. ASSUME Crash PROVE HandInv'
  <2>1. \A o \in Runners : pc'[o] \in {"idle", "done"}
    BY <1>3 DEF Crash
  <2>2. file' = file /\ crossed' = crossed
    BY <1>3 DEF Crash, history
  <2> QED BY <2>1, <2>2 DEF HandInv, InHand
<1>4. ASSUME NEW r \in Runners, RunnerStep(r) PROVE HandInv'
  BY <1>1, <1>4 DEF HandInv
<1> QED BY <1>2, <1>3, <1>4, StepKinds

-----------------------------------------------------------------------------
(* What a step does to what is published.                                  *)

LEMMA CleanBefore ==
  ASSUME [Next]_vars, Clean'
  PROVE  Clean /\ zone' = zone
<1>1. CASE \E r \in Runners : RunnerStep(r)
  BY <1>1, RestStays DEF Clean
<1>2. CASE EnvStep
  BY <1>2, EnvFrame DEF Clean
<1>3. CASE Crash \/ UNCHANGED vars
  BY <1>3 DEF Crash, vars, history, Clean
<1> QED BY <1>1, <1>2, <1>3, StepKinds

(* Reading t is in a file of month m of f. *)
Holds(f, m, t) == \E i \in DOMAIN f[m] : t \in f[m][i]

LEMMA PublishedIs ==
  /\ \A t \in Times : t \in Published <=> Holds(file, MonthOf(t, zone), t)
  /\ zone' = zone => \A t \in Times : t \in Published' <=> Holds(file', MonthOf(t, zone), t)
BY DEF Published, Holds

(* Only a file just truncated has lost readings: it is to be filled with   *)
(* rows that hold them.                                                    *)
LEMMA PublishedMoves ==
  ASSUME Base, Filed, Clean', NEW r \in Runners, RunnerStep(r)
  PROVE  /\ ~OpenFile(r) => \A t \in readings : t \in Published => t \in Published'
         /\ \A t \in Times : \/ InHand(r) /\ MonthOf(t, zone) = This(r)
                             \/ (t \in Published <=> t \in Published')
         /\ CloseFile(r) \/ Upload(r) =>
              \A t \in Times : MonthOf(t, zone) = This(r) /\ t \in rows[r] => t \in Published'
         /\ OpenFile(r) => \A t \in Times : MonthOf(t, zone) = This(r) => t \notin Published'
         /\ WriteFile(r) =>
              \A t \in Times : MonthOf(t, zone) = This(r) /\ t \in Published' => t \in rows[r]
<1>0. /\ TypeInv /\ StageInv /\ HandInv /\ readings \subseteq Times
      /\ zone' = zone /\ zone \in Zones /\ Clean /\ ~crossed
      /\ \A t \in Times : MonthOf(t, zone) \in Months
  <2>1. TypeInv /\ StageInv /\ HandInv
    BY DEF Base
  <2>2. zone' = zone /\ Clean
    BY RestStays DEF Clean
  <2> QED BY <2>1, <2>2, TypeFacts, MonthTypes DEF Clean
<1>1. ASSUME NEW t \in Times
      PROVE  \/ InHand(r) /\ MonthOf(t, zone) = This(r)
             \/ (t \in Published <=> t \in Published')
  <2> DEFINE m == MonthOf(t, zone)
  <2>1. file'[m] # file[m] => InHand(r) /\ m = This(r)
    BY <1>0, OneFileChanges
  <2>2. file'[m] = file[m] => (Holds(file, m, t) <=> Holds(file', m, t))
    BY DEF Holds
  <2> QED BY <1>0, <2>1, <2>2, PublishedIs
<1>2. ASSUME InHand(r), NEW S, Becomes(r, <<S>>), NEW t \in Times, MonthOf(t, zone) = This(r)
      PROVE  t \in Published' <=> t \in S
  <2>1. file'[This(r)] = <<S>>
    BY <1>0, <1>2, TypeFacts DEF Becomes
  <2>2. DOMAIN <<S>> = {1} /\ <<S>>[1] = S
    OBVIOUS
  <2>3. Holds(file', This(r), t) <=> t \in S
    BY <2>1, <2>2 DEF Holds
  <2> QED BY <1>0, <1>2, <2>3, PublishedIs
<1>3. ASSUME pc[r] = "upload", Sent(r), NEW t \in Times, MonthOf(t, zone) = This(r)
      PROVE  t \in Published' <=> t \in rows[r]
  <2>1. DOMAIN file'[This(r)] = {1} /\ file'[This(r)][1] = rows[r]
    BY <1>0, <1>3, SentOne
  <2>2. Holds(file', This(r), t) <=> t \in rows[r]
    BY <2>1 DEF Holds
  <2> QED BY <1>0, <1>3, <2>2, PublishedIs
<1>4. CloseFile(r) \/ Upload(r) =>
        \A t \in Times : MonthOf(t, zone) = This(r) => (t \in Published' <=> t \in rows[r])
  <2>1. CASE CloseFile(r)
    <3>1. InHand(r) /\ Becomes(r, <<rows[r]>>)
      BY <1>0, <2>1, FileEffects DEF CloseFile, InHand
    <3> QED BY <1>2, <2>1, <3>1, FileMoves DEF Upload, Moves
  <2>2. CASE Upload(r)
    BY <1>0, <1>3, <2>2, FileEffects DEF Upload
  <2> QED BY <2>1, <2>2
<1>5. OpenFile(r) => \A t \in Times : MonthOf(t, zone) = This(r) => t \notin Published'
  <2> SUFFICES ASSUME OpenFile(r) PROVE \A t \in Times : MonthOf(t, zone) = This(r) => t \notin Published'
    OBVIOUS
  <2>1. InHand(r) /\ Becomes(r, <<{}>>)
    BY <1>0, FileEffects DEF OpenFile, InHand
  <2> QED BY <1>2, <2>1
<1>6. WriteFile(r) =>
        \A t \in Times : MonthOf(t, zone) = This(r) /\ t \in Published' => t \in rows[r]
  <2> SUFFICES ASSUME WriteFile(r)
               PROVE  \A t \in Times : MonthOf(t, zone) = This(r) /\ t \in Published' => t \in rows[r]
    OBVIOUS
  <2>1. InHand(r)
    BY DEF WriteFile, InHand
  <2>2. PICK S \in SUBSET rows[r] : Becomes(r, <<S>>)
    BY <1>0, FileEffects
  <2> QED BY <1>2, <2>1, <2>2
<1>7. ASSUME ~OpenFile(r), NEW t \in readings, t \in Published PROVE t \in Published'
  <2>0. t \in Times
    BY <1>0
  <2>1. CASE ~(InHand(r) /\ MonthOf(t, zone) = This(r))
    BY <1>1, <1>7, <2>0, <2>1
  <2>2. CASE InHand(r) /\ MonthOf(t, zone) = This(r)
    <3>1. t \in rows[r]
      BY <1>7, <2>2 DEF Filed, RowsCover
    <3>2. CASE CloseFile(r) \/ Upload(r)
      BY <1>4, <2>0, <2>2, <3>1, <3>2
    <3>3. CASE WriteFile(r) \/ WriteFails(r)
      <4>1. pc[r] = "write" /\ file[This(r)] = <<{}>>
        BY <3>3 DEF WriteFile, WriteFails, Filed, Torn
      <4>2. ~Holds(file, This(r), t)
        BY <4>1 DEF Holds
      <4> QED BY <1>7, <2>0, <2>2, <4>2, PublishedIs
    <3>4. CASE UploadFails(r) /\ Sent(r)
      BY <1>3, <2>0, <2>2, <3>1, <3>4 DEF UploadFails
    <3>5. CASE file' = file
      <4>1. Holds(file, This(r), t) => Holds(file', This(r), t)
        BY <3>5 DEF Holds
      <4> QED BY <1>0, <1>7, <2>0, <2>2, <4>1, PublishedIs
    <3> QED BY <1>0, <1>7, <3>2, <3>3, <3>4, <3>5, QuietMoves, FileMoves, FileEffects
            DEF RunnerStep, RunExport
  <2> QED BY <2>1, <2>2
<1> QED BY <1>1, <1>4, <1>5, <1>6, <1>7

-----------------------------------------------------------------------------
(* Complete watermarks.                                                    *)

(* CompleteAt in the next state, of a watermark that stays what it is. *)
CompleteNext(w) ==
  \A t \in readings' : t <= w =>
    t \in Published' \/ \E u \in readings' : u > w /\ MonthOf(u, zone') = MonthOf(t, zone')

LEMMA Numbers ==
  ASSUME Base
  PROVE  /\ readings \subseteq Times /\ readings \subseteq Past
         /\ \A t \in Times : t \in Nat /\ t > 0
         /\ \A w \in Past \cup {0} : w \in Nat /\ w <= clock /\ (w = clock => clock \in readings)
         /\ clock \in Nat /\ wm \in Nat /\ wm \in Past \cup {0}
         /\ \A o \in Runners : /\ cur[o] \in Nat /\ newest[o] \in Nat
                               /\ cur[o] \in Past \cup {0} /\ newest[o] \in Past \cup {0}
<1>1. TypeInv /\ PastInv
  BY DEF Base
<1>2. readings \subseteq Times /\ readings \subseteq Past /\ clock \in Nat /\ clock > 0
  <2>1. clock \in Times /\ readings \subseteq Times
    BY <1>1, TypeFacts
  <2>2. readings \subseteq Past
    BY <2>1 DEF Past
  <2>3. clock \in Nat \ {0}
    BY <2>1, Constants
  <2> QED BY <2>1, <2>2, <2>3
<1>3. \A t \in Times : t \in Nat /\ t > 0
  BY Constants
<1>4. \A w \in Past \cup {0} : w \in Nat /\ w <= clock /\ (w = clock => clock \in readings)
  <2>1. ASSUME NEW w \in Past PROVE w \in Nat /\ w <= clock /\ (w = clock => clock \in readings)
    BY <1>1, <1>2, <1>3 DEF Past, PastInv
  <2> QED BY <1>2, <2>1
<1> QED BY <1>1, <1>2, <1>3, <1>4 DEF PastInv

(* What was known of readings up to w stays known: a new one comes later.  *)
LEMMA NewIsLater ==
  ASSUME Base, EnvStep, NEW w \in Past \cup {0}, NEW t \in readings', t <= w
  PROVE  t \in readings
<1>1. CASE StoreReading
  <2>1. t \in readings \/ t = clock
    BY <1>1 DEF StoreReading
  <2>2. t = clock => t \in readings
    BY <2>1, Numbers
  <2> QED BY <2>1, <2>2
<1>2. CASE ~StoreReading
  BY <1>2 DEF EnvStep, Tick, HealthChanges, Prune, EditZone
<1> QED BY <1>1, <1>2

(* Of two readings the later one is pruned last.                           *)
LEMMA LaterStays ==
  ASSUME Base, EnvStep, NEW t \in readings', t \in readings, NEW u \in readings, u > t
  PROVE  u \in readings'
<1>1. CASE \E b \in Times : Prune(b)
  <2>1. PICK b \in Times : readings' = {x \in readings : x >= b}
    BY <1>1 DEF Prune
  <2>2. t \in Nat /\ u \in Nat /\ b \in Nat /\ t >= b
    BY <2>1, Numbers
  <2> QED BY <2>1, <2>2
<1>2. CASE ~(\E b \in Times : Prune(b))
  BY <1>2 DEF EnvStep, Tick, StoreReading, HealthChanges, EditZone
<1> QED BY <1>1, <1>2

(* Complete watermarks stay complete, also over an outbox file truncated   *)
(* by a run that started from a later one.                                 *)
LEMMA CompleteStays ==
  ASSUME Base, Filed, [Next]_vars, Clean', NEW w \in Past \cup {0}, CompleteAt(w),
         \A r \in Runners : OpenFile(r) => w <= cur[r]
  PROVE  CompleteNext(w)
<1>0. zone' = zone /\ TypeInv /\ StageInv /\ readings \subseteq Times
  BY CleanBefore, Numbers DEF Base
<1>1. ASSUME NEW r \in Runners, RunnerStep(r), NEW t \in readings, t <= w
      PROVE  t \in Published' \/ \E u \in readings : u > w /\ MonthOf(u, zone) = MonthOf(t, zone)
  <2>1. t \in Published \/ \E u \in readings : u > w /\ MonthOf(u, zone) = MonthOf(t, zone)
    BY <1>1 DEF CompleteAt
  <2>2. CASE ~OpenFile(r)
    BY <1>1, <2>1, <2>2, PublishedMoves
  <2>3. CASE OpenFile(r) /\ MonthOf(t, zone) # This(r)
    BY <1>0, <1>1, <2>1, <2>3, PublishedMoves
  <2>4. CASE OpenFile(r) /\ MonthOf(t, zone) = This(r)
    <3>1. w <= cur[r] /\ Busy(r) /\ pc[r] # "mark"
      BY <2>4 DEF OpenFile, Busy
    <3>2. This(r) \in todo[r] /\ t <= cur[r]
      BY <1>0, <1>1, <3>1, MonthInHand, Numbers
    <3>3. PICK u \in readings : u > cur[r] /\ MonthOf(u, zone) = MonthOf(t, zone)
      BY <2>4, <3>1, <3>2 DEF Filed, Newer
    <3>4. u > w
      BY <3>1, <3>3, Numbers
    <3> QED BY <3>3, <3>4
  <2> QED BY <2>2, <2>3, <2>4
<1>2. CASE \E r \in Runners : RunnerStep(r)
  <2>1. PICK r \in Runners : RunnerStep(r)
    BY <1>2
  <2>2. readings' = readings
    BY <2>1, RestStays
  <2> QED BY <1>0, <1>1, <2>1, <2>2 DEF CompleteNext
<1>3. CASE EnvStep
  <2>1. file' = file
    BY <1>3, EnvFrame
  <2>2. Published' = Published
    BY <1>0, <2>1 DEF Published
  <2>3. ASSUME NEW t \in readings', t <= w
        PROVE  t \in Published \/ \E u \in readings' : u > w /\ MonthOf(u, zone) = MonthOf(t, zone)
    <3>1. t \in readings
      BY <1>3, <2>3, NewIsLater
    <3>2. CASE t \in Published
      BY <3>2
    <3>3. CASE t \notin Published
      <4>1. PICK u \in readings : u > w /\ MonthOf(u, zone) = MonthOf(t, zone)
        BY <2>3, <3>1, <3>3 DEF CompleteAt
      <4>2. u > t
        BY <2>3, <3>1, <4>1, Numbers
      <4>3. u \in readings'
        BY <1>3, <2>3, <3>1, <4>2, LaterStays
      <4> QED BY <4>1, <4>3
    <3> QED BY <3>2, <3>3
  <2> QED BY <1>0, <2>2, <2>3 DEF CompleteNext
<1>4. CASE Crash \/ UNCHANGED vars
  <2>1. readings' = readings /\ file' = file
    BY <1>4 DEF Crash, vars
  <2>2. Published' = Published
    BY <1>0, <2>1 DEF Published
  <2> QED BY <1>0, <2>1, <2>2 DEF CompleteNext, CompleteAt
<1> QED BY <1>2, <1>3, <1>4, StepKinds

(* The runs that write into an outbox started from the watermark or from   *)
(* an earlier one.                                                         *)
LEMMA OpensNewest ==
  ASSUME Base, Filed, Clean', NEW r \in Runners, OpenFile(r)
  PROVE  /\ wm <= cur[r] /\ \A o \in Runners : cur[o] <= cur[r]
         /\ \A o \in Runners \ {r} : ~Busy(o)
<1>1. ~(cur[r] < wm) /\ \A o \in Runners \ {r} : ~Busy(o)
  <2>1. TypeInv /\ ~crossed'
    BY DEF Base, Clean
  <2> QED BY <2>1, FileMoves
<1>2. dest = "outbox"
  BY DEF OpenFile, Base, StageInv
<1>3. \A o \in Runners : cur[o] <= wm
  BY <1>2 DEF Filed, OneByOne
<1> QED BY <1>1, <1>3, Numbers

LEMMA AtMarkNext == ASSUME Base, Filed, [Next]_vars, Clean' PROVE AtMark'
<1>1. CASE wm' = wm
  <2>1. wm \in Past \cup {0} /\ CompleteAt(wm) /\ \A r \in Runners : OpenFile(r) => wm <= cur[r]
    BY Numbers, OpensNewest DEF Filed, AtMark
  <2>2. CompleteNext(wm)
    BY <2>1, CompleteStays
  <2> QED BY <1>1, <2>2 DEF AtMark, CompleteAt, CompleteNext
<1>2. CASE \E r \in Runners : SetWatermark(r)
  <2>1. PICK r \in Runners : SetWatermark(r)
    BY <1>2
  <2>2. pc[r] = "mark" /\ wm' = newest[r] /\ Busy(r) /\ todo[r] = {} /\ file' = file
    BY <2>1 DEF SetWatermark, Busy, Base, StageInv
  <2>3. \A t \in readings : t <= newest[r] => t \in Published
    BY <2>2 DEF Filed, Pending, Left
  <2>4. readings' = readings /\ zone' = zone /\ Published' = Published
    BY <2>1 DEF SetWatermark, Published
  <2> QED BY <2>2, <2>3, <2>4 DEF AtMark, CompleteAt
<1>3. wm' = wm \/ \E r \in Runners : SetWatermark(r)
  <2>1. CASE \E r \in Runners : RunnerStep(r) /\ ~SetWatermark(r)
    BY <2>1 DEF RunnerStep, RunExport, Start, Query, Build, OpenFile, WriteFile, CloseFile, SignIn,
                Search, Upload, LogMonth, WriteFails, FlushFails, UploadFails, Throws
  <2>2. CASE EnvStep \/ Crash \/ UNCHANGED vars
    BY <2>2, EnvFrame DEF Crash, vars
  <2> QED BY <2>1, <2>2, StepKinds
<1> QED BY <1>1, <1>2, <1>3

LEMMA AtCopiesNext == ASSUME Base, Filed, [Next]_vars, Clean' PROVE AtCopies'
<1>0. \A r, o \in Runners : OpenFile(r) => wm <= cur[r] /\ cur[o] <= cur[r]
  BY OpensNewest
<1>1. CompleteNext(0)
  <2>1. TypeInv'
    BY TypeNext DEF Base
  <2>2. \A t \in readings' : t \in Nat /\ t > 0
    BY <2>1, Numbers DEF TypeInv, TypeOK
  <2> QED BY <2>2 DEF CompleteNext
<1>2. CompleteNext(wm)
  BY <1>0, Numbers, CompleteStays DEF Filed, AtMark
<1>3. ASSUME NEW o \in Runners PROVE CompleteNext(cur[o])
  BY <1>0, Numbers, CompleteStays DEF Filed, AtCopies
<1>4. ASSUME NEW o \in Runners PROVE cur'[o] \in {0, wm, cur[o]}
  <2>1. CASE \E r \in Runners : RunnerStep(r)
    <3>1. PICK r \in Runners : RunnerStep(r)
      BY <2>1
    <3>2. TypeInv
      BY DEF Base
    <3>3. CASE o = r
      BY <3>1, <3>2, <3>3, StartsAndEnds, RunEnds DEF Begins
    <3>4. CASE o # r
      BY <3>1, <3>2, <3>4, OthersStay
    <3> QED BY <3>3, <3>4
  <2>2. CASE EnvStep \/ Crash \/ UNCHANGED vars
    BY <2>2, EnvFrame DEF Crash, vars, run
  <2> QED BY <2>1, <2>2, StepKinds
<1>5. ASSUME NEW o \in Runners PROVE CompleteNext(cur'[o])
  BY <1>1, <1>2, <1>3, <1>4
<1> QED BY <1>5 DEF AtCopies, CompleteAt, CompleteNext

-----------------------------------------------------------------------------
(* The rest of FileInv.  (The parts are proved of the steps that matter:   *)
(* a crash leaves no run, and a stuttering step nothing to prove.)         *)

LEMMA BaseFacts ==
  ASSUME Base, [Next]_vars, Clean'
  PROVE  /\ TypeInv /\ PastInv /\ StageInv /\ HandInv /\ ZoneInv
         /\ Clean /\ ~crossed /\ ~rezoned /\ ~unflushed' /\ ~crossed' /\ zone' = zone
         /\ EnvStep => /\ UNCHANGED <<dest, wm, file, pc, cur, newest, tz, todo, rows, found>>
                       /\ Published' = Published
                       /\ \A o \in Runners : This(o)' = This(o)
<1>1. Clean /\ zone' = zone
  BY CleanBefore
<1>2. ASSUME EnvStep
      PROVE  /\ UNCHANGED <<dest, wm, file, pc, cur, newest, tz, todo, rows, found>>
             /\ Published' = Published
             /\ \A o \in Runners : This(o)' = This(o)
  <2>1. UNCHANGED <<dest, wm, file, pc, cur, newest, tz, todo, rows, found>>
    BY <1>2, EnvFrame
  <2> QED BY <1>1, <2>1, ThisStays DEF Published
<1> QED BY <1>1, <1>2 DEF Base, Clean

LEMMA StaysBusy ==
  ASSUME TypeInv, NEW r \in Runners, RunnerStep(r), Busy(r)'
  PROVE  \/ Begins(r) /\ file' = file
         \/ /\ Busy(r) /\ pc[r] # "mark" /\ cur'[r] = cur[r] /\ newest'[r] = newest[r]
            /\ todo'[r] \subseteq todo[r]
<1>1. ~EndRun(r) /\ pc'[r] # "query"
  BY RunEnds DEF Busy
<1>2. CASE Begins(r)
  BY <1>2, QuietMoves, FileMoves DEF RunnerStep, RunExport, Moves, Begins
<1>3. CASE ~Begins(r)
  BY <1>1, <1>3, QuietMoves, FileMoves DEF RunnerStep, RunExport, Moves, Kept, Busy
<1> QED BY <1>2, <1>3

LEMMA PendingNext ==
  ASSUME Base, Filed, [Next]_vars, Clean', EnvStep \/ \E r \in Runners : RunnerStep(r)
  PROVE  Pending'
<1> USE BaseFacts
<1>1. CASE EnvStep
  <2>1. ASSUME NEW o \in Runners, Busy(o), NEW t \in readings', t <= newest[o]
        PROVE  t \in Published \/ MonthOf(t, zone) \in Left(o)
    <3>1. t \in readings
      BY <1>1, <2>1, NewIsLater, Numbers
    <3> QED BY <2>1, <3>1 DEF Filed, Pending
  <2>2. \A o \in Runners : (Busy(o)' <=> Busy(o)) /\ Left(o)' = Left(o)
    BY <1>1 DEF Busy, Left
  <2> QED BY <1>1, <2>1, <2>2 DEF Pending
<1>2. ASSUME NEW r \in Runners, RunnerStep(r), NEW o \in Runners, Busy(o)',
             NEW t \in readings, t <= newest'[o]
      PROVE  t \in Published' \/ MonthOf(t, zone) \in Left(o)'
  <2>0. readings \subseteq Times /\ t \in Times
    BY Numbers
  <2>1. CASE o # r
    <3>1. ~OpenFile(r) \/ ~Busy(o)
      BY <2>1, OpensNewest
    <3>2. Busy(o) /\ t <= newest[o] /\ Left(o)' = Left(o)
      BY <1>2, <2>1, OthersStay, ThisStays DEF Busy, Left
    <3>3. t \in Published \/ MonthOf(t, zone) \in Left(o)
      BY <3>2 DEF Filed, Pending
    <3> QED BY <1>2, <3>1, <3>2, <3>3, PublishedMoves
  <2>2. CASE o = r /\ Begins(r)
    <3>1. file' = file /\ Published' = Published
      <4>1. ~Busy(r)
        BY <2>2 DEF Begins, Busy
      <4>2. file' = file
        BY <1>2, <2>2, <4>1, StaysBusy
      <4> QED BY <4>2 DEF Published
    <3>2. Left(r)' = todo'[r] /\ t <= newest'[r]
      BY <1>2, <2>2 DEF Begins, Left
    <3>3. \A u \in readings : u > cur[r] => MonthOf(u, zone) \in todo'[r]
      BY <2>2 DEF Begins, FreshAfter, PastInv
    <3>4. CASE t > cur[r]
      BY <2>2, <3>2, <3>3, <3>4
    <3>5. CASE t <= cur[r]
      BY <2>2, <3>1, <3>2, <3>3, <3>5 DEF Filed, AtCopies, CompleteAt
    <3> QED BY <3>4, <3>5, <2>0, Numbers
  <2>3. CASE o = r /\ ~Begins(r)
    <3>1. Busy(r) /\ pc[r] # "mark" /\ t <= newest[r]
      BY <1>2, <2>3, StaysBusy
    <3>2. t \in Published \/ MonthOf(t, zone) \in Left(r)
      BY <3>1 DEF Filed, Pending
    <3>3. CASE CloseFile(r) \/ Upload(r)
      <4>1. InHand(r) /\ pc[r] # "log" /\ Left(r)' = todo[r] \ {This(r)} /\ Left(r) = todo[r]
        BY <3>3, FileMoves, ThisStays DEF Moves, Kept, InHand, Left
      <4>2. MonthOf(t, zone) = This(r) => t \in Published'
        BY <2>0, <3>1, <3>3, <4>1, PublishedMoves, <1>2 DEF Filed, RowsCover
      <4>3. ~OpenFile(r)
        BY <3>3 DEF OpenFile, CloseFile, Upload
      <4> QED BY <1>2, <2>3, <3>2, <4>1, <4>2, <4>3, PublishedMoves
    <3>4. CASE OpenFile(r)
      <4>1. InHand(r) /\ Left(r)' = todo[r] /\ Left(r) = todo[r] /\ This(r) \in todo[r]
        BY <3>1, <3>4, FileMoves, MonthInHand DEF Moves, Kept, InHand, Left
      <4> QED BY <1>2, <2>0, <2>3, <3>2, <4>1, PublishedMoves
    <3>5. CASE LogMonth(r)
      <4>1. Left(r) = todo[r] \ {This(r)} /\ Left(r)' = todo[r] \ {This(r)}
        BY <3>5, QuietMoves DEF Left
      <4>2. ~OpenFile(r)
        BY <3>5 DEF OpenFile, LogMonth
      <4> QED BY <1>2, <2>3, <3>2, <4>1, <4>2, PublishedMoves
    <3>6. CASE ~CloseFile(r) /\ ~Upload(r) /\ ~OpenFile(r) /\ ~LogMonth(r)
      <4>1. Build(r) \/ SignIn(r) \/ Search(r) \/ WriteFile(r)
        BY <1>2, <2>3, <3>1, <3>6, RunEnds, QuietMoves, FileMoves
           DEF RunnerStep, RunExport, Busy
      <4>2. Left(r)' = todo[r] /\ Left(r) = todo[r]
        BY <4>1, QuietMoves, FileMoves DEF Left, Moves, Kept
      <4> QED BY <1>2, <2>3, <3>2, <3>6, <4>2, PublishedMoves
    <3> QED BY <3>3, <3>4, <3>5, <3>6
  <2> QED BY <2>1, <2>2, <2>3
<1>3. ASSUME NEW r \in Runners, RunnerStep(r) PROVE Pending'
  <2>1. readings' = readings
    BY <1>3, RestStays
  <2> QED BY <1>2, <1>3, <2>1 DEF Pending
<1> QED BY <1>1, <1>3

LEMMA NewerNext ==
  ASSUME Base, Filed, [Next]_vars, Clean', EnvStep \/ \E r \in Runners : RunnerStep(r)
  PROVE  Newer'
<1> USE BaseFacts
<1>1. CASE EnvStep
  <2>1. ASSUME NEW o \in Runners, Busy(o), NEW t \in readings', t <= cur[o], MonthOf(t, zone) \in todo[o]
        PROVE  \E u \in readings' : u > cur[o] /\ MonthOf(u, zone) = MonthOf(t, zone)
    <3>1. t \in readings
      BY <1>1, <2>1, NewIsLater, Numbers
    <3>2. PICK u \in readings : u > cur[o] /\ MonthOf(u, zone) = MonthOf(t, zone)
      BY <2>1, <3>1 DEF Filed, Newer
    <3>3. u > t
      BY <2>1, <3>1, <3>2, Numbers
    <3>4. u \in readings'
      BY <1>1, <3>1, <3>3, LaterStays
    <3> QED BY <3>2, <3>4
  <2>2. \A o \in Runners : Busy(o)' <=> Busy(o)
    BY <1>1 DEF Busy
  <2> QED BY <1>1, <2>1, <2>2 DEF Newer
<1>2. ASSUME NEW r \in Runners, RunnerStep(r), NEW o \in Runners, Busy(o)',
             NEW t \in readings, t <= cur'[o], MonthOf(t, zone) \in todo'[o]
      PROVE  \E u \in readings : u > cur'[o] /\ MonthOf(u, zone) = MonthOf(t, zone)
  <2>1. CASE o # r
    BY <1>2, <2>1, OthersStay DEF Busy, Filed, Newer
  <2>2. CASE o = r /\ Begins(r)
    BY <1>2, <2>2 DEF Begins, FreshAfter
  <2>3. CASE o = r /\ ~Begins(r)
    <3>1. Busy(r) /\ cur'[r] = cur[r] /\ todo'[r] \subseteq todo[r]
      BY <1>2, <2>3, StaysBusy
    <3> QED BY <1>2, <2>3, <3>1 DEF Filed, Newer
  <2> QED BY <2>1, <2>2, <2>3
<1>3. ASSUME NEW r \in Runners, RunnerStep(r) PROVE Newer'
  <2>1. readings' = readings
    BY <1>3, RestStays
  <2> QED BY <1>2, <1>3, <2>1 DEF Newer
<1> QED BY <1>1, <1>3

(* The rows in hand of a month just queried.                               *)
LEMMA FreshRows ==
  ASSUME Base, Clean, NEW r \in Runners, Build(r), NEW t \in readings, MonthOf(t, zone) = This(r)
  PROVE  t \in Rows(r)
<1>1. Busy(r) /\ pc[r] # "mark"
  BY DEF Build, Busy
<1>2. tz[r] = zone /\ zone \in Zones /\ readings \subseteq Times
  BY <1>1, TypeFacts DEF Base, ZoneInv, Clean
<1>3. This(r) \in Nat
  BY <1>1, MonthInHand DEF Base
<1> QED BY <1>2, <1>3, RowsOfMonth

LEMMA RowsCoverNext ==
  ASSUME Base, Filed, [Next]_vars, Clean', EnvStep \/ \E r \in Runners : RunnerStep(r)
  PROVE  RowsCover'
<1> USE BaseFacts
<1>1. CASE EnvStep
  <2>1. ASSUME NEW o \in Runners, InHand(o), NEW t \in readings', MonthOf(t, zone) = This(o),
               t <= newest[o] \/ t \in Published
        PROVE  t \in rows[o]
    <3>1. CASE t \in readings
      BY <2>1, <3>1 DEF Filed, RowsCover
    <3>2. CASE t \notin readings
      <4>1. t \in Published
        BY <1>1, <2>1, <3>2, NewIsLater, Numbers
      <4>2. t \in Past
        BY <4>1, MonthTypes, TypeFacts DEF Published, PastInv
      <4>3. t \in Nat /\ t <= t
        BY <4>2, Numbers
      <4> QED BY <1>1, <3>2, <4>2, <4>3, NewIsLater
    <3> QED BY <3>1, <3>2
  <2>2. \A o \in Runners : InHand(o)' <=> InHand(o)
    BY <1>1 DEF InHand
  <2> QED BY <1>1, <2>1, <2>2 DEF RowsCover
<1>2. ASSUME NEW r \in Runners, RunnerStep(r), NEW o \in Runners, InHand(o)',
             NEW t \in readings, MonthOf(t, zone) = This(o)',
             t <= newest'[o] \/ t \in Published'
      PROVE  t \in rows'[o]
  <2>0. readings \subseteq Times /\ t \in Times
    BY Numbers
  <2>1. CASE o # r
    <3>1. /\ InHand(o) /\ newest'[o] = newest[o] /\ rows'[o] = rows[o]
      BY <1>2, <2>1, OthersStay DEF InHand
    <3>2. This(o)' = This(o) /\ ~(InHand(r) /\ This(r) = This(o))
      BY <1>2, <2>1, <3>1, HandsOff DEF HandInv
    <3>3. t \in Published' => t \in Published
      BY <1>2, <2>0, <3>2, PublishedMoves
    <3> QED BY <1>2, <3>1, <3>2, <3>3 DEF Filed, RowsCover
  <2>2. CASE o = r /\ Build(r)
    <3>1. rows'[r] = Rows(r) /\ This(r)' = This(r)
      BY <1>2, <2>2, FileMoves, StaysInHand
    <3> QED BY <1>2, <2>2, <3>1, FreshRows
  <2>3. CASE o = r /\ ~Build(r)
    <3>1. InHand(r) /\ This(r)' = This(r)
      BY <1>2, <2>3, StaysInHand
    <3>2. OpenFile(r) \/ WriteFile(r) \/ SignIn(r) \/ Search(r)
      BY <1>2, <2>3, RunEnds, QuietMoves, FileMoves DEF RunnerStep, RunExport, Moves, Begins, InHand
    <3>3. rows'[r] = rows[r] /\ newest'[r] = newest[r]
      BY <3>2, QuietMoves, FileMoves DEF Moves, Kept
    <3>4. CASE t <= newest[r] \/ t \in Published
      BY <1>2, <2>3, <3>1, <3>3, <3>4 DEF Filed, RowsCover
    <3>5. CASE t \in Published' /\ t \notin Published
      <4>1. ~OpenFile(r)
        BY <1>2, <2>0, <2>3, <3>1, <3>5, PublishedMoves
      <4>2. ~(SignIn(r) \/ Search(r))
        BY <3>5, QuietMoves DEF Published
      <4> QED BY <1>2, <2>0, <2>3, <3>1, <3>2, <3>3, <3>5, <4>1, <4>2, PublishedMoves
    <3> QED BY <1>2, <2>3, <3>3, <3>4, <3>5
  <2> QED BY <2>1, <2>2, <2>3
<1>3. ASSUME NEW r \in Runners, RunnerStep(r) PROVE RowsCover'
  <2>1. readings' = readings
    BY <1>3, RestStays
  <2> QED BY <1>2, <1>3, <2>1 DEF RowsCover
<1> QED BY <1>1, <1>3

LEMMA TornNext ==
  ASSUME Base, Filed, [Next]_vars, Clean', EnvStep \/ \E r \in Runners : RunnerStep(r)
  PROVE  Torn'
<1> USE BaseFacts
<1>1. CASE EnvStep
  BY <1>1 DEF Filed, Torn
<1>2. ASSUME NEW r \in Runners, RunnerStep(r), NEW o \in Runners, pc'[o] = "write"
      PROVE  file'[This(o)'] = <<{}>>
  <2>1. CASE o # r
    <3>1. pc[o] = "write" /\ InHand(o)
      BY <1>2, <2>1, OthersStay DEF InHand
    <3>2. This(o)' = This(o) /\ file'[This(o)] = file[This(o)]
      BY <1>2, <2>1, <3>1, HandsOff
    <3> QED BY <3>1, <3>2 DEF Filed, Torn
  <2>2. CASE o = r
    <3>1. OpenFile(r)
      BY <1>2, <2>2, RunEnds, QuietMoves, FileMoves DEF RunnerStep, RunExport, Moves, Begins
    <3>2. Becomes(r, <<{}>>) /\ This(r)' = This(r) /\ This(r) \in Months
      <4>1. InHand(r) /\ InHand(r)'
        BY <1>2, <2>2, <3>1 DEF OpenFile, InHand
      <4> QED BY <1>2, <3>1, <4>1, FileEffects, StaysInHand, MonthInHand, HandsBusy
    <3>3. file'[This(r)] = <<{}>>
      BY <3>2, TypeFacts DEF Becomes
    <3> QED BY <2>2, <3>2, <3>3
  <2> QED BY <2>1, <2>2
<1> QED BY <1>1, <1>2 DEF Torn

LEMMA OneByOneNext ==
  ASSUME Base, Filed, [Next]_vars, Clean', EnvStep \/ \E r \in Runners : RunnerStep(r)
  PROVE  OneByOne'
<1> USE BaseFacts
<1>1. CASE EnvStep
  BY <1>1 DEF Filed, OneByOne
<1>2. ASSUME NEW r \in Runners, RunnerStep(r), dest = "outbox", NEW o \in Runners
      PROVE  /\ cur'[o] <= wm'
             /\ pc'[o] \in Filling => wm' <= cur'[o] /\ \A p \in Runners \ {o} : pc'[p] \notin Filling
  <2>0. /\ \A p \in Runners : cur[p] <= wm
        /\ \A p \in Runners : pc[p] \in Filling =>
             wm <= cur[p] /\ \A q \in Runners \ {p} : pc[q] \notin Filling
    BY <1>2 DEF Filed, OneByOne
  <2>1. \A p \in Runners \ {r} : pc'[p] = pc[p] /\ cur'[p] = cur[p]
    BY <1>2, OthersStay
  <2>2. CASE SetWatermark(r)
    <3>1. pc[r] = "mark" /\ wm' = newest[r] /\ pc'[r] \in {"idle", "done"} /\ cur'[r] = 0
      BY <2>2, QuietMoves, RunEnds
    <3>2. cur[r] < newest[r] /\ pc[r] \in Filling
      BY <3>1 DEF StageInv, Busy, Filling
    <3>3. wm <= wm' /\ wm' \in Nat
      BY <2>0, <3>1, <3>2, Numbers
    <3>4. \A p \in Runners : pc'[p] \notin Filling
      BY <2>0, <2>1, <3>1, <3>2 DEF Filling
    <3>5. cur'[o] <= wm'
      BY <2>0, <2>1, <3>1, <3>3, Numbers
    <3> QED BY <3>4, <3>5
  <2>3. CASE ~SetWatermark(r)
    <3>1. wm' = wm
      BY <1>2, <2>3 DEF RunnerStep, RunExport, Start, Query, Build, OpenFile, WriteFile, CloseFile,
            SignIn, Search, Upload, LogMonth, WriteFails, FlushFails, UploadFails, Throws
    <3>2. cur'[r] \in {0, wm, cur[r]}
      BY <1>2, StartsAndEnds, RunEnds DEF Begins
    <3>3. cur'[o] <= wm'
      BY <2>0, <2>1, <3>1, <3>2, Numbers
    <3>4. CASE OpenFile(r)
      <4>1. wm <= cur[r] /\ cur'[r] = cur[r] /\ \A p \in Runners \ {r} : ~Busy(p)
        BY <3>4, OpensNewest, FileMoves DEF Moves, Kept
      <4>2. \A p \in Runners \ {r} : pc'[p] \notin Filling
        BY <2>1, <4>1 DEF Busy, Filling
      <4> QED BY <3>1, <3>3, <4>1, <4>2
    <3>5. CASE ~OpenFile(r)
      <4>1. pc'[r] \in Filling => pc[r] \in Filling /\ cur'[r] = cur[r]
        <5>1. CASE EndRun(r) \/ Begins(r) \/ Start(r) \/ Build(r) \/ SignIn(r) \/ Search(r)
          BY <5>1, RunEnds, QuietMoves, FileMoves DEF Moves, Begins, Filling
        <5>2. CASE WriteFile(r) \/ CloseFile(r) \/ LogMonth(r) \/ FlushFails(r)
          BY <5>2, QuietMoves, FileMoves DEF Moves, Kept, Filling
        <5>3. CASE Upload(r)
          BY <1>2, <5>3 DEF Upload, StageInv
        <5> QED BY <1>2, <2>3, <3>5, <5>1, <5>2, <5>3, QuietMoves, FileMoves DEF RunnerStep, RunExport
      <4> QED BY <2>0, <2>1, <3>1, <3>3, <4>1
    <3> QED BY <3>4, <3>5
  <2> QED BY <2>2, <2>3
<1>3. ASSUME NEW r \in Runners, RunnerStep(r) PROVE OneByOne'
  <2>1. dest' = dest
    BY <1>3, RestStays
  <2> QED BY <1>2, <1>3, <2>1 DEF OneByOne
<1> QED BY <1>1, <1>3

LEMMA FileNext == ASSUME Base, FileInv, [Next]_vars PROVE FileInv'
<1> SUFFICES ASSUME Clean' PROVE Filed'
  BY DEF FileInv
<1>0. Filed /\ zone' = zone
  BY CleanBefore DEF FileInv
<1>1. AtMark' /\ AtCopies'
  BY <1>0, AtMarkNext, AtCopiesNext
<1>2. CASE EnvStep \/ \E r \in Runners : RunnerStep(r)
  BY <1>0, <1>1, <1>2, PendingNext, NewerNext, RowsCoverNext, TornNext, OneByOneNext DEF Filed
<1>3. CASE Crash
  <2>1. \A r \in Runners : pc'[r] \in {"idle", "done"} /\ cur'[r] = 0
    BY <1>3 DEF Crash
  <2>2. \A r \in Runners : ~Busy(r)' /\ ~InHand(r)' /\ pc'[r] \notin Filling
    BY <2>1 DEF Busy, InHand, Filling
  <2>3. \A r \in Runners : cur'[r] <= wm'
    BY <1>3, <2>1, Numbers DEF Crash
  <2>4. Pending' /\ Newer' /\ RowsCover'
    BY <2>2 DEF Pending, Newer, RowsCover
  <2>5. Torn' /\ OneByOne'
    BY <2>1, <2>2, <2>3 DEF Torn, OneByOne
  <2> QED BY <1>1, <2>4, <2>5 DEF Filed
<1>4. CASE UNCHANGED vars
  <2>1. UNCHANGED <<dest, zone, clock, readings, wm, file, pc, cur, newest, tz, todo, rows, found>>
    BY <1>4 DEF vars, run
  <2>2. Published' = Published
    BY <2>1 DEF Published
  <2>3. \A r \in Runners : /\ This(r)' = This(r) /\ (Busy(r)' <=> Busy(r))
                           /\ (InHand(r)' <=> InHand(r)) /\ Left(r)' = Left(r)
    BY <2>1, ThisStays DEF Busy, InHand, Left
  <2>4. Pending' /\ Newer'
    BY <1>0, <2>1, <2>2, <2>3 DEF Filed, Pending, Newer
  <2>5. RowsCover'
    BY <1>0, <2>1, <2>2, <2>3 DEF Filed, RowsCover
  <2>6. Torn' /\ OneByOne'
    BY <1>0, <2>1, <2>3 DEF Filed, Torn, OneByOne
  <2> QED BY <1>1, <2>4, <2>5, <2>6 DEF Filed
<1> QED BY <1>2, <1>3, <1>4, StepKinds

-----------------------------------------------------------------------------
(* Theorems.                                                               *)

Inv == Base /\ FileInv

LEMMA Inductive == Spec => []Inv
<1>1. Init => Inv
  BY InitInv DEF Inv, Base
<1>2. Inv /\ [Next]_vars => Inv'
  BY TypeNext, PastNext, StageNext, HandNext, ZoneNext, FileNext DEF Inv, Base
<1> QED BY <1>1, <1>2, PTL DEF Spec

(* The locals, the files and the rows of every run keep their types; no    *)
(* month's list of files outgrows its bound.                               *)
THEOREM TypeCorrect == Spec => []TypeOK
<1>1. Inv => TypeOK
  BY DEF Inv, Base, TypeInv
<1> QED BY <1>1, Inductive, PTL

(* No gap in the monthly files, for every instance: without an unnoticed   *)
(* flush failure, a change of timezone or runs that cross, whatever is     *)
(* stored at or before last_export_ts stands in its month's file, or a     *)
(* newer reading gets that month rebuilt, whatever fails or crashes half-  *)
(* way through a month.                                                    *)
THEOREM MonthsCompleteAlways == Spec => []MonthsComplete
<1>1. Inv => MonthsComplete
  BY DEF Inv, FileInv, Filed, Clean, AtMark, CompleteAt, MonthsComplete, Complete, RebuildDue
<1> QED BY <1>1, Inductive, PTL

(* A search by name before every upload keeps one file per month, for any  *)
(* number of runs that do not have a month in hand at once, also when an   *)
(* answer is lost after Drive has created the file.                        *)
THEOREM OneFilePerMonthAlways == Spec => []OneFilePerMonth
<1>1. Inv => OneFilePerMonth
  BY DEF Inv, Base, HandInv, OneFilePerMonth
<1> QED BY <1>1, Inductive, PTL

(* Export to Drive is delivery at least once: an upload keeps what the     *)
(* file it replaces had, and a watermark is written only over published    *)
(* readings.  Inserts, prunes, uploads and the watermark are the abstract  *)
(* steps, all others stutter.                                              *)
THEOREM DriveIsAtLeastOnce == Spec => DriveAtLeastOnce
<1>1. Init => Delivery!Init
  <2> SUFFICES ASSUME Init PROVE Delivery!Init
    OBVIOUS
  <2>1. \A t \in Times : MonthOf(t, zone) \in Months
    BY MonthTypes DEF Init
  <2>2. \A t \in Times : file[MonthOf(t, zone)] = << >>
    BY <2>1 DEF Init
  <2>3. Published = {}
    BY <2>2 DEF Published
  <2> QED BY <2>3 DEF Init, Delivery!Init
<1>2. ASSUME Inv, Inv', [Next]_vars, dest = "drive", ~rezoned', ~crossed'
      PROVE  Delivery!Next \/ UNCHANGED <<readings, Published, wm>>
  <2>1. Base /\ Clean' /\ dest' = dest
    <3>1. dest' = dest
      BY <1>2, StepKinds, RestStays, EnvFrame DEF Crash, vars
    <3> QED BY <1>2, <3>1 DEF Inv, Base, StageInv, Clean
  <2>2. Filed /\ zone' = zone
    BY <1>2, <2>1, CleanBefore DEF Inv, FileInv
  <2>3. ASSUME NEW r \in Runners, RunnerStep(r)
        PROVE  Delivery!Next \/ UNCHANGED <<readings, Published, wm>>
    <3>1. readings' = readings
      BY <2>3, RestStays
    <3>2. CASE SetWatermark(r)
      <4>1. pc[r] = "mark" /\ Busy(r) /\ todo[r] = {} /\ cur[r] < newest[r]
        BY <2>1, <3>2 DEF SetWatermark, Busy, Base, StageInv
      <4>2. newest[r] \in Times
        <5>1. newest[r] \in 0..MaxTime /\ cur[r] \in 0..MaxTime
          BY <2>1, TypeFacts DEF Base
        <5> QED BY <4>1, <5>1, Constants DEF Times
      <4>3. Delivery!Settled(newest[r])
        BY <2>2, <4>1 DEF Delivery!Settled, Filed, Pending, Left
      <4>4. wm' = newest[r] /\ Published' = Published
        BY <2>2, <3>2 DEF SetWatermark, Published
      <4> QED BY <3>1, <4>2, <4>3, <4>4 DEF Delivery!Settle, Delivery!Next
    <3>3. CASE ~SetWatermark(r)
      <4>1. wm' = wm
        BY <2>3, <3>3 DEF RunnerStep, RunExport, Start, Query, Build, OpenFile, WriteFile, CloseFile,
              SignIn, Search, Upload, LogMonth, WriteFails, FlushFails, UploadFails, Throws
      <4>2. ~OpenFile(r)
        BY <1>2, <2>1 DEF OpenFile, Base, StageInv
      <4>3. Published \cap readings \subseteq Published'
        BY <2>1, <2>2, <2>3, <4>2, PublishedMoves
      <4>4. Published' \in SUBSET Times
        BY DEF Published
      <4>5. PICK S \in SUBSET Times : S = Published'
        BY <4>4
      <4>6. Delivery!Publish(S)
        BY <3>1, <4>1, <4>3, <4>5 DEF Delivery!Publish
      <4> QED BY <4>6 DEF Delivery!Next
    <3> QED BY <3>2, <3>3
  <2>4. ASSUME EnvStep PROVE Delivery!Next \/ UNCHANGED <<readings, Published, wm>>
    <3>1. wm' = wm /\ Published' = Published
      BY <2>2, <2>4, EnvFrame DEF Published
    <3>2. CASE StoreReading
      <4>1. clock \in Times /\ readings' = readings \cup {clock}
        BY <2>1, <3>2, TypeFacts DEF StoreReading, Base
      <4>2. CASE clock \in readings
        BY <3>1, <4>1, <4>2
      <4>3. CASE clock \notin readings
        <5>1. clock > wm
          BY <2>1, <4>3, Numbers
        <5>2. Delivery!Store(clock)
          BY <3>1, <4>1, <5>1 DEF Delivery!Store
        <5> QED BY <4>1, <5>2 DEF Delivery!Next
      <4> QED BY <4>2, <4>3
    <3>3. CASE \E b \in Times : Prune(b)
      <4>1. PICK b \in Times : readings' = {t \in readings : t >= b}
        BY <3>3 DEF Prune
      <4> QED BY <3>1, <4>1 DEF Delivery!Prune, Delivery!Next
    <3>4. CASE ~StoreReading /\ ~\E b \in Times : Prune(b)
      BY <2>4, <3>1, <3>4 DEF EnvStep, Tick, HealthChanges, EditZone
    <3> QED BY <3>2, <3>3, <3>4
  <2>5. CASE Crash \/ UNCHANGED vars
    BY <2>2, <2>5 DEF Crash, vars, Published
  <2> QED BY <1>2, <2>3, <2>4, <2>5, StepKinds
<1>3. Inv /\ Inv' /\ [Next]_vars =>
        [dest = "drive" /\ ~rezoned' /\ ~crossed' => Delivery!Next]_<<readings, Published, wm>>
  BY <1>2
<1> QED BY <1>1, <1>3, Inductive, PTL DEF Spec, DriveAtLeastOnce
=============================================================================
