------------------------------- MODULE Backup -------------------------------
(***************************************************************************)
(* nwdb backup and nwdb restore (src/cli/nwdb.cpp, dump_sql and            *)
(* restore_sql of src/db/database.cpp) while the daemon goes on writing.   *)
(* The dump reads the tables one after the other, in the alphabetical      *)
(* order SHOW TABLES lists them, with no transaction; the restore runs the *)
(* file line by line, each line one statement, with the foreign keys off.  *)
(*                                                                         *)
(* Two tables stand for every foreign key of the schema: a child, each row *)
(* of which refers to a row of the parent by its id.  The id is either the *)
(* parent's AUTO_INCREMENT, as sessions refer to users, or the user chose  *)
(* it, and may choose it again after a DELETE, as readings refer to        *)
(* sensors and weather readings to stations.  In every such pair the       *)
(* child's name comes first.  What a row refers to is kept as an id, as    *)
(* the database does, and as the birth number of the row that was meant.   *)
(***************************************************************************)
EXTENDS Naturals, FiniteSets, Sequences

CONSTANTS
  Keys,        \* primary keys of the child table
  MaxParents,  \* bound: ids of the parent table
  MaxBirths,   \* bound: parent rows ever inserted by the daemon
  MaxTools     \* bound: backups and restores ever begun

ASSUME BackupAssumption ==
  MaxParents \in Nat \ {0} /\ MaxBirths \in Nat /\ MaxTools \in Nat

ParentIds    == 1..MaxParents
NoLink == [of |-> 0, born |-> 0]
Pair   == {"child", "parent"}

(* The lines of a backup file. *)
Script == << [do |-> "drop", table |-> "child"], [do |-> "create", table |-> "child"],
             [do |-> "insert", table |-> "child"],
             [do |-> "drop", table |-> "parent"], [do |-> "create", table |-> "parent"],
             [do |-> "insert", table |-> "parent"] >>

VARIABLES
  exist,      \* the tables that exist
  child,      \* the child's rows: the parent each refers to
  parent,     \* the parent's rows, by id: their birth number, 0 if none
  autoInc,    \* the parent's AUTO_INCREMENT
  chosen,     \* whether the parent's ids are chosen by the user; then there is
              \* no AUTO_INCREMENT, and autoInc means nothing
  births, tools,
  file,       \* the backup file
  dumping,    \* the next thing dump_sql reads
  restoring,  \* the next line restore_sql runs, 0 if none
  restored,   \* how the last restore ended
  shrunk,     \* history: the pair did not agree when the file's dump began, or
              \* a parent was deleted during it
  unflushed,  \* history: the file's last buffer was lost unnoticed
  touched,    \* history: the daemon wrote during the last restore
  unread,     \* history: the last restore ended on an error reading its file
  partial,    \* history: the children's rows were restored and the parents'
              \* rows since then were not, or from a dump that is shrunk
  straddled   \* history: between the restore of the child table and that of
              \* its parent the daemon added a child; or it made the parent
              \* table anew after a restore had dropped it; or the parent was
              \* restored from a dump taken while there was no child table

rowVars    == <<exist, child, parent, autoInc, chosen, births>>
fileVars   == <<file, shrunk, unflushed>>
mixVars    == <<unread, partial>>
backupVars == <<rowVars, tools, fileVars, dumping, restoring, restored, touched, mixVars,
                straddled>>

NoChildren == [k \in Keys |-> NoLink]
NoParents  == [i \in ParentIds |-> 0]
Truncated  == [tables |-> {}, child |-> NoChildren, parent |-> NoParents, inc |-> 1,
               lines |-> 0, ok |-> FALSE]

(* Every child's parent is there, and is the one that was meant. *)
Agree(c, p) == \A k \in Keys : c[k] # NoLink => p[c[k].of] = c[k].born

BackupInit ==
  /\ exist = Pair /\ child = NoChildren /\ parent = NoParents /\ autoInc = 1
  /\ chosen \in BOOLEAN /\ births = 0 /\ tools = 0
  /\ file = Truncated /\ dumping = "idle" /\ restoring = 0 /\ restored = "none"
  /\ shrunk = FALSE /\ unflushed = FALSE /\ touched = FALSE /\ straddled = FALSE
  /\ unread = FALSE /\ partial = FALSE

-----------------------------------------------------------------------------
(* The daemon, one statement at a time.                                    *)

Touch == touched' = (touched \/ restoring # 0)

(* An id nobody has, or the next one. *)
AddParent ==
  /\ "parent" \in exist /\ births < MaxBirths
  /\ births' = births + 1
  /\ \E i \in ParentIds :
       /\ IF chosen THEN parent[i] = 0 /\ UNCHANGED autoInc
                    ELSE i = autoInc /\ autoInc' = autoInc + 1
       /\ parent' = [parent EXCEPT ![i] = births + 1]
  /\ Touch
  /\ UNCHANGED <<exist, child, chosen, tools, fileVars, dumping, restoring, restored, mixVars,
                 straddled>>

(* The daemon's session has the foreign keys on. *)
AddChild ==
  /\ exist = Pair
  /\ \E k \in Keys, i \in ParentIds :
       /\ child[k] = NoLink /\ parent[i] # 0
       /\ child' = [child EXCEPT ![k] = [of |-> i, born |-> parent[i]]]
  /\ Touch
  /\ straddled' = (straddled \/ restoring \in {3, 4})
  /\ UNCHANGED <<exist, parent, autoInc, chosen, births, tools, fileVars, dumping, restoring, restored,
                 mixVars>>

(* ON DELETE CASCADE *)
RemoveParent ==
  /\ "parent" \in exist
  /\ \E i \in ParentIds :
       /\ parent[i] # 0
       /\ parent' = [parent EXCEPT ![i] = 0]
       /\ child' = [k \in Keys |-> IF child[k].of = i THEN NoLink ELSE child[k]]
  /\ Touch
  /\ shrunk' = (shrunk \/ dumping # "idle")
  /\ UNCHANGED <<exist, autoInc, chosen, births, tools, file, unflushed, dumping, restoring, restored,
                 mixVars, straddled>>

RemoveChild ==
  /\ \E k \in Keys : child[k] # NoLink /\ child' = [child EXCEPT ![k] = NoLink]
  /\ Touch
  /\ UNCHANGED <<exist, parent, autoInc, chosen, births, tools, fileVars, dumping, restoring, restored,
                 mixVars, straddled>>

(* A start, or POST /db/init: CREATE TABLE IF NOT EXISTS. *)
CreateMissing ==
  /\ exist # Pair /\ exist' = Pair
  /\ autoInc' = IF "parent" \in exist THEN autoInc ELSE 1
  /\ Touch
  /\ straddled' = (straddled \/ "parent" \notin exist)
  /\ UNCHANGED <<child, parent, chosen, births, tools, fileVars, dumping, restoring, restored,
                 mixVars>>

-----------------------------------------------------------------------------
(* nwdb backup <file>.                                                     *)

UseTool ==
  /\ dumping = "idle" /\ restoring = 0
  /\ tools < MaxTools /\ tools' = tools + 1

(* Fault: parents first, as an importer with foreign keys on would ask. *)
DumpOrderParentFirst == <<"schema", "parent", "child">>

(* The reads that matter, in order: rows of the child, AUTO_INCREMENT of   *)
(* the parent (in its CREATE), rows of the parent.                         *)
DumpOrder == <<"child", "schema", "parent">>

(* The file is truncated and the tables listed. *)
BeginDump ==
  /\ UseTool
  /\ dumping' = DumpOrder[1]
  /\ file' = [Truncated EXCEPT !.tables = exist]
  /\ shrunk' = ~Agree(child, parent) /\ unflushed' = FALSE
  /\ UNCHANGED <<rowVars, restoring, restored, touched, mixVars, straddled>>

(* Each is one SELECT or SHOW CREATE TABLE. *)
DumpTable ==
  /\ \E i \in 1..Len(DumpOrder) :
       /\ dumping = DumpOrder[i]
       /\ dumping' = IF i = Len(DumpOrder) THEN "close" ELSE DumpOrder[i + 1]
  /\ file' = CASE dumping = "child"  -> [file EXCEPT !.child = child, !.lines = 3]
               [] dumping = "schema" -> [file EXCEPT !.inc = autoInc, !.lines = 5]
               [] dumping = "parent" -> [file EXCEPT !.parent = parent, !.lines = 6]
  /\ UNCHANGED <<rowVars, tools, shrunk, unflushed, restoring, restored, touched, mixVars, straddled>>

(* The stream is checked before the file is closed: the flush of the last  *)
(* buffer may fail unnoticed.                                              *)
EndDump ==
  /\ dumping = "close" /\ dumping' = "idle"
  /\ \E n \in 0..Len(Script) :
       /\ file' = [file EXCEPT !.ok = TRUE, !.lines = n]
       /\ unflushed' = (n < Len(Script))
  /\ UNCHANGED <<rowVars, tools, shrunk, restoring, restored, touched, mixVars, straddled>>

(* A read or a write fails: exit status 1, and what was written stays.     *)
DumpFails ==
  /\ dumping # "idle" /\ dumping' = "idle"
  /\ \E n \in 0..file.lines : file' = [file EXCEPT !.lines = n]
  /\ UNCHANGED <<rowVars, tools, shrunk, unflushed, restoring, restored, touched, mixVars, straddled>>

-----------------------------------------------------------------------------
(* nwdb restore <file>.                                                    *)

BeginRestore ==
  /\ UseTool
  /\ restoring' = 1 /\ restored' = "running" /\ touched' = FALSE
  /\ unread' = FALSE
  /\ UNCHANGED <<rowVars, fileVars, dumping, partial, straddled>>

(* Fault: the counter starts after the rows that are there. *)
CounterFromRows == 1

(* CREATE TABLE ... AUTO_INCREMENT=n *)
Counter == file.inc

(* What a line does, when it succeeds. *)
Drops(table) ==
  /\ exist' = exist \ {table}
  /\ child' = IF table = "child" THEN NoChildren ELSE child
  /\ parent' = IF table = "parent" THEN NoParents ELSE parent
  /\ UNCHANGED autoInc

Creates(table) ==
  /\ table \notin exist /\ exist' = exist \cup {table}
  /\ autoInc' = IF table = "parent" THEN Counter ELSE autoInc
  /\ UNCHANGED <<child, parent>>

InsertsChildren ==
  /\ "child" \in exist
  /\ \A k \in Keys : file.child[k] = NoLink \/ child[k] = NoLink
  /\ child' = [k \in Keys |-> IF file.child[k] = NoLink THEN child[k] ELSE file.child[k]]
  /\ UNCHANGED <<exist, parent, autoInc>>

(* An insert of a given id moves the counter past it. *)
Free == {autoInc} \cup {i + 1 : i \in {j \in ParentIds : file.parent[j] # 0}}

InsertsParents ==
  /\ "parent" \in exist
  /\ \A i \in ParentIds : file.parent[i] = 0 \/ parent[i] = 0
  /\ parent' = [i \in ParentIds |-> IF file.parent[i] = 0 THEN parent[i] ELSE file.parent[i]]
  /\ autoInc' \in {n \in Free : \A m \in Free : m <= n}
  /\ UNCHANGED <<exist, child>>

RunLine ==
  LET l == Script[restoring] IN
  IF l.table \notin file.tables THEN UNCHANGED <<exist, child, parent, autoInc>>
  ELSE \/ l.do = "drop"   /\ Drops(l.table)
       \/ l.do = "create" /\ Creates(l.table)
       \/ l.do = "insert" /\ l.table = "child"  /\ InsertsChildren
       \/ l.do = "insert" /\ l.table = "parent" /\ InsertsParents

RestoreLine ==
  /\ restoring \in 1..file.lines
  /\ RunLine
  /\ restoring' = restoring + 1
  /\ straddled' = (straddled \/ (restoring = 5 /\ file.tables = {"parent"}))
  /\ partial' = \/ restoring = 3 /\ "child" \in file.tables
                \/ partial /\ ~(restoring = 6 /\ file.tables = Pair /\ ~shrunk)
  /\ UNCHANGED <<chosen, births, tools, fileVars, dumping, restored, touched, unread>>

(* exec throws: exit status 1 with the lines before it done. *)
RestoreFails ==
  /\ restoring \in 1..file.lines
  /\ restoring' = 0 /\ restored' = "failed"
  /\ UNCHANGED <<rowVars, tools, fileVars, dumping, touched, mixVars, straddled>>

(* Fault: the line before the end of the file is taken for it. *)
EndRestoreEarly ==
  /\ restoring = file.lines
  /\ restoring' = 0 /\ restored' = "done"
  /\ UNCHANGED <<rowVars, tools, fileVars, dumping, touched, mixVars, straddled>>

(* getline returns no more: at the end of the file, wherever it is, or at  *)
(* an error of the stream, which nobody asks about.                        *)
EndRestore ==
  /\ restoring \in 1..(file.lines + 1)
  /\ unread' = (restoring <= file.lines)
  /\ restoring' = 0 /\ restored' = "done"
  /\ UNCHANGED <<rowVars, tools, fileVars, dumping, touched, partial, straddled>>

BackupNext ==
  \/ AddParent \/ AddChild \/ RemoveParent \/ RemoveChild \/ CreateMissing
  \/ BeginDump \/ DumpTable \/ EndDump \/ DumpFails
  \/ BeginRestore \/ RestoreLine \/ RestoreFails \/ EndRestore

BackupSpec == BackupInit /\ [][BackupNext]_backupVars

-----------------------------------------------------------------------------
(* A dump taken while the daemon writes holds the parent of every child in *)
(* it, if the tables agreed when it began and no parent was deleted        *)
(* meanwhile: the child table is read first.                               *)
DumpClosed ==
  file.ok /\ file.tables = Pair /\ ~shrunk => Agree(file.child, file.parent)

(* Across backups, restores that stop halfway, ids that are given again    *)
(* and tables made anew, a child never refers to another parent than the   *)
(* one it was made for, unless the daemon added it between the restore of  *)
(* the child table and that of the parent, or made a dropped parent table  *)
(* anew, whose ids then start over, or a dump that lacks the child table   *)
(* was restored under the children there are.  Where the user chooses the  *)
(* ids it takes, besides, that the last restore which put children back    *)
(* got as far as their parents: else old readings turn up under a sensor   *)
(* that was given the id of a deleted one.                                 *)
RightParent ==
  ~straddled /\ ~(chosen /\ partial) => \A k \in Keys :
    child[k] # NoLink => parent[child[k].of] \in {0, child[k].born}

(* A restore that reports success, of a backup that reported success, has  *)
(* put back exactly what the backup held; unless the daemon wrote during   *)
(* the restore, the end of the file was lost unnoticed when it was         *)
(* written, or reading it failed, which is reported as success too.        *)
RestoreExact ==
  [][(restored' = "done" /\ restored = "running" /\ file.ok /\ ~unflushed /\ ~touched /\ ~unread')
     => /\ "child" \in file.tables => child' = file.child
        /\ "parent" \in file.tables => parent' = file.parent]_backupVars
=============================================================================
