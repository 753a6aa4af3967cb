------------------------------ MODULE MCTables ------------------------------
(***************************************************************************)
(* The three groups of tables that the handlers and the tools share with   *)
(* no transaction around their statements, one group in each behaviour.    *)
(***************************************************************************)
EXTENDS Accounts, ConfigMerge, Backup, TLC
CONSTANTS admin, ann, t1, h1, h2, v1, v2, c1, c2

VARIABLE group

groupVars == <<vars, configVars, backupVars, group>>

GroupInit ==
  /\ group \in {"accounts", "config", "backup"}
  /\ ConfigInit /\ BackupInit
  /\ Init /\ (group # "accounts" => tables = 0)

GroupNext ==
  \/ group = "accounts" /\ Next /\ UNCHANGED <<configVars, backupVars, group>>
  \/ group = "config" /\ ConfigNext /\ UNCHANGED <<vars, backupVars, group>>
  \/ group = "backup" /\ BackupNext /\ UNCHANGED <<vars, configVars, group>>

GroupSpec == GroupInit /\ [][GroupNext]_groupVars

Alike ==
  Permutations({h1, h2})
  \cup Permutations({v1, v2}) \cup Permutations({c1, c2})
=============================================================================
