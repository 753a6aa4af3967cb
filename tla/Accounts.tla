------------------------------ MODULE Accounts ------------------------------
(***************************************************************************)
(* Users and login sessions: the /login, /logout, /me/password, /users and *)
(* /db/init handlers of src/api/http_server.cpp over the users and         *)
(* sessions tables of src/db/database.cpp, and the admin main.cpp seeds.   *)
(* Each handler runs its queries one by one, on a connection of its own    *)
(* and with no transaction around them; the tables' own rules hold within  *)
(* a statement (unique names, ids never given twice, a session's user      *)
(* exists, deleting a user deletes its sessions).  Of a password the model *)
(* keeps what whoever chose it had proved: the password it replaces, only  *)
(* an earlier one of the account, or none of it; a password that does not  *)
(* verify changes nothing.                                                 *)
(***************************************************************************)
EXTENDS Naturals, FiniteSets, Sequences

CONSTANTS
  Names, Admin,        \* user names, the one main seeds
  Tokens,              \* session tokens, as random_hex yields them
  Handlers,            \* threads of the server's pool
  NoUser, NoSession,
  ApiToken,            \* the configuration sets a static API token
  SchemaFile,          \* the configuration names the schema script
  MaxId                \* bound: rows ever inserted into users

ASSUME AccountsAssumption ==
  /\ Admin \in Names
  /\ MaxId \in Nat \ {0}
  /\ ApiToken \in BOOLEAN /\ SchemaFile \in BOOLEAN
  /\ NoUser \notin [id : 1..MaxId, role : {"admin", "viewer"},
                   own : {"proved", "overtaken", "stranger"}]
  /\ NoSession \notin [uid : 1..MaxId, proved : 1..MaxId, live : BOOLEAN]

VARIABLES
  tables,    \* how many of Tables exist; the script creates them in that order
  users,     \* the users table, by name; own: whether its password was
             \* chosen by its creator or by someone who had proved the one it
             \* replaced, by someone whose change another one of the account
             \* overtook, or by a stranger
  nextId,    \* its AUTO_INCREMENT
  sessions,  \* the sessions table, by token; proved: the account that logged in
  boot,      \* where the daemon is between its start and serving requests
  hpc,       \* each handler thread
  hname,     \* the user its request names
  hid,       \* the user row it read
  raced,     \* history: a user was deleted between another request's checks
             \* and its DELETE
  swapped,   \* history: a user was created under the name of a password
             \* change between its check and its UPDATE
  proven,    \* history: the handlers at an UPDATE of the password whose check
             \* was of the password the account still has
  beside,    \* history: those beside whom another change of the password of
             \* the same account was past its check
  unseeded,  \* history: a start of the daemon found no user and could not
             \* create one
  troubled   \* history: a statement of the start in progress failed

handlerVars == <<hpc, hname, hid>>
checks == <<proven, beside>>
history == <<raced, swapped, unseeded, troubled, checks>>
vars == <<tables, users, nextId, sessions, boot, handlerVars, history>>

Ids  == 1..MaxId
Rows == [id : Ids, role : {"admin", "viewer"}, own : {"proved", "overtaken", "stranger"}]
Tables == <<"events", "users", "sessions">>

TypeOK ==
  /\ tables \in 0..Len(Tables)
  /\ users \in [Names -> Rows \cup {NoUser}]
  /\ nextId \in 1..(MaxId + 1)
  /\ sessions \in [Tokens -> [uid : Ids, proved : Ids, live : BOOLEAN] \cup {NoSession}]
  /\ boot \in {"down", "schema", "record", "refused", "seed", "up"}
  /\ raced \in BOOLEAN /\ swapped \in BOOLEAN /\ unseeded \in BOOLEAN /\ troubled \in BOOLEAN
  /\ proven \subseteq Handlers /\ beside \subseteq Handlers
  /\ hpc \in [Handlers -> {"idle", "open", "insertAdmin", "insertViewer",
                           "find", "count", "delete", "verify", "update"}]
  /\ hname \in [Handlers -> Names]
  /\ hid \in [Handlers -> 0..MaxId]

(* A database with the schema and no rows yet, or an empty one. *)
Init ==
  /\ tables \in {0, Len(Tables)}
  /\ users = [n \in Names |-> NoUser] /\ nextId = 1
  /\ sessions = [t \in Tokens |-> NoSession]
  /\ boot = "down"
  /\ raced = FALSE /\ swapped = FALSE /\ unseeded = FALSE /\ troubled = FALSE
  /\ proven = {} /\ beside = {}
  /\ hpc = [h \in Handlers |-> "idle"] /\ hname = [h \in Handlers |-> Admin]
  /\ hid = [h \in Handlers |-> 0]

-----------------------------------------------------------------------------
(* The tables.                                                             *)

Exists(table) == \E i \in 1..tables : Tables[i] = table

up == boot = "up"

Present   == {n \in Names : users[n] # NoUser}
AdminsNow == {n \in Present : users[n].role = "admin"}

(* INSERT INTO users; the unique key refuses a name twice. *)
Insert(n, role) ==
  IF n \in Present \/ nextId > MaxId
  THEN UNCHANGED <<users, nextId>>
  ELSE /\ users' = [users EXCEPT ![n] = [id |-> nextId, role |-> role, own |-> "proved"]]
       /\ nextId' = nextId + 1

(* DELETE FROM users, ON DELETE CASCADE. *)
Remove(n) ==
  /\ users' = [users EXCEPT ![n] = NoUser]
  /\ sessions' = [t \in Tokens |->
                    IF /\ n \in Present /\ sessions[t] # NoSession
                       /\ sessions[t].uid = users[n].id
                    THEN NoSession ELSE sessions[t]]

(* validate_session joins the session with its user's row. *)
Validates(t, n) ==
  n \in Present /\ sessions[t] # NoSession /\ sessions[t].live /\ sessions[t].uid = users[n].id

(* require_auth with need_admin: the static token, or some admin's session,*)
(* checked once, before the handler's own queries.                         *)
RequireAdmin == ApiToken \/ \E t \in Tokens, n \in AdminsNow : Validates(t, n)

-----------------------------------------------------------------------------
(* main: make sure of the schema, record the start, seed the admin, serve. *)

(* Fault: the start is recorded before the schema is there. *)
StartRecordsFirst ==
  /\ boot \in {"down", "refused"} /\ boot' = "record"
  /\ UNCHANGED <<tables, users, nextId, sessions, handlerVars, history>>

(* Started by systemd, also after an exit with status 1. *)
Start ==
  /\ boot \in {"down", "refused"} /\ boot' = "schema"
  /\ UNCHANGED <<tables, users, nextId, sessions, handlerVars, history>>

(* run_schema_script: CREATE TABLE IF NOT EXISTS, statement by statement,  *)
(* up to the first that fails.                                             *)
RunSchema == tables' \in tables..Len(Tables)

(* A failure is a warning only. *)
EnsureSchema ==
  /\ boot = "schema" /\ boot' = "record"
  /\ IF SchemaFile THEN RunSchema ELSE UNCHANGED tables
  /\ troubled' = (SchemaFile /\ tables' < Len(Tables))
  /\ UNCHANGED <<users, nextId, sessions, handlerVars, raced, swapped, unseeded, checks>>

(* insert_event("started"): main returns 1 if it throws. *)
RecordStart ==
  /\ boot = "record"
  /\ \/ /\ Exists("events")
        /\ boot' = "seed" /\ UNCHANGED troubled
     \/ boot' = "refused" /\ troubled' = (troubled \/ Exists("events"))
  /\ UNCHANGED <<tables, users, nextId, sessions, handlerVars, raced, swapped, unseeded, checks>>

(* Seed the admin if there is no user at all; a failure is a warning (and  *)
(* all that is left when the bound on ids is reached).                     *)
Seed ==
  /\ boot = "seed" /\ boot' = "up" /\ troubled' = FALSE
  /\ \/ /\ Exists("users") /\ (Present = {} => nextId <= MaxId)
        /\ IF Present = {} THEN Insert(Admin, "admin") /\ unseeded' = FALSE
                           ELSE UNCHANGED <<users, nextId, unseeded>>
     \/ /\ unseeded' = (unseeded \/ Present = {})
        /\ UNCHANGED <<users, nextId>>
  /\ UNCHANGED <<tables, sessions, handlerVars, raced, swapped, checks>>

(* The process ends; requests in progress end with it. *)
Down ==
  /\ boot # "down" /\ boot' = "down" /\ troubled' = FALSE
  /\ hpc' = [h \in Handlers |-> "idle"]
  /\ hname' = [h \in Handlers |-> Admin] /\ hid' = [h \in Handlers |-> 0]
  /\ proven' = {} /\ beside' = {}
  /\ UNCHANGED <<tables, users, nextId, sessions, raced, swapped, unseeded>>

-----------------------------------------------------------------------------
(* The handlers.                                                           *)

Begin(h, n, next) ==
  /\ up /\ hpc[h] = "idle"
  /\ hpc' = [hpc EXCEPT ![h] = next]
  /\ hname' = [hname EXCEPT ![h] = n]

Done(h) ==
  /\ hpc' = [hpc EXCEPT ![h] = "idle"]
  /\ hname' = [hname EXCEPT ![h] = Admin] /\ hid' = [hid EXCEPT ![h] = 0]
  /\ UNCHANGED boot

(* POST /login: find_user, verify_password. *)
Login(h) ==
  \E n \in Present :
    /\ Begin(h, n, "open")
    /\ hid' = [hid EXCEPT ![h] = users[n].id]
    /\ UNCHANGED <<tables, users, nextId, sessions, boot, history>>

(* Fault: the session is opened for the name, whoever has it by now. *)
OpensForName(h) ==
  IF users[hname[h]] = NoUser THEN 0 ELSE users[hname[h]].id

(* The id create_session is given. *)
OpensFor(h) == hid[h]

(* create_session; the foreign key refuses a user that is gone.  (With     *)
(* every token in use the request waits: the bound on tokens.)             *)
CreateSession(h) ==
  /\ hpc[h] = "open"
  /\ Exists("sessions")
  /\ IF \E n \in Present : users[n].id = OpensFor(h)
     THEN \E t \in Tokens :
            /\ sessions[t] = NoSession
            /\ sessions' = [sessions EXCEPT ![t] =
                              [uid |-> OpensFor(h), proved |-> hid[h], live |-> TRUE]]
     ELSE UNCHANGED sessions
  /\ Done(h)
  /\ UNCHANGED <<tables, users, nextId, history>>

(* POST /logout, one statement. *)
Logout ==
  /\ up
  /\ \E t \in Tokens : /\ sessions[t] # NoSession
                       /\ sessions' = [sessions EXCEPT ![t] = NoSession]
  /\ UNCHANGED <<tables, users, nextId, boot, handlerVars, history>>

(* POST /users: find_user, then create_user. *)
PostUser(h) ==
  /\ RequireAdmin /\ Exists("users")
  /\ \E n \in Names \ Present, next \in {"insertAdmin", "insertViewer"} : Begin(h, n, next)
  /\ UNCHANGED <<tables, users, nextId, sessions, boot, hid, history>>

CreateUser(h) ==
  /\ \/ hpc[h] = "insertAdmin" /\ Insert(hname[h], "admin")
     \/ hpc[h] = "insertViewer" /\ Insert(hname[h], "viewer")
  /\ swapped' = (swapped \/ \E o \in Handlers : hpc[o] = "update" /\ hname[o] = hname[h])
  /\ Done(h)
  /\ UNCHANGED <<tables, sessions, raced, unseeded, troubled, checks>>

(* DELETE /users/<name>: find_user, count the admins, delete_user. *)
AskDelete(h) ==
  /\ RequireAdmin
  /\ \E n \in Names : Begin(h, n, "find")
  /\ UNCHANGED <<tables, users, nextId, sessions, boot, hid, history>>

FindUser(h) ==
  /\ hpc[h] = "find" /\ Exists("users")
  /\ IF hname[h] \in Present
     THEN /\ hpc' = [hpc EXCEPT ![h] = IF hname[h] \in AdminsNow THEN "count" ELSE "delete"]
          /\ UNCHANGED <<boot, hname, hid>>
     ELSE Done(h)
  /\ UNCHANGED <<tables, users, nextId, sessions, history>>

(* Fault: the comparison is off by one. *)
MayDeleteLast == Cardinality(AdminsNow) >= 1

MayDelete == Cardinality(AdminsNow) > 1

CountAdmins(h) ==
  /\ hpc[h] = "count"
  /\ IF MayDelete
     THEN hpc' = [hpc EXCEPT ![h] = "delete"] /\ UNCHANGED <<boot, hname, hid>>
     ELSE Done(h)
  /\ UNCHANGED <<tables, users, nextId, sessions, history>>

DeleteUser(h) ==
  /\ hpc[h] = "delete"
  /\ Remove(hname[h])
  /\ raced' = (raced \/ \E o \in Handlers \ {h} : hpc[o] = "delete")
  /\ Done(h)
  /\ UNCHANGED <<tables, nextId, swapped, unseeded, troubled, checks>>

(* POST /me/password: the session names the account, *)
AskPassword(h) ==
  /\ \E t \in Tokens, n \in Names : Validates(t, n) /\ Begin(h, n, "verify")
  /\ UNCHANGED <<tables, users, nextId, sessions, boot, hid, history>>

(* Fault: the current password is not asked for. *)
VerifyNothing(h) ==
  /\ hpc[h] = "verify"
  /\ hpc' = [hpc EXCEPT ![h] = "update"]
  /\ UNCHANGED <<boot, hname, hid>>
  /\ UNCHANGED <<tables, users, nextId, sessions, history>>

(* find_user reads the row of that name and its current password must      *)
(* verify,                                                                 *)
VerifyCurrent(h) ==
  /\ hpc[h] = "verify"
  /\ \/ /\ hname[h] \in Present
        /\ hpc' = [hpc EXCEPT ![h] = "update"]
        /\ hid' = [hid EXCEPT ![h] = users[hname[h]].id]
        /\ proven' = proven \cup {h}
        /\ LET others == {o \in Handlers \ {h} : hpc[o] = "update" /\ hid[o] = users[hname[h]].id}
           IN  beside' = beside \cup others \cup {i \in {h} : others # {}}
        /\ UNCHANGED <<boot, hname>>
     \/ Done(h) /\ UNCHANGED checks
  /\ UNCHANGED <<tables, users, nextId, sessions, raced, swapped, unseeded, troubled>>

(* What the one who sets the password of a row has proved. *)
Proof(h, row) ==
  IF hid[h] = row.id /\ h \in proven THEN "proved"
  ELSE IF hid[h] = row.id /\ h \in beside THEN "overtaken" ELSE "stranger"

(* and set_user_password updates the row of that name, if there is one:    *)
(* what others have checked against the password it had is out of date.    *)
SetUserPassword(h) ==
  /\ hpc[h] = "update"
  /\ users' = [users EXCEPT ![hname[h]] =
                 IF @ = NoUser THEN @ ELSE [id |-> @.id, role |-> @.role, own |-> Proof(h, @)]]
  /\ proven' = {o \in proven \ {h} : hname[h] \in Present => hid[o] # users[hname[h]].id}
  /\ beside' = beside \ {h}
  /\ Done(h)
  /\ UNCHANGED <<tables, nextId, sessions, raced, swapped, unseeded, troubled>>

(* POST /db/init runs the schema script again. *)
InitSchema ==
  /\ up /\ RequireAdmin /\ SchemaFile
  /\ RunSchema
  /\ UNCHANGED <<users, nextId, sessions, boot, handlerVars, history>>

(* A query throws: 500, nothing more is done. *)
QueryFails(h) ==
  /\ hpc[h] # "idle" /\ Done(h)
  /\ proven' = proven \ {h} /\ beside' = beside \ {h}
  /\ UNCHANGED <<tables, users, nextId, sessions, raced, swapped, unseeded, troubled>>

Handler(h) ==
  \/ Login(h) \/ CreateSession(h) \/ PostUser(h) \/ CreateUser(h)
  \/ AskDelete(h) \/ FindUser(h) \/ CountAdmins(h) \/ DeleteUser(h)
  \/ AskPassword(h) \/ VerifyCurrent(h) \/ SetUserPassword(h) \/ QueryFails(h)

(* A session's seven days are over. *)
Expire ==
  /\ \E t \in Tokens : /\ sessions[t] # NoSession /\ sessions[t].live
                       /\ sessions' = [sessions EXCEPT ![t].live = FALSE]
  /\ UNCHANGED <<tables, users, nextId, boot, handlerVars, history>>

Next ==
  \/ Start \/ EnsureSchema \/ RecordStart \/ Seed \/ Down \/ InitSchema \/ Logout \/ Expire
  \/ \E h \in Handlers : Handler(h)

Spec == Init /\ [][Next]_vars

-----------------------------------------------------------------------------
(* Properties.                                                             *)

(* A session belongs to an account that exists and is the very one whose   *)
(* password was verified, also when that account was deleted, or deleted   *)
(* and created again under its name, while the login was in progress.      *)
SessionOwner ==
  \A t \in Tokens : sessions[t] # NoSession =>
    /\ sessions[t].uid = sessions[t].proved
    /\ \E n \in Present : users[n].id = sessions[t].uid

(* http_server.cpp refuses with 409: "cannot delete the last admin".  Once *)
(* the daemon has come up there is always an admin, whatever the order of  *)
(* requests, crashes and restarts, unless two deletions raced (the count   *)
(* and the DELETE are two statements) or the daemon could not seed one.    *)
AdminRemains == up /\ ~raced /\ ~unseeded => AdminsNow # {}

(* main.cpp: "Ordering the schema first lets a fresh database bootstrap    *)
(* itself".  With a schema script configured, a start all of whose         *)
(* statements succeed never ends in exit status 1, whatever an earlier     *)
(* start left behind; systemd would only repeat the failure.               *)
FreshStart == SchemaFile /\ ~troubled => boot # "refused"

(* A password is replaced by someone who proved the password it replaces,  *)
(* also when the account was deleted while the change was in progress,     *)
(* with two exceptions, for the check and the UPDATE are two statements.   *)
(* When another account was created under the name between them, the       *)
(* UPDATE, which goes by name, gives that one a password.  And of two      *)
(* changes of one account past their checks at once, the later replaces    *)
(* what the earlier chose, having proved the password before that only.    *)
PasswordOwner == ~swapped => \A n \in Present : users[n].own \in {"proved", "overtaken"}
=============================================================================
