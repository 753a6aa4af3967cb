---------------------------- MODULE TablesProofs ----------------------------
(***************************************************************************)
(* Proofs about the tables that handlers and tools read and write back     *)
(* later: accounts, sessions and the daemon's start (Accounts), for every  *)
(* set of names, tokens and handler threads and every bound on ids; masked *)
(* and merged configurations (ConfigMerge), for every set of fields,       *)
(* secrets, values and clients; backups and restores beside a running      *)
(* daemon (Backup), for any number of rows, ids, writes, backups and       *)
(* restores.                                                               *)
(***************************************************************************)
EXTENDS Accounts, ConfigMerge, Backup, FiniteSetTheorems, TLAPS

-----------------------------------------------------------------------------
(* Accounts, sessions and the start.                                       *)

Steps == {"idle", "open", "insertAdmin", "insertViewer", "find", "count", "delete",
          "verify", "update"}

Sessions == [uid : Ids, proved : Ids, live : BOOLEAN]

(* The parts of the type invariant. *)
TablesTyped ==
  /\ tables \in 0..Len(Tables)
  /\ users \in [Names -> Rows \cup {NoUser}]
  /\ nextId \in 1..(MaxId + 1)
  /\ sessions \in [Tokens -> Sessions \cup {NoSession}]

ThreadsTyped ==
  /\ boot \in {"down", "schema", "record", "refused", "seed", "up"}
  /\ hpc \in [Handlers -> Steps]
  /\ hname \in [Handlers -> Names]
  /\ hid \in [Handlers -> 0..MaxId]

HistoryTyped ==
  /\ raced \in BOOLEAN /\ swapped \in BOOLEAN /\ unseeded \in BOOLEAN /\ troubled \in BOOLEAN
  /\ proven \subseteq Handlers /\ beside \subseteq Handlers

LEMMA TypeParts == TypeOK <=> TablesTyped /\ ThreadsTyped /\ HistoryTyped
BY DEF TypeOK, TablesTyped, ThreadsTyped, HistoryTyped, Steps, Sessions

LEMMA TypePartsNext == (TablesTyped /\ ThreadsTyped /\ HistoryTyped)' => TypeOK'
BY DEF TypeOK, TablesTyped, ThreadsTyped, HistoryTyped, Steps, Sessions

LEMMA Bounds == MaxId \in Nat /\ MaxId >= 1 /\ Len(Tables) = 3
BY AccountsAssumption DEF Tables

(* A row that is there is a row. *)
LEMMA RowOfPresent ==
  ASSUME TablesTyped, NEW n \in Names
  PROVE  n \in Present => users[n] \in Rows /\ users[n].id \in Ids /\ users[n] # NoUser
BY DEF TablesTyped, Present, Rows

(* A handler that is done. *)
LEMMA DoneFacts ==
  ASSUME ThreadsTyped, NEW h \in Handlers, Done(h)
  PROVE  /\ ThreadsTyped' /\ boot' = boot
         /\ hpc'[h] = "idle"
         /\ \A o \in Handlers : o # h => /\ hpc'[o] = hpc[o] /\ hname'[o] = hname[o]
                                         /\ hid'[o] = hid[o]
BY AccountsAssumption, Bounds DEF ThreadsTyped, Done, Steps

(* A request that begins. *)
LEMMA BeginFacts ==
  ASSUME ThreadsTyped, NEW h \in Handlers, NEW n \in Names, NEW next \in Steps,
         Begin(h, n, next), hid' \in [Handlers -> 0..MaxId], UNCHANGED boot
  PROVE  /\ ThreadsTyped' /\ up /\ hpc[h] = "idle" /\ hpc'[h] = next /\ hname'[h] = n
         /\ \A o \in Handlers : o # h => hpc'[o] = hpc[o] /\ hname'[o] = hname[o]
BY DEF ThreadsTyped, Begin

LEMMA InsertFacts ==
  ASSUME TablesTyped, NEW n \in Names, NEW role \in {"admin", "viewer"}, Insert(n, role)
  PROVE  /\ users' \in [Names -> Rows \cup {NoUser}] /\ nextId' \in 1..(MaxId + 1)
         /\ \A m \in Names : m \in Present => users'[m] = users[m]
         /\ \A m \in Names : m # n => users'[m] = users[m]
         /\ n \notin Present =>
              users'[n] = NoUser \/ (users'[n].role = role /\ users'[n].own = "proved")
         /\ n \notin Present /\ nextId <= MaxId => users'[n] # NoUser
<1>1. CASE n \in Present \/ nextId > MaxId
  BY <1>1, Bounds DEF Insert, TablesTyped, Present
<1>2. CASE ~(n \in Present \/ nextId > MaxId)
  <2> DEFINE row == [id |-> nextId, role |-> role, own |-> "proved"]
  <2>1. users' = [users EXCEPT ![n] = row] /\ nextId' = nextId + 1
    BY <1>2 DEF Insert
  <2>2. nextId \in 1..MaxId
    BY <1>2, Bounds DEF TablesTyped
  <2>3. row \in Rows /\ row # NoUser
    <3>1. row \in Rows
      BY <2>2 DEF Rows, Ids
    <3>2. NoUser \notin Rows
      BY AccountsAssumption DEF Rows, Ids
    <3> QED BY <3>1, <3>2
  <2>4. row.role = role /\ row.own = "proved"
    OBVIOUS
  <2>5. nextId' \in 1..(MaxId + 1)
    BY <2>1, <2>2, Bounds
  <2> HIDE DEF row
  <2> QED BY <2>1, <2>3, <2>4, <2>5, <1>2 DEF TablesTyped
<1> QED BY <1>1, <1>2

LEMMA RemoveFacts ==
  ASSUME TablesTyped, NEW n \in Names, Remove(n)
  PROVE  /\ users' \in [Names -> Rows \cup {NoUser}]
         /\ sessions' \in [Tokens -> Sessions \cup {NoSession}]
         /\ \A m \in Names : m # n => users'[m] = users[m]
         /\ users'[n] = NoUser
         /\ \A t \in Tokens : sessions'[t] # NoSession =>
              /\ sessions'[t] = sessions[t]
              /\ n \in Present => sessions[t].uid # users[n].id
BY DEF TablesTyped, Remove

-----------------------------------------------------------------------------
(* Types.                                                                  *)

LEMMA TypeInit == Init => TypeOK
<1> SUFFICES ASSUME Init PROVE TypeOK
  OBVIOUS
<1>1. TablesTyped
  BY Bounds DEF Init, TablesTyped
<1>2. ThreadsTyped
  BY AccountsAssumption, Bounds DEF Init, ThreadsTyped, Steps
<1>3. HistoryTyped
  BY DEF Init, HistoryTyped
<1> QED BY <1>1, <1>2, <1>3, TypeParts

(* The set-valued parts of a boot step. *)
LEMMA BootTypeStep ==
  ASSUME TypeOK, Start \/ EnsureSchema \/ RecordStart \/ Seed \/ Down \/ InitSchema
  PROVE  TypeOK'
<1>t. TablesTyped /\ ThreadsTyped /\ HistoryTyped
  BY TypeParts
<1>s. RunSchema => tables' \in 0..Len(Tables)
  BY <1>t, Bounds DEF RunSchema, TablesTyped
<1>1. TablesTyped'
  <2>1. CASE Seed
    <3>1. CASE Insert(Admin, "admin")
      BY <2>1, <3>1, <1>t, InsertFacts, AccountsAssumption DEF Seed, TablesTyped
    <3>2. CASE UNCHANGED <<users, nextId>>
      BY <2>1, <3>2, <1>t DEF Seed, TablesTyped
    <3> QED BY <2>1, <3>1, <3>2 DEF Seed
  <2> QED BY <1>t, <1>s, <2>1
          DEF TablesTyped, Start, EnsureSchema, RecordStart, Down, InitSchema
<1>2. ThreadsTyped'
  <2>1. CASE Down
    BY <2>1, <1>t, AccountsAssumption, Bounds DEF Down, ThreadsTyped, Steps
  <2> QED BY <1>t, <2>1
          DEF ThreadsTyped, Start, EnsureSchema, RecordStart, Seed, InitSchema, handlerVars
<1>3. HistoryTyped'
  <2>1. CASE EnsureSchema
    BY <2>1, <1>t DEF EnsureSchema, HistoryTyped, checks
  <2>2. CASE RecordStart
    BY <2>2, <1>t DEF RecordStart, HistoryTyped, checks
  <2>3. CASE Seed
    BY <2>3, <1>t DEF Seed, HistoryTyped, checks
  <2>4. CASE Start \/ Down \/ InitSchema
    BY <2>4, <1>t DEF Start, Down, InitSchema, HistoryTyped, history, checks
  <2> QED BY <2>1, <2>2, <2>3, <2>4
<1> QED BY <1>1, <1>2, <1>3, TypePartsNext

LEMMA HandlerTypeStep ==
  ASSUME TypeOK, NEW h \in Handlers, Handler(h)
  PROVE  TypeOK'
<1>t. TablesTyped /\ ThreadsTyped /\ HistoryTyped
  BY TypeParts
<1>1. CASE Login(h)
  <2> PICK n \in Present : /\ Begin(h, n, "open")
                           /\ hid' = [hid EXCEPT ![h] = users[n].id]
    BY <1>1 DEF Login
  <2>1. n \in Names /\ users[n].id \in 0..MaxId
    BY <1>t, RowOfPresent, Bounds DEF Present, Ids
  <2>2. hid' \in [Handlers -> 0..MaxId]
    BY <2>1, <1>t DEF ThreadsTyped
  <2>3. ThreadsTyped'
    BY <1>1, <1>t, <2>1, <2>2, BeginFacts DEF Steps, Login
  <2> QED BY <1>1, <1>t, <2>3, TypePartsNext DEF Login, TablesTyped, HistoryTyped, history, checks
<1>2. CASE CreateSession(h)
  <2>1. ThreadsTyped'
    BY <1>2, <1>t, DoneFacts DEF CreateSession
  <2>2. sessions' \in [Tokens -> Sessions \cup {NoSession}]
    <3>1. CASE \E n \in Present : users[n].id = OpensFor(h)
      <4>1. hid[h] \in Ids
        BY <3>1, <1>t, RowOfPresent DEF OpensFor, Present
      <4>2. [uid |-> OpensFor(h), proved |-> hid[h], live |-> TRUE] \in Sessions
        BY <4>1 DEF OpensFor, Sessions
      <4> QED BY <1>2, <3>1, <4>2, <1>t DEF CreateSession, TablesTyped
    <3>2. CASE ~ \E n \in Present : users[n].id = OpensFor(h)
      BY <1>2, <3>2, <1>t DEF CreateSession, TablesTyped
    <3> QED BY <3>1, <3>2
  <2> QED BY <1>2, <1>t, <2>1, <2>2, TypePartsNext
          DEF CreateSession, TablesTyped, HistoryTyped, history, checks
<1>3. CASE PostUser(h) \/ AskDelete(h) \/ AskPassword(h)
  <2> PICK n \in Names, next \in Steps : Begin(h, n, next)
    BY <1>3 DEF PostUser, AskDelete, AskPassword, Steps
  <2>1. UNCHANGED <<tables, users, nextId, sessions, boot, hid, history>>
    BY <1>3 DEF PostUser, AskDelete, AskPassword
  <2>2. ThreadsTyped'
    BY <1>t, <2>1, BeginFacts DEF ThreadsTyped
  <2> QED BY <1>t, <2>1, <2>2, TypePartsNext DEF TablesTyped, HistoryTyped, history, checks
<1>4. CASE CreateUser(h)
  <2>1. ThreadsTyped'
    BY <1>4, <1>t, DoneFacts DEF CreateUser
  <2> PICK role \in {"admin", "viewer"} : Insert(hname[h], role)
    BY <1>4 DEF CreateUser
  <2>2. users' \in [Names -> Rows \cup {NoUser}] /\ nextId' \in 1..(MaxId + 1)
    BY <1>t, InsertFacts DEF ThreadsTyped
  <2>3. HistoryTyped'
    BY <1>4, <1>t DEF CreateUser, HistoryTyped, checks
  <2> QED BY <1>4, <1>t, <2>1, <2>2, <2>3, TypePartsNext DEF CreateUser, TablesTyped
<1>5. CASE DeleteUser(h)
  <2>1. ThreadsTyped'
    BY <1>5, <1>t, DoneFacts DEF DeleteUser
  <2>2. /\ users' \in [Names -> Rows \cup {NoUser}]
        /\ sessions' \in [Tokens -> Sessions \cup {NoSession}]
    BY <1>5, <1>t, RemoveFacts DEF DeleteUser, ThreadsTyped
  <2>3. HistoryTyped'
    BY <1>5, <1>t DEF DeleteUser, HistoryTyped, checks
  <2> QED BY <1>5, <1>t, <2>1, <2>2, <2>3, TypePartsNext DEF DeleteUser, TablesTyped
<1>6. CASE FindUser(h) \/ CountAdmins(h) \/ VerifyCurrent(h) \/ QueryFails(h)
  <2>1. UNCHANGED <<tables, users, nextId, sessions>>
    BY <1>6 DEF FindUser, CountAdmins, VerifyCurrent, QueryFails
  <2>h. HistoryTyped'
    BY <1>6, <1>t DEF FindUser, CountAdmins, VerifyCurrent, QueryFails, HistoryTyped, history, checks
  <2>2. CASE Done(h)
    BY <2>1, <2>2, <1>t, DoneFacts, <2>h, TypePartsNext DEF TablesTyped
  <2>3. CASE ~Done(h)
    <3>1. CASE FindUser(h) \/ CountAdmins(h)
      <4>1. ThreadsTyped'
        BY <3>1, <2>3, <1>t DEF FindUser, CountAdmins, ThreadsTyped, Steps
      <4> QED BY <2>1, <4>1, <1>t, <2>h, TypePartsNext DEF TablesTyped
    <3>2. CASE VerifyCurrent(h)
      <4>1. hname[h] \in Present /\ hname[h] \in Names
        BY <3>2, <2>3, <1>t DEF VerifyCurrent, ThreadsTyped
      <4>2. users[hname[h]].id \in 0..MaxId
        BY <4>1, <1>t, RowOfPresent, Bounds DEF Ids
      <4>3. ThreadsTyped'
        BY <3>2, <2>3, <4>2, <1>t DEF VerifyCurrent, ThreadsTyped, Steps
      <4> QED BY <2>1, <4>3, <1>t, <2>h, TypePartsNext DEF TablesTyped
    <3> QED BY <1>6, <2>3, <3>1, <3>2 DEF QueryFails
  <2> QED BY <2>2, <2>3
<1>7. CASE SetUserPassword(h)
  <2>1. ThreadsTyped'
    BY <1>7, <1>t, DoneFacts DEF SetUserPassword
  <2>2. users' \in [Names -> Rows \cup {NoUser}]
    <3>1. \A row : Proof(h, row) \in {"proved", "overtaken", "stranger"}
      BY DEF Proof
    <3> QED BY <1>7, <3>1, <1>t DEF SetUserPassword, TablesTyped, Rows
  <2>3. HistoryTyped'
    BY <1>7, <1>t DEF SetUserPassword, HistoryTyped
  <2> QED BY <1>7, <1>t, <2>1, <2>2, <2>3, TypePartsNext DEF SetUserPassword, TablesTyped
<1> QED BY <1>1, <1>2, <1>3, <1>4, <1>5, <1>6, <1>7 DEF Handler

LEMMA TypeStep == TypeOK /\ [Next]_vars => TypeOK'
<1> SUFFICES ASSUME TypeOK, [Next]_vars PROVE TypeOK'
  OBVIOUS
<1>t. TablesTyped /\ ThreadsTyped /\ HistoryTyped
  BY TypeParts
<1>1. CASE Logout \/ Expire
  <2>1. sessions' \in [Tokens -> Sessions \cup {NoSession}]
    BY <1>1, <1>t DEF Logout, Expire, TablesTyped, Sessions
  <2> QED BY <1>1, <1>t, <2>1, TypePartsNext
          DEF Logout, Expire, TablesTyped, ThreadsTyped, HistoryTyped, handlerVars, history,
              checks
<1>2. CASE UNCHANGED vars
  BY <1>2, <1>t, TypePartsNext
     DEF vars, TablesTyped, ThreadsTyped, HistoryTyped, handlerVars, history, checks
<1> QED BY <1>1, <1>2, BootTypeStep, HandlerTypeStep DEF Next

(* Type correctness: among others ids stay within their bound and a        *)
(* handler is always at a point of its handler.                            *)
THEOREM TypeCorrect == Spec => []TypeOK
BY TypeInit, TypeStep, PTL DEF Spec

-----------------------------------------------------------------------------
(* Requests are only in progress while the daemon is up.                   *)
Quiet == ~up => \A h \in Handlers : hpc[h] = "idle"

LEMMA HandlerIsUp ==
  ASSUME TypeOK, Quiet, NEW h \in Handlers, Handler(h)
  PROVE  up /\ boot' = boot
<1>1. up
  BY DEF Handler, Login, CreateSession, PostUser, CreateUser, AskDelete, FindUser,
         CountAdmins, DeleteUser, AskPassword, VerifyCurrent, SetUserPassword, QueryFails,
         Begin, Quiet
<1>2. boot' = boot
  BY DEF Handler, Login, CreateSession, PostUser, CreateUser, AskDelete, FindUser,
         CountAdmins, DeleteUser, AskPassword, VerifyCurrent, SetUserPassword, QueryFails,
         Done
<1> QED BY <1>1, <1>2

LEMMA QuietStep == TypeOK /\ Quiet /\ [Next]_vars => Quiet'
<1> SUFFICES ASSUME TypeOK, Quiet, [Next]_vars PROVE Quiet'
  OBVIOUS
<1>1. ASSUME NEW h \in Handlers, Handler(h) PROVE Quiet'
  BY <1>1, HandlerIsUp DEF Quiet, up
<1>2. CASE Down
  BY <1>2 DEF Down, Quiet
<1>3. CASE Start \/ EnsureSchema \/ RecordStart \/ Seed
  BY <1>3 DEF Start, EnsureSchema, RecordStart, Seed, Quiet, up, handlerVars
<1>4. CASE InitSchema \/ Logout \/ Expire \/ UNCHANGED vars
  BY <1>4 DEF InitSchema, Logout, Expire, vars, Quiet, up, handlerVars
<1> QED BY <1>1, <1>2, <1>3, <1>4 DEF Next

-----------------------------------------------------------------------------
(* What a step can do to the users table: nothing; insert a row under a    *)
(* name that has none (and then a thread inserts it, or the seed); delete  *)
(* one; or mark whose password it is.                                      *)
Inserts(n, role) ==
  /\ n \notin Present
  /\ users'[n] = NoUser \/ (users'[n].role = role /\ users'[n].own = "proved")
  /\ \A m \in Names \ {n} : users'[m] = users[m]

Marks(h) ==
  /\ \A m \in Names \ {hname[h]} : users'[m] = users[m]
  /\ hname[h] \notin Present => users'[hname[h]] = NoUser
  /\ hname[h] \in Present =>
       /\ users'[hname[h]] # NoUser
       /\ users'[hname[h]].id = users[hname[h]].id
       /\ users'[hname[h]].role = users[hname[h]].role
       /\ users'[hname[h]].own = Proof(h, users[hname[h]])

LEMMA UserSteps ==
  ASSUME TypeOK, [Next]_vars
  PROVE  \/ users' = users
         \/ Seed /\ Inserts(Admin, "admin")
         \/ \E h \in Handlers, role \in {"admin", "viewer"} :
              CreateUser(h) /\ Inserts(hname[h], role)
         \/ \E h \in Handlers : DeleteUser(h)
         \/ \E h \in Handlers : SetUserPassword(h) /\ Marks(h)
<1>t. TablesTyped /\ ThreadsTyped
  BY TypeParts
<1>n. Admin \in Names /\ \A h \in Handlers : hname[h] \in Names
  BY <1>t, AccountsAssumption DEF ThreadsTyped
<1>f. ASSUME NEW n \in Names, NEW role \in {"admin", "viewer"}, Insert(n, role)
      PROVE  users' = users \/ Inserts(n, role)
  <2>1. CASE n \in Present
    BY <1>f, <2>1 DEF Insert
  <2>2. CASE n \notin Present
    BY <1>f, <2>2, <1>t, InsertFacts DEF Inserts
  <2> QED BY <2>1, <2>2
<1>1. CASE Seed
  BY <1>1, <1>n, <1>f DEF Seed
<1>2. ASSUME NEW h \in Handlers, CreateUser(h)
      PROVE  users' = users \/ \E role \in {"admin", "viewer"} : Inserts(hname[h], role)
  BY <1>2, <1>n, <1>f DEF CreateUser
<1>3. ASSUME NEW h \in Handlers, SetUserPassword(h) PROVE Marks(h)
  <2> DEFINE n == hname[h]
  <2>1. n \in Names
    BY <1>n
  <2>2. users' = [users EXCEPT ![n] =
                    IF users[n] = NoUser THEN users[n]
                    ELSE [id |-> users[n].id, role |-> users[n].role,
                          own |-> Proof(h, users[n])]]
    BY <1>3 DEF SetUserPassword
  <2>3. users \in [Names -> Rows \cup {NoUser}]
    BY <1>t DEF TablesTyped
  <2>4. n \in Present <=> users[n] # NoUser
    BY <2>1 DEF Present
  <2>5. users[n] # NoUser => users'[n] # NoUser
    <3>1. users[n] # NoUser => users'[n] \in Rows
      BY <2>1, <2>2, <2>3 DEF Rows, Proof
    <3>2. NoUser \notin Rows
      BY AccountsAssumption DEF Rows, Ids
    <3> QED BY <3>1, <3>2
  <2> QED BY <2>1, <2>2, <2>3, <2>4, <2>5 DEF Marks
<1>4. ASSUME NEW h \in Handlers, Handler(h),
             ~(CreateUser(h) \/ DeleteUser(h) \/ SetUserPassword(h))
      PROVE  users' = users
  BY <1>4 DEF Handler, Login, CreateSession, PostUser, AskDelete, FindUser, CountAdmins,
              AskPassword, VerifyCurrent, QueryFails
<1>5. CASE Start \/ EnsureSchema \/ RecordStart \/ Down \/ InitSchema \/ Logout \/ Expire
           \/ UNCHANGED vars
  BY <1>5 DEF Start, EnsureSchema, RecordStart, Down, InitSchema, Logout, Expire, vars
<1> QED BY <1>1, <1>2, <1>3, <1>4, <1>5 DEF Next

-----------------------------------------------------------------------------
(* Sessions.                                                               *)

(* A user that is there stays there with its id and role, unless deleted.  *)
LEMMA OwnersStay ==
  ASSUME TypeOK, [Next]_vars, NEW m \in Present,
         \A h \in Handlers : ~(DeleteUser(h) /\ hname[h] = m)
  PROVE  m \in Present' /\ users'[m].id = users[m].id /\ users'[m].role = users[m].role
<1>t. TablesTyped /\ ThreadsTyped /\ m \in Names /\ users[m] # NoUser
  BY TypeParts DEF Present
<1>1. CASE users' = users
  BY <1>1, <1>t DEF Present
<1>2. ASSUME NEW n \in Names, NEW role, Inserts(n, role) PROVE users'[m] = users[m]
  BY <1>2, <1>t DEF Inserts
<1>3. ASSUME NEW h \in Handlers, DeleteUser(h) PROVE users'[m] = users[m]
  BY <1>3, <1>t, RemoveFacts DEF DeleteUser, ThreadsTyped
<1>4. ASSUME NEW h \in Handlers, Marks(h)
      PROVE  /\ users'[m] # NoUser /\ users'[m].id = users[m].id
             /\ users'[m].role = users[m].role
  BY <1>4, <1>t DEF Marks
<1>5. Admin \in Names /\ \A h \in Handlers : hname[h] \in Names
  BY <1>t, AccountsAssumption DEF ThreadsTyped
<1> QED BY <1>1, <1>2, <1>3, <1>4, <1>5, <1>t, UserSteps DEF Present

LEMMA SessionStep == TypeOK /\ SessionOwner /\ [Next]_vars => SessionOwner'
<1> SUFFICES ASSUME TypeOK, SessionOwner, [Next]_vars, NEW t \in Tokens,
                    sessions'[t] # NoSession
             PROVE  /\ sessions'[t].uid = sessions'[t].proved
                    /\ \E n \in Present' : users'[n].id = sessions'[t].uid
  BY DEF SessionOwner
<1>t. TablesTyped /\ ThreadsTyped
  BY TypeParts
<1>1. CASE \E h \in Handlers : DeleteUser(h)
  <2> PICK h \in Handlers : DeleteUser(h)
    BY <1>1
  <2>1. /\ sessions'[t] = sessions[t]
        /\ hname[h] \in Present => sessions[t].uid # users[hname[h]].id
    BY <1>t, RemoveFacts DEF DeleteUser, ThreadsTyped
  <2> PICK n \in Present : users[n].id = sessions[t].uid
    BY <2>1 DEF SessionOwner
  <2>2. n # hname[h] /\ n \in Names
    BY <2>1 DEF Present
  <2>3. users'[n] = users[n]
    BY <1>t, <2>2, RemoveFacts DEF DeleteUser, ThreadsTyped
  <2> QED BY <2>1, <2>2, <2>3 DEF SessionOwner, Present
<1>2. CASE ~ \E h \in Handlers : DeleteUser(h)
  <2>s. ASSUME sessions[t] # NoSession, sessions'[t].uid = sessions[t].uid,
               sessions'[t].proved = sessions[t].proved
        PROVE  /\ sessions'[t].uid = sessions'[t].proved
               /\ \E n \in Present' : users'[n].id = sessions'[t].uid
    BY <1>2, <2>s, OwnersStay DEF SessionOwner
  <2>1. CASE \E h \in Handlers : CreateSession(h)
    <3> PICK h \in Handlers : CreateSession(h)
      BY <2>1
    <3>1. CASE sessions'[t] = sessions[t]
      BY <3>1, <2>s
    <3>2. CASE sessions'[t] # sessions[t]
      <4>1. /\ \E n \in Present : users[n].id = hid[h]
            /\ sessions'[t] = [uid |-> hid[h], proved |-> hid[h], live |-> TRUE]
            /\ users' = users
        BY <3>2, <1>t DEF CreateSession, OpensFor, TablesTyped
      <4> QED BY <4>1 DEF Present
    <3> QED BY <3>1, <3>2
  <2>2. CASE Logout
    BY <2>2, <2>s, <1>t DEF Logout, TablesTyped
  <2>3. CASE Expire
    <3>1. sessions[t] # NoSession
      BY <2>3, <1>t DEF Expire, TablesTyped
    <3>2. sessions'[t].uid = sessions[t].uid /\ sessions'[t].proved = sessions[t].proved
      BY <2>3, <3>1, <1>t DEF Expire, TablesTyped, Sessions
    <3> QED BY <3>1, <3>2, <2>s
  <2>4. CASE ~(Logout \/ Expire \/ \E h \in Handlers : CreateSession(h))
    <3>1. sessions' = sessions
      BY <1>2, <2>4
         DEF Next, Start, EnsureSchema, RecordStart, Seed, Down, InitSchema, vars, Handler, Login,
             PostUser, CreateUser, AskDelete, FindUser, CountAdmins, AskPassword,
             VerifyCurrent, SetUserPassword, QueryFails
    <3> QED BY <3>1, <2>s
  <2> QED BY <2>1, <2>2, <2>3, <2>4
<1> QED BY <1>1, <1>2

(* A session always belongs to an account that exists and is the one whose *)
(* password was verified at the login that opened it.                      *)
THEOREM SessionOwnerAlways == Spec => []SessionOwner
<1>1. Init => SessionOwner
  BY DEF Init, SessionOwner
<1> QED BY <1>1, TypeInit, TypeStep, SessionStep, PTL DEF Spec

-----------------------------------------------------------------------------
(* Passwords.                                                              *)

(* A password change past its check holds the id of the row of its name,   *)
(* if that row is there.                                                   *)
CheckedRow ==
  ~swapped => \A h \in Handlers :
    hpc[h] = "update" /\ hname[h] \in Present => users[hname[h]].id = hid[h]

(* Its check was of the password the account still has, unless another     *)
(* change of the account was past its check beside it.                     *)
CheckedFirst ==
  ~swapped => \A h \in Handlers : hpc[h] = "update" =>
    /\ h \in proven \cup beside
    /\ \A o \in Handlers \ {h} : hpc[o] = "update" /\ hid[o] = hid[h] => h \in beside

PasswordInv == TypeOK /\ Quiet /\ CheckedRow /\ CheckedFirst /\ PasswordOwner

(* What else a step may do to a password change in progress. *)
LEMMA ChangeStays ==
  ASSUME TypeOK, [Next]_vars, NEW h \in Handlers, hpc'[h] = "update"
  PROVE  \/ hpc[h] = "update" /\ hname'[h] = hname[h] /\ hid'[h] = hid[h]
         \/ VerifyCurrent(h) /\ hname'[h] = hname[h] /\ hname[h] \in Present
            /\ hid'[h] = users[hname[h]].id /\ users' = users
<1>t. ThreadsTyped
  BY TypeParts
<1>1. ASSUME NEW o \in Handlers, Done(o)
      PROVE  hpc[h] = "update" /\ hname'[h] = hname[h] /\ hid'[h] = hid[h]
  BY <1>1, <1>t, DoneFacts
<1>2. ASSUME NEW o \in Handlers, Handler(o), ~Done(o)
      PROVE  \/ hpc[h] = "update" /\ hname'[h] = hname[h] /\ hid'[h] = hid[h]
             \/ VerifyCurrent(h) /\ hname'[h] = hname[h] /\ hname[h] \in Present
                /\ hid'[h] = users[hname[h]].id /\ users' = users
  <2>1. CASE VerifyCurrent(o)
    BY <1>2, <2>1, <1>t DEF VerifyCurrent, ThreadsTyped
  <2>2. CASE FindUser(o) \/ CountAdmins(o)
    BY <1>2, <2>2, <1>t DEF FindUser, CountAdmins, ThreadsTyped
  <2>3. CASE Login(o)
    BY <2>3, <1>t DEF Login, Begin, ThreadsTyped
  <2>4. CASE PostUser(o) \/ AskDelete(o) \/ AskPassword(o)
    BY <2>4, <1>t DEF PostUser, AskDelete, AskPassword, Begin, ThreadsTyped
  <2> QED BY <1>2, <2>1, <2>2, <2>3, <2>4
          DEF Handler, CreateSession, CreateUser, DeleteUser, SetUserPassword, QueryFails
<1>3. CASE Down
  BY <1>3 DEF Down
<1>4. CASE Start \/ EnsureSchema \/ RecordStart \/ Seed \/ InitSchema \/ Logout \/ Expire
           \/ UNCHANGED vars
  BY <1>4 DEF Start, EnsureSchema, RecordStart, Seed, InitSchema, Logout, Expire, vars,
              handlerVars
<1> QED BY <1>1, <1>2, <1>3, <1>4 DEF Next

LEMMA SwappedGrows ==
  ASSUME TypeOK, [Next]_vars, ~swapped'
  PROVE  ~swapped
<1>1. ASSUME NEW h \in Handlers, Handler(h) PROVE ~swapped
  BY <1>1 DEF Handler, Login, CreateSession, PostUser, CreateUser, AskDelete, FindUser,
              CountAdmins, DeleteUser, AskPassword, VerifyCurrent, SetUserPassword,
              QueryFails, history
<1>2. CASE ~ \E h \in Handlers : Handler(h)
  BY <1>2 DEF Next, Start, EnsureSchema, RecordStart, Seed, Down, InitSchema, Logout, Expire,
              vars, history
<1> QED BY <1>1, <1>2

LEMMA PasswordStep == PasswordInv /\ [Next]_vars => (CheckedRow /\ PasswordOwner)'
<1> SUFFICES ASSUME PasswordInv, [Next]_vars, ~swapped'
             PROVE  /\ \A h \in Handlers :
                         hpc'[h] = "update" /\ hname'[h] \in Present'
                           => users'[hname'[h]].id = hid'[h]
                    /\ \A n \in Present' : users'[n].own \in {"proved", "overtaken"}
  BY DEF CheckedRow, PasswordOwner
<1>i. /\ TypeOK /\ Quiet /\ TablesTyped /\ ThreadsTyped
      /\ ~swapped
      /\ \A h \in Handlers :
           hpc[h] = "update" /\ hname[h] \in Present => users[hname[h]].id = hid[h]
      /\ \A h \in Handlers : hpc[h] = "update" => h \in proven \cup beside
      /\ \A n \in Present : users[n].own \in {"proved", "overtaken"}
  BY TypeParts, SwappedGrows DEF PasswordInv, CheckedRow, CheckedFirst, PasswordOwner
<1>n. Admin \in Names /\ \A h \in Handlers : hname[h] \in Names
  BY <1>i, AccountsAssumption DEF ThreadsTyped
<1>1. ASSUME NEW h \in Handlers, hpc'[h] = "update", hname'[h] \in Present'
      PROVE  users'[hname'[h]].id = hid'[h]
  <2>1. CASE VerifyCurrent(h) /\ hname'[h] = hname[h] /\ hid'[h] = users[hname[h]].id
             /\ users' = users
    BY <2>1
  <2>2. CASE hpc[h] = "update" /\ hname'[h] = hname[h] /\ hid'[h] = hid[h]
    <3>1. up
      BY <2>2, <1>i DEF Quiet
    <3>2. CASE hname[h] \in Present
      <4>1. \A o \in Handlers : DeleteUser(o) => hname[o] # hname[h]
        BY <1>1, <2>2, <1>i, <1>n, RemoveFacts DEF DeleteUser, Present
      <4> QED BY <2>2, <3>2, <4>1, <1>i, OwnersStay
    <3>3. CASE hname[h] \notin Present
      <4>1. ASSUME NEW o \in Handlers, CreateUser(o) PROVE hname[o] # hname[h]
        BY <4>1, <2>2 DEF CreateUser
      <4>2. ~Seed
        BY <3>1 DEF Seed, up
      <4>3. users'[hname[h]] = NoUser
        <5>1. CASE users' = users
          BY <5>1, <3>3, <1>n DEF Present
        <5>2. CASE \E o \in Handlers, role \in {"admin", "viewer"} :
                     CreateUser(o) /\ Inserts(hname[o], role)
          BY <5>2, <4>1, <3>3, <1>n DEF Inserts, Present
        <5>3. CASE \E o \in Handlers : DeleteUser(o)
          BY <5>3, <3>3, <1>i, <1>n, RemoveFacts DEF DeleteUser, Present
        <5>4. CASE \E o \in Handlers : Marks(o)
          BY <5>4, <3>3, <1>n DEF Marks, Present
        <5> QED BY <5>1, <5>2, <5>3, <5>4, <4>2, <1>i, UserSteps
      <4> QED BY <1>1, <2>2, <4>3 DEF Present
    <3> QED BY <3>2, <3>3
  <2> QED BY <1>1, <2>1, <2>2, <1>i, ChangeStays
<1>2. ASSUME NEW n \in Present' PROVE users'[n].own \in {"proved", "overtaken"}
  <2>n. n \in Names /\ users'[n] # NoUser
    BY <1>2 DEF Present
  <2>1. CASE users' = users
    BY <2>1, <2>n, <1>i DEF Present
  <2>2. ASSUME NEW m \in Names, NEW role, Inserts(m, role) PROVE users'[n].own \in {"proved", "overtaken"}
    BY <2>2, <2>n, <1>i DEF Inserts, Present
  <2>3. ASSUME NEW h \in Handlers, DeleteUser(h) PROVE users'[n].own \in {"proved", "overtaken"}
    BY <2>3, <2>n, <1>i, <1>n, RemoveFacts DEF DeleteUser, Present
  <2>4. ASSUME NEW h \in Handlers, SetUserPassword(h), Marks(h)
        PROVE  users'[n].own \in {"proved", "overtaken"}
    <3>1. hpc[h] = "update" /\ h \in proven \cup beside
      BY <2>4, <1>i DEF SetUserPassword
    <3>2. CASE n = hname[h]
      <4>1. n \in Present /\ users'[n].own = Proof(h, users[n])
        BY <3>2, <2>4, <2>n DEF Marks
      <4>2. users[n].id = hid[h]
        BY <3>1, <3>2, <4>1, <1>i
      <4> QED BY <3>1, <4>1, <4>2 DEF Proof
    <3>3. CASE n # hname[h]
      BY <3>3, <2>4, <2>n, <1>i DEF Marks, Present
    <3> QED BY <3>2, <3>3
  <2> QED BY <2>1, <2>2, <2>3, <2>4, <1>i, <1>n, UserSteps
<1> QED BY <1>1, <1>2

LEMMA CheckedFirstStep == PasswordInv /\ [Next]_vars => CheckedFirst'
<1> SUFFICES ASSUME PasswordInv, [Next]_vars, ~swapped',
                    NEW h \in Handlers, hpc'[h] = "update"
             PROVE  /\ h \in proven' \cup beside'
                    /\ \A o \in Handlers \ {h} :
                         hpc'[o] = "update" /\ hid'[o] = hid'[h] => h \in beside'
  BY DEF CheckedFirst
<1>i. /\ TypeOK /\ TablesTyped /\ ThreadsTyped /\ HistoryTyped
      /\ ~swapped
      /\ \A o \in Handlers : hpc[o] = "update" /\ hname[o] \in Present => users[hname[o]].id = hid[o]
      /\ \A o \in Handlers : hpc[o] = "update" => o \in proven \cup beside
      /\ \A o, p \in Handlers : o # p /\ hpc[o] = "update" /\ hpc[p] = "update"
                              /\ hid[p] = hid[o] => o \in beside
  BY TypeParts, SwappedGrows DEF PasswordInv, CheckedRow, CheckedFirst
<1>1. ASSUME NEW v \in Handlers, VerifyCurrent(v), ~Done(v)
      PROVE  /\ h \in proven' \cup beside'
             /\ \A o \in Handlers \ {h} :
                  hpc'[o] = "update" /\ hid'[o] = hid'[h] => h \in beside'
  <2> DEFINE others == {o \in Handlers \ {v} : hpc[o] = "update" /\ hid[o] = users[hname[v]].id}
  <2>1. /\ hpc' = [hpc EXCEPT ![v] = "update"]
        /\ hid' = [hid EXCEPT ![v] = users[hname[v]].id]
        /\ proven' = proven \cup {v}
        /\ beside' = beside \cup others \cup {i \in {v} : others # {}}
    BY <1>1 DEF VerifyCurrent
  <2>2. /\ hpc'[v] = "update" /\ hid'[v] = users[hname[v]].id
        /\ \A o \in Handlers \ {v} : hpc'[o] = hpc[o] /\ hid'[o] = hid[o]
    BY <2>1, <1>i DEF ThreadsTyped
  <2>3. CASE h = v
    <3>1. \A o \in Handlers \ {v} : hpc'[o] = "update" /\ hid'[o] = hid'[v] => o \in others
      BY <2>2
    <3> QED BY <2>1, <2>3, <3>1
  <2>4. CASE h # v
    <3>1. hpc[h] = "update" /\ hid'[h] = hid[h] /\ h \in proven \cup beside
      BY <2>2, <2>4, <1>i
    <3>2. hid'[v] = hid'[h] => h \in others
      BY <2>2, <2>4, <3>1
    <3>3. \A o \in Handlers \ {h, v} : hpc'[o] = "update" /\ hid'[o] = hid'[h] => h \in beside
      BY <2>2, <3>1, <1>i
    <3> QED BY <2>1, <3>1, <3>2, <3>3
  <2> QED BY <2>3, <2>4
<1>2. CASE ~ \E v \in Handlers : VerifyCurrent(v) /\ ~Done(v)
  <2>1. \A o \in Handlers : hpc'[o] = "update" => hpc[o] = "update" /\ hid'[o] = hid[o]
    <3>1. \A o \in Handlers : Done(o) => hpc'[o] = "idle"
      BY <1>i, DoneFacts
    <3> QED BY <3>1, <1>2, <1>i, ChangeStays
  <2>2. /\ hpc[h] = "update" /\ h \in proven \cup beside
        /\ \A o \in Handlers \ {h} : hpc'[o] = "update" /\ hid'[o] = hid'[h] => h \in beside
    BY <2>1, <1>i
  <2>3. CASE UNCHANGED checks
    BY <2>2, <2>3 DEF checks
  <2>4. ASSUME NEW p \in Handlers, SetUserPassword(p) \/ QueryFails(p)
        PROVE  /\ h \in proven' \cup beside'
               /\ \A o \in Handlers \ {h} :
                    hpc'[o] = "update" /\ hid'[o] = hid'[h] => h \in beside'
    <3>1. h # p
      BY <2>4, <1>i, DoneFacts DEF SetUserPassword, QueryFails
    <3>2. beside' = beside \ {p}
      BY <2>4 DEF SetUserPassword, QueryFails
    <3>3. h \in proven => h \in proven' \cup beside
      <4>1. CASE QueryFails(p)
        BY <4>1, <3>1 DEF QueryFails
      <4>2. CASE SetUserPassword(p)
        <5>1. hpc[p] = "update" /\
              proven' = {o \in proven \ {p} : hname[p] \in Present => hid[o] # users[hname[p]].id}
          BY <4>2 DEF SetUserPassword
        <5>2. hname[p] \in Present => users[hname[p]].id = hid[p]
          BY <5>1, <1>i
        <5>3. hid[h] = hid[p] => h \in beside
          BY <2>2, <3>1, <5>1, <1>i
        <5> QED BY <3>1, <5>1, <5>2, <5>3
      <4> QED BY <2>4, <4>1, <4>2
    <3> QED BY <2>2, <3>1, <3>2, <3>3
  <2>5. CASE ~(UNCHANGED checks) /\ ~ \E p \in Handlers : SetUserPassword(p) \/ QueryFails(p)
    <3>1. Down
      <4>1. ASSUME NEW o \in Handlers, Handler(o) PROVE FALSE
        <5>1. ~VerifyCurrent(o)
          BY <1>2, <1>i, <2>5, DoneFacts DEF VerifyCurrent, ThreadsTyped
        <5> QED BY <2>5, <4>1, <5>1
           DEF Handler, Login, CreateSession, PostUser, CreateUser, AskDelete, FindUser,
               CountAdmins, DeleteUser, AskPassword, history, checks
      <4> QED BY <4>1, <2>5
              DEF Next, Start, EnsureSchema, RecordStart, Seed, InitSchema, Logout, Expire,
                  vars, history, checks
    <3> QED BY <3>1 DEF Down
  <2> QED BY <2>3, <2>4, <2>5
<1> QED BY <1>1, <1>2

(* A password is replaced by someone who proved the one it replaces,       *)
(* unless the name changed hands during the change, or another change of   *)
(* the account was past its check beside it.                               *)
THEOREM PasswordOwnerAlways == Spec => []PasswordOwner
<1>1. Init => PasswordInv
  BY TypeInit DEF Init, PasswordInv, Quiet, CheckedRow, CheckedFirst, PasswordOwner, Present
<1>2. PasswordInv /\ [Next]_vars => PasswordInv'
  BY TypeStep, QuietStep, PasswordStep, CheckedFirstStep DEF PasswordInv
<1>3. PasswordInv => PasswordOwner
  BY DEF PasswordInv
<1> QED BY <1>1, <1>2, <1>3, PTL DEF Spec

-----------------------------------------------------------------------------
(* Admins.                                                                 *)

(* While no deletions raced: there is an admin, or nobody yet; *)
AdminOrNone ==
  ~raced /\ ~unseeded => AdminsNow # {} \/ (Present = {} /\ ~up)

(* and there is one besides the user a request is about to delete.         *)
SafeDelete ==
  ~raced /\ ~unseeded =>
    \A h \in Handlers : hpc[h] = "delete" => AdminsNow \ {hname[h]} # {}

AdminInv == TypeOK /\ Quiet /\ AdminOrNone /\ SafeDelete

(* The count that lets a deletion go on. *)
LEMMA AnotherAdmin ==
  ASSUME MayDelete, NEW n
  PROVE  AdminsNow \ {n} # {}
<1> SUFFICES ASSUME AdminsNow \ {n} = {} PROVE FALSE
  OBVIOUS
<1>1. AdminsNow \in SUBSET {n}
  OBVIOUS
<1>s. IsFiniteSet({n}) /\ Cardinality({n}) = 1
  BY FS_Singleton
<1>2. Cardinality(AdminsNow) <= Cardinality({n})
  BY <1>1, <1>s, FS_Subset
<1>3. Cardinality(AdminsNow) \in Nat
  BY <1>1, <1>s, FS_Subset, FS_CardinalityType
<1> QED BY <1>2, <1>3, <1>s DEF MayDelete

(* An admin that is not deleted remains one. *)
LEMMA AdminStays ==
  ASSUME TypeOK, [Next]_vars, NEW m \in AdminsNow,
         \A h \in Handlers : ~(DeleteUser(h) /\ hname[h] = m)
  PROVE  m \in AdminsNow'
<1>1. m \in Present /\ m \in Names /\ users[m].role = "admin"
  BY DEF AdminsNow, Present
<1> QED BY <1>1, OwnersStay DEF AdminsNow, Present

LEMMA DeleteStays ==
  ASSUME TypeOK, [Next]_vars, NEW h \in Handlers, hpc'[h] = "delete"
  PROVE  /\ hname'[h] = hname[h]
         /\ \/ hpc[h] = "delete"
            \/ hname[h] \in Present \ AdminsNow
            \/ MayDelete
<1>t. ThreadsTyped
  BY TypeParts
<1> DEFINE G == /\ hname'[h] = hname[h]
                /\ \/ hpc[h] = "delete"
                   \/ hname[h] \in Present \ AdminsNow
                   \/ MayDelete
<1>1. ASSUME NEW o \in Handlers, Done(o) PROVE G
  BY <1>1, <1>t, DoneFacts
<1>2. ASSUME NEW o \in Handlers, Handler(o), ~Done(o) PROVE G
  <2>1. CASE VerifyCurrent(o)
    BY <1>2, <2>1, <1>t DEF VerifyCurrent, ThreadsTyped
  <2>2. CASE FindUser(o)
    BY <1>2, <2>2, <1>t DEF FindUser, ThreadsTyped
  <2>3. CASE CountAdmins(o)
    BY <1>2, <2>3, <1>t DEF CountAdmins, ThreadsTyped
  <2>4. CASE Login(o)
    BY <2>4, <1>t DEF Login, Begin, ThreadsTyped
  <2>5. CASE PostUser(o) \/ AskDelete(o) \/ AskPassword(o)
    BY <2>5, <1>t DEF PostUser, AskDelete, AskPassword, Begin, ThreadsTyped
  <2> QED BY <1>2, <2>1, <2>2, <2>3, <2>4, <2>5
          DEF Handler, CreateSession, CreateUser, DeleteUser, SetUserPassword, QueryFails
<1>3. CASE Down
  BY <1>3 DEF Down
<1>4. CASE Start \/ EnsureSchema \/ RecordStart \/ Seed \/ InitSchema \/ Logout \/ Expire
           \/ UNCHANGED vars
  BY <1>4 DEF Start, EnsureSchema, RecordStart, Seed, InitSchema, Logout, Expire, vars,
              handlerVars
<1> QED BY <1>1, <1>2, <1>3, <1>4 DEF Next

(* The exceptions: a race is never forgotten, and only a start seeds.      *)
LEMMA ExceptionSteps ==
  ASSUME TypeOK, [Next]_vars
  PROVE  (~raced' => ~raced) /\ (~Seed => unseeded' = unseeded)
<1>1. ASSUME NEW h \in Handlers, Handler(h) PROVE (~raced' => ~raced) /\ unseeded' = unseeded
  <2>1. CASE DeleteUser(h)
    BY <2>1 DEF DeleteUser
  <2>2. CASE CreateUser(h)
    BY <2>2 DEF CreateUser
  <2>3. CASE ~(DeleteUser(h) \/ CreateUser(h))
    <3>1. UNCHANGED <<raced, unseeded>>
      BY <1>1, <2>3
         DEF Handler, Login, CreateSession, PostUser, AskDelete, FindUser, CountAdmins,
             AskPassword, VerifyCurrent, SetUserPassword, QueryFails, history
    <3> QED BY <3>1
  <2> QED BY <2>1, <2>2, <2>3
<1>2. CASE ~ \E h \in Handlers : Handler(h)
  BY <1>2 DEF Next, Start, EnsureSchema, RecordStart, Seed, Down, InitSchema, Logout, Expire,
              vars, history
<1> QED BY <1>1, <1>2

LEMMA AdminStep == AdminInv /\ [Next]_vars => (AdminOrNone /\ SafeDelete)'
<1> SUFFICES ASSUME AdminInv, [Next]_vars, ~raced', ~unseeded'
             PROVE  /\ AdminsNow' # {} \/ (Present' = {} /\ ~up')
                    /\ \A h \in Handlers : hpc'[h] = "delete" => AdminsNow' \ {hname'[h]} # {}
  BY DEF AdminOrNone, SafeDelete
<1>i. /\ TypeOK /\ Quiet /\ Quiet' /\ TablesTyped /\ ThreadsTyped /\ ~raced
      /\ ~Seed => ~unseeded
  BY TypeParts, QuietStep, ExceptionSteps DEF AdminInv
<1>n. Admin \in Names /\ \A h \in Handlers : hname[h] \in Names
  BY <1>i, AccountsAssumption DEF ThreadsTyped
<1>1. CASE Seed
  <2>1. \A h \in Handlers : hpc'[h] = "idle"
    BY <1>1, <1>i DEF Seed, Quiet, up, handlerVars
  <2>2. CASE Present = {}
    <3>1. Insert(Admin, "admin") /\ nextId <= MaxId
      BY <1>1, <2>2 DEF Seed
    <3>2. Admin \notin Present
      BY <2>2
    <3>3. users'[Admin] # NoUser /\ users'[Admin].role = "admin"
      BY <3>1, <3>2, <1>i, <1>n, InsertFacts
    <3>4. Admin \in AdminsNow'
      BY <3>3, <1>n DEF AdminsNow, Present
    <3> QED BY <2>1, <3>4
  <2>3. CASE Present # {}
    <3>1. users' = users /\ ~unseeded
      BY <1>1, <2>3 DEF Seed
    <3>2. AdminsNow # {} /\ AdminsNow' = AdminsNow
      BY <3>1, <2>3, <1>i DEF AdminInv, AdminOrNone, AdminsNow, Present
    <3> QED BY <2>1, <3>2
  <2> QED BY <2>2, <2>3
<1>2. CASE ~Seed /\ ~up
  <2>1. \A h \in Handlers : ~Handler(h)
    BY <1>2, <1>i, HandlerIsUp
  <2>2. users' = users /\ ~up'
    BY <1>2, <2>1 DEF Next, Start, EnsureSchema, RecordStart, Down, InitSchema, Logout, Expire,
                      vars, up
  <2>3. \A h \in Handlers : hpc'[h] = "idle"
    BY <2>2, <1>i DEF Quiet, up
  <2>4. AdminsNow # {} \/ Present = {}
    BY <1>2, <1>i DEF AdminInv, AdminOrNone
  <2>5. AdminsNow' = AdminsNow /\ Present' = Present
    BY <2>2 DEF AdminsNow, Present
  <2> QED BY <2>2, <2>3, <2>4, <2>5
<1>3. CASE ~Seed /\ up
  <2>1. /\ AdminsNow # {}
        /\ \A h \in Handlers : hpc[h] = "delete" => AdminsNow \ {hname[h]} # {}
    BY <1>3, <1>i DEF AdminInv, AdminOrNone, SafeDelete
  <2>2. CASE \E h \in Handlers : DeleteUser(h)
    <3> PICK h \in Handlers : DeleteUser(h)
      BY <2>2
    <3>1. hpc[h] = "delete" /\ \A o \in Handlers \ {h} : hpc[o] # "delete"
      BY DEF DeleteUser
    <3>2. \A o \in Handlers : hpc'[o] # "delete"
      BY <3>1, <1>i, DoneFacts DEF DeleteUser
    <3>3. PICK m \in AdminsNow : m # hname[h]
      BY <2>1, <3>1
    <3>4. m \in AdminsNow'
      BY <3>3, <1>i, <1>n, RemoveFacts DEF DeleteUser, AdminsNow, Present
    <3> QED BY <3>2, <3>4
  <2>3. CASE ~ \E h \in Handlers : DeleteUser(h)
    <3>1. \A m \in AdminsNow : m \in AdminsNow'
      BY <2>3, <1>i, AdminStays
    <3>2. ASSUME NEW h \in Handlers, hpc'[h] = "delete" PROVE AdminsNow \ {hname'[h]} # {}
      <4>1. hname'[h] = hname[h]
        BY <3>2, <1>i, DeleteStays
      <4>2. CASE hpc[h] = "delete"
        BY <4>1, <4>2, <2>1
      <4>3. CASE hname[h] \in Present \ AdminsNow
        BY <4>1, <4>3, <2>1
      <4>4. CASE MayDelete
        BY <4>1, <4>4, AnotherAdmin
      <4> QED BY <3>2, <4>2, <4>3, <4>4, <1>i, DeleteStays
    <3> QED BY <2>1, <3>1, <3>2
  <2> QED BY <2>2, <2>3
<1> QED BY <1>1, <1>2, <1>3

(* While the daemon serves there is an admin, unless two deletions raced   *)
(* or a start could not seed one.                                          *)
THEOREM AdminRemainsAlways == Spec => []AdminRemains
<1>1. Init => AdminInv
  BY TypeInit DEF Init, AdminInv, Quiet, AdminOrNone, SafeDelete, Present, up
<1>2. AdminInv /\ [Next]_vars => AdminInv'
  BY TypeStep, QuietStep, AdminStep DEF AdminInv
<1>3. AdminInv => AdminRemains
  BY DEF AdminInv, AdminOrNone, AdminRemains
<1> QED BY <1>1, <1>2, <1>3, PTL DEF Spec

-----------------------------------------------------------------------------
(* The start.                                                              *)

(* Whoever records the start after an untroubled schema script has all of  *)
(* its tables.                                                             *)
SchemaDone == SchemaFile /\ ~troubled /\ boot = "record" => tables = Len(Tables)

StartInv == TypeOK /\ Quiet /\ SchemaDone /\ FreshStart

LEMMA StartStep == StartInv /\ [Next]_vars => (SchemaDone /\ FreshStart)'
<1> SUFFICES ASSUME StartInv, [Next]_vars, SchemaFile PROVE (SchemaDone /\ FreshStart)'
  BY DEF SchemaDone, FreshStart
<1>i. TypeOK /\ Quiet /\ TablesTyped
  BY TypeParts DEF StartInv
<1>1. CASE EnsureSchema
  <2>1. tables' \in tables..Len(Tables) /\ troubled' = (tables' < Len(Tables)) /\ boot' = "record"
    BY <1>1 DEF EnsureSchema, RunSchema
  <2>2. ~troubled' => ~(tables' < Len(Tables))
    BY <2>1
  <2>3. tables' \in Nat /\ tables' <= Len(Tables)
    BY <2>1, <1>i, Bounds DEF TablesTyped
  <2>4. ~troubled' => tables' = Len(Tables)
    BY <2>2, <2>3, Bounds
  <2> QED BY <2>1, <2>4 DEF SchemaDone, FreshStart
<1>2. CASE RecordStart
  <2>1. boot = "record" /\ (boot' = "seed" \/ (boot' = "refused" /\ troubled' = (troubled \/ Exists("events"))))
    BY <1>2 DEF RecordStart
  <2>2. tables = Len(Tables) => Exists("events")
    BY Bounds DEF Exists, Tables
  <2>3. ~troubled => Exists("events")
    BY <2>1, <2>2 DEF StartInv, SchemaDone
  <2> QED BY <2>1, <2>3 DEF SchemaDone, FreshStart
<1>3. CASE Start \/ Seed \/ Down
  BY <1>3 DEF Start, Seed, Down, SchemaDone, FreshStart
<1>4. ASSUME NEW h \in Handlers, Handler(h) PROVE (SchemaDone /\ FreshStart)'
  <2>1. boot' = "up"
    BY <1>4, <1>i, HandlerIsUp DEF up
  <2> QED BY <2>1 DEF SchemaDone, FreshStart
<1>5. CASE InitSchema \/ Logout \/ Expire \/ UNCHANGED vars
  BY <1>5 DEF InitSchema, Logout, Expire, vars, history, up, StartInv, SchemaDone, FreshStart
<1> QED BY <1>1, <1>2, <1>3, <1>4, <1>5 DEF Next

(* With a schema script configured, a start none of whose statements fails *)
(* never ends in exit status 1, whatever earlier starts left behind.       *)
THEOREM FreshStartAlways == Spec => []FreshStart
<1>1. Init => StartInv
  BY TypeInit DEF Init, StartInv, Quiet, SchemaDone, FreshStart
<1>2. StartInv /\ [Next]_vars => StartInv'
  BY TypeStep, QuietStep, StartStep DEF StartInv
<1>3. StartInv => FreshStart
  BY DEF StartInv
<1> QED BY <1>1, <1>2, <1>3, PTL DEF Spec

-----------------------------------------------------------------------------
(* Masked and merged configurations.                                       *)

(* A value in an unedited secret field of what a browser or a script sends *)
(* is one that keeps the stored secret.                                    *)
Harmless == {Absent, Blank, Masked}

(* Forms show no secret. *)
FormsMasked ==
  \A c \in Clients : form[c] # NoForm => \A f \in Secret : form[c][f] \in Harmless

(* A body that was not merged yet: edited fields hold the edit, a secret   *)
(* only a proper value; other secrets are harmless.                        *)
BodiesHonest ==
  \A c \in Clients : req[c].at = "find" =>
    \A f \in Fields :
      /\ req[c].edits[f] # Absent => req[c].config[f] = req[c].edits[f]
      /\ f \in Secret => IF req[c].edits[f] = Absent THEN req[c].config[f] \in Harmless
                         ELSE req[c].edits[f] \in Values

(* A merged configuration holds the edits and, while the row is as it was  *)
(* read, otherwise what the row holds (plain fields: unless outdated).     *)
MergedRight ==
  \A c \in Clients : req[c].at = "update" =>
    /\ \A f \in Fields : req[c].edits[f] # Absent => req[c].config[f] = req[c].edits[f]
    /\ req[c].current =>
         /\ stored # NoRow
         /\ \A f \in Fields :
              req[c].edits[f] = Absent /\ (f \in Secret \/ ~req[c].old)
                => req[c].config[f] = stored[f]

MergeInv ==
  /\ ConfigTypeOK /\ FormsMasked /\ BodiesHonest /\ MergedRight
  /\ SecretsSurvive /\ EditsKept

-----------------------------------------------------------------------------
(* Requests, as records. *)
Requests == [at : {"idle", "find", "update"}, config : Configs,
             edits : Configs, old : BOOLEAN, current : BOOLEAN]

LEMMA NoConfigIsConfig == NoConfig \in Configs /\ Idle \in Requests
BY DEF NoConfig, Configs, Leaves, Idle, Requests

LEMMA MergeType ==
  ASSUME NEW a \in Configs, NEW b \in Configs
  PROVE  Merge(a, b) \in Configs
BY DEF Merge, Configs

LEMMA MaskType ==
  ASSUME NEW a \in Configs
  PROVE  Mask(a) \in Configs
BY DEF Mask, Configs, Leaves

LEMMA BodyTypes ==
  ASSUME ConfigTypeOK, NEW c \in Clients, NEW f \in Fields, NEW v \in Values \cup {Blank}
  PROVE  /\ SparseBody(f, v) \in Configs
         /\ form[c] # NoForm => FormBody(c, f, v) \in Configs
BY DEF ConfigTypeOK, SparseBody, FormBody, NoConfig, Configs, Leaves

(* What the other requests know of the row changes in their `current` only.*)
LEMMA RewriteFacts ==
  ASSUME ConfigTypeOK, NEW config \in Configs \cup {NoRow}
  PROVE  /\ Rewrite(config) \in [Clients -> Requests]
         /\ \A c \in Clients :
              /\ Rewrite(config)[c].at = req[c].at
              /\ Rewrite(config)[c].config = req[c].config
              /\ Rewrite(config)[c].edits = req[c].edits
              /\ Rewrite(config)[c].old = req[c].old
              /\ Rewrite(config)[c].current => req[c].current
              /\ Rewrite(config)[c].current /\ req[c].at = "update" => stored = config
<1>1. req \in [Clients -> Requests]
  BY DEF ConfigTypeOK, Requests
<1>2. ASSUME NEW c \in Clients
      PROVE  /\ Rewrite(config)[c] \in Requests
             /\ Rewrite(config)[c].at = req[c].at
             /\ Rewrite(config)[c].config = req[c].config
             /\ Rewrite(config)[c].edits = req[c].edits
             /\ Rewrite(config)[c].old = req[c].old
             /\ Rewrite(config)[c].current => req[c].current
             /\ Rewrite(config)[c].current /\ req[c].at = "update" => stored = config
  BY <1>1, <1>2 DEF Rewrite, Requests
<1>3. Rewrite(config) \in [Clients -> Requests]
  BY <1>2 DEF Rewrite
<1> QED BY <1>2, <1>3

LEMMA ConfigInitInv == ConfigInit => MergeInv
<1> SUFFICES ASSUME ConfigInit PROVE MergeInv
  OBVIOUS
<1>1. ConfigTypeOK
  <2>1. req \in [Clients -> Requests]
    BY NoConfigIsConfig DEF ConfigInit
  <2>2. req \in [Clients -> [at : {"idle", "find", "update"}, config : Configs,
                             edits : Configs, old : BOOLEAN, current : BOOLEAN]]
    BY <2>1 DEF Requests
  <2>3. form \in [Clients -> Configs \cup {NoForm}] /\ want \in Configs
    BY NoConfigIsConfig DEF ConfigInit
  <2>4. requests \in 0..MaxRequests
    BY ConfigAssumption DEF ConfigInit
  <2> QED BY <2>2, <2>3, <2>4 DEF ConfigInit, ConfigTypeOK
<1>2. FormsMasked /\ SecretsSurvive /\ EditsKept
  BY DEF ConfigInit, FormsMasked, SecretsSurvive, EditsKept
<1>3. BodiesHonest /\ MergedRight
  BY DEF ConfigInit, BodiesHonest, MergedRight, Idle
<1> QED BY <1>1, <1>2, <1>3 DEF MergeInv

LEMMA ConfigTypeStep == ConfigTypeOK /\ [ConfigNext]_configVars => ConfigTypeOK'
<1> SUFFICES ASSUME ConfigTypeOK, [ConfigNext]_configVars PROVE ConfigTypeOK'
  OBVIOUS
<1>t. /\ req \in [Clients -> Requests] /\ stored \in Configs \cup {NoRow}
      /\ form \in [Clients -> Configs \cup {NoForm}] /\ want \in Configs
  BY DEF ConfigTypeOK, Requests
<1>1. CASE RemoveRow
  <2>1. req' \in [Clients -> Requests]
    BY <1>1, RewriteFacts DEF RemoveRow
  <2> QED BY <1>1, <2>1 DEF RemoveRow, ConfigTypeOK, Requests
<1>2. ASSUME NEW c \in Clients, Load(c) PROVE ConfigTypeOK'
  <2>1. Mask(stored) \in Configs
    BY <1>2, <1>t, MaskType DEF Load
  <2> QED BY <1>2, <2>1, <1>t DEF Load, ConfigTypeOK
<1>3. ASSUME NEW c \in Clients, NEW body \in Configs, NEW edits \in Configs, Send(c, body, edits)
      PROVE  ConfigTypeOK'
  <2>1. req' \in [Clients -> Requests]
    BY <1>3, <1>t, NoConfigIsConfig DEF Send, Requests, Idle
  <2>2. requests' \in 0..MaxRequests
    BY <1>3, ConfigAssumption DEF Send, Counted, ConfigTypeOK
  <2> QED BY <1>3, <2>1, <2>2, <1>t DEF Send, ConfigTypeOK, Requests
<1>4. ASSUME NEW c \in Clients, SendForm(c) PROVE ConfigTypeOK'
  <2> PICK f \in Fields, v \in Values : Send(c, FormBody(c, f, v), SparseBody(f, v))
    BY <1>4 DEF SendForm
  <2> QED BY <1>3, <1>4, BodyTypes DEF SendForm
<1>5. ASSUME NEW c \in Clients, SendSparse(c) PROVE ConfigTypeOK'
  <2> PICK f \in Fields, v \in Values \cup {Blank} :
        Send(c, SparseBody(f, v),
             IF f \in Secret /\ v = Blank THEN NoConfig ELSE SparseBody(f, v))
    BY <1>5 DEF SendSparse
  <2> QED BY <1>3, BodyTypes, NoConfigIsConfig
<1>6. ASSUME NEW c \in Clients, Post(c) PROVE ConfigTypeOK'
  <2> PICK body \in [Fields -> Values \cup {Absent}] \cup ({form[c]} \ {NoForm}) :
        /\ stored' = body
        /\ want' = [f \in Fields |->
                      IF f \in {g \in Secret : stored # NoRow /\ body[g] = Masked}
                      THEN want[f] ELSE body[f]]
        /\ posted' = ({g \in Secret : stored # NoRow /\ body[g] = Masked} # {})
        /\ req' = Rewrite(body)
    BY <1>6 DEF Post
  <2>1. body \in Configs
    BY <1>t DEF Configs, Leaves
  <2>2. req' \in [Clients -> Requests]
    BY <2>1, RewriteFacts
  <2>3. want' \in Configs
    BY <2>1, <1>t DEF Configs
  <2>4. requests' \in 0..MaxRequests
    BY <1>6, ConfigAssumption DEF Post, Counted, ConfigTypeOK
  <2> QED BY <1>6, <1>t, <2>1, <2>2, <2>3, <2>4 DEF Post, ConfigTypeOK, Requests
<1>7. ASSUME NEW c \in Clients, PatchFind(c) PROVE ConfigTypeOK'
  <2>1. stored # NoRow => Merge(stored, req[c].config) \in Configs
    BY <1>t, MergeType DEF Requests
  <2>2. req' \in [Clients -> Requests]
    <3> DEFINE merged == [req[c] EXCEPT !.at = "update",
                                        !.config = Merge(stored, req[c].config),
                                        !.old = (Outdated(req[c]) # {})]
    <3>1. stored # NoRow => merged \in Requests
      BY <1>t, <2>1 DEF Requests
    <3>2. req' = [req EXCEPT ![c] = IF stored = NoRow THEN Idle ELSE merged]
      BY <1>7 DEF PatchFind
    <3> HIDE DEF merged
    <3> QED BY <3>1, <3>2, <1>t, NoConfigIsConfig
  <2> QED BY <1>7, <2>2 DEF PatchFind, ConfigTypeOK, Requests
<1>8. ASSUME NEW c \in Clients, PatchUpdate(c) PROVE ConfigTypeOK'
  <2>1. CASE stored = NoRow
    BY <1>8, <2>1, <1>t, NoConfigIsConfig DEF PatchUpdate, ConfigTypeOK, Requests
  <2>2. CASE stored # NoRow
    <3>1. req[c].config \in Configs /\ req[c].edits \in Configs
      BY <1>t DEF Requests
    <3>2. req' \in [Clients -> Requests]
      BY <1>8, <2>2, <3>1, RewriteFacts, NoConfigIsConfig DEF PatchUpdate
    <3>3. want' \in Configs
      BY <1>8, <2>2, <3>1, <1>t DEF PatchUpdate, Configs
    <3> QED BY <1>8, <2>2, <3>1, <3>2, <3>3, <1>t DEF PatchUpdate, ConfigTypeOK, Requests
  <2> QED BY <2>1, <2>2
<1>9. ASSUME NEW c \in Clients, PatchFails(c) PROVE ConfigTypeOK'
  BY <1>9, <1>t, NoConfigIsConfig DEF PatchFails, ConfigTypeOK, Requests
<1>10. CASE UNCHANGED configVars
  BY <1>10 DEF configVars, ConfigTypeOK
<1> QED
  BY <1>1, <1>2, <1>4, <1>5, <1>6, <1>7, <1>8, <1>9, <1>10 DEF ConfigNext

-----------------------------------------------------------------------------
(* One step: the facts about the requests first, then the two properties   *)
(* from them.                                                              *)
LEMMA RequestStep ==
  MergeInv /\ [ConfigNext]_configVars => (FormsMasked /\ BodiesHonest /\ MergedRight)'
<1> SUFFICES ASSUME MergeInv, [ConfigNext]_configVars
             PROVE  (FormsMasked /\ BodiesHonest /\ MergedRight)'
  OBVIOUS
<1>t. /\ req \in [Clients -> Requests] /\ stored \in Configs \cup {NoRow}
      /\ form \in [Clients -> Configs \cup {NoForm}] /\ want \in Configs
      /\ ConfigTypeOK
  BY DEF MergeInv, ConfigTypeOK, Requests
<1>i. FormsMasked /\ BodiesHonest /\ MergedRight
  BY DEF MergeInv
<1>r. ASSUME NEW config \in Configs \cup {NoRow},
             stored' = config, req' = Rewrite(config)
      PROVE  (BodiesHonest /\ MergedRight)'
  <2>1. BodiesHonest'
    BY <1>r, <1>i, <1>t, RewriteFacts DEF BodiesHonest
  <2>2. MergedRight'
    BY <1>r, <1>i, <1>t, RewriteFacts DEF MergedRight
  <2> QED BY <2>1, <2>2
<1>d. ASSUME NEW c \in Clients, req' = [req EXCEPT ![c] = Idle], UNCHANGED stored
      PROVE  (BodiesHonest /\ MergedRight)'
  <2>1. \A d \in Clients : req'[d] = req[d] \/ req'[d].at = "idle"
    BY <1>d, <1>t DEF Idle
  <2> QED BY <2>1, <1>d, <1>i DEF BodiesHonest, MergedRight
<1>1. CASE RemoveRow
  BY <1>1, <1>i, <1>r DEF RemoveRow, FormsMasked
<1>2. ASSUME NEW c \in Clients, Load(c)
      PROVE  (FormsMasked /\ BodiesHonest /\ MergedRight)'
  <2>1. \A f \in Secret : Mask(stored)[f] \in Harmless
    BY ConfigAssumption DEF Mask, Harmless
  <2>2. FormsMasked'
    BY <1>2, <2>1, <1>i, <1>t DEF Load, FormsMasked
  <2> QED BY <1>2, <2>2, <1>i DEF Load, BodiesHonest, MergedRight
<1>3. ASSUME NEW c \in Clients, NEW body \in Configs, NEW edits \in Configs,
             Send(c, body, edits),
             \A f \in Fields :
               /\ edits[f] # Absent => body[f] = edits[f]
               /\ f \in Secret => IF edits[f] = Absent THEN body[f] \in Harmless
                                  ELSE edits[f] \in Values
      PROVE  (FormsMasked /\ BodiesHonest /\ MergedRight)'
  <2>1. \A d \in Clients : d # c => req'[d] = req[d]
    BY <1>3, <1>t DEF Send
  <2>2. req'[c].at = "find" /\ req'[c].config = body /\ req'[c].edits = edits
    BY <1>3, <1>t DEF Send, Idle
  <2>3. BodiesHonest'
    BY <1>3, <2>1, <2>2, <1>i DEF BodiesHonest
  <2>4. MergedRight'
    BY <1>3, <2>1, <2>2, <1>i DEF Send, MergedRight
  <2>5. FormsMasked'
    BY <1>3, <1>i, <1>t DEF Send, FormsMasked
  <2> QED BY <2>3, <2>4, <2>5
<1>4. ASSUME NEW c \in Clients, SendForm(c)
      PROVE  (FormsMasked /\ BodiesHonest /\ MergedRight)'
  <2> PICK f \in Fields, v \in Values : Send(c, FormBody(c, f, v), SparseBody(f, v))
    BY <1>4 DEF SendForm
  <2>1. form[c] # NoForm
    BY <1>4 DEF SendForm
  <2>2. FormBody(c, f, v) \in Configs /\ SparseBody(f, v) \in Configs
    BY <2>1, <1>t, BodyTypes
  <2>3. ASSUME NEW g \in Fields
        PROVE  /\ SparseBody(f, v)[g] # Absent => FormBody(c, f, v)[g] = SparseBody(f, v)[g]
               /\ g \in Secret => IF SparseBody(f, v)[g] = Absent
                                  THEN FormBody(c, f, v)[g] \in Harmless
                                  ELSE SparseBody(f, v)[g] \in Values
    BY <2>1, <2>3, <1>i, ConfigAssumption
       DEF SparseBody, FormBody, NoConfig, FormsMasked, Harmless
  <2> QED BY <1>3, <2>2, <2>3
<1>5. ASSUME NEW c \in Clients, SendSparse(c)
      PROVE  (FormsMasked /\ BodiesHonest /\ MergedRight)'
  <2> PICK f \in Fields, v \in Values \cup {Blank} :
        Send(c, SparseBody(f, v),
             IF f \in Secret /\ v = Blank THEN NoConfig ELSE SparseBody(f, v))
    BY <1>5 DEF SendSparse
  <2> DEFINE edits == IF f \in Secret /\ v = Blank THEN NoConfig ELSE SparseBody(f, v)
  <2>1. SparseBody(f, v) \in Configs /\ edits \in Configs
    BY <1>t, BodyTypes, NoConfigIsConfig
  <2>2. ASSUME NEW g \in Fields
        PROVE  /\ edits[g] # Absent => SparseBody(f, v)[g] = edits[g]
               /\ g \in Secret => IF edits[g] = Absent THEN SparseBody(f, v)[g] \in Harmless
                                  ELSE edits[g] \in Values
    BY <2>2, ConfigAssumption DEF SparseBody, NoConfig, Harmless
  <2>3. Send(c, SparseBody(f, v), edits)
    OBVIOUS
  <2> HIDE DEF edits
  <2> QED BY <1>3, <2>1, <2>2, <2>3
<1>6. ASSUME NEW c \in Clients, Post(c)
      PROVE  (FormsMasked /\ BodiesHonest /\ MergedRight)'
  <2> PICK body \in [Fields -> Values \cup {Absent}] \cup ({form[c]} \ {NoForm}) :
        stored' = body /\ req' = Rewrite(body)
    BY <1>6 DEF Post
  <2>1. body \in Configs
    BY <1>t DEF Configs, Leaves
  <2> QED BY <1>6, <1>r, <1>i, <2>1 DEF Post, FormsMasked
<1>7. ASSUME NEW c \in Clients, PatchFind(c)
      PROVE  (FormsMasked /\ BodiesHonest /\ MergedRight)'
  <2>1. CASE stored = NoRow
    BY <1>7, <2>1, <1>d, <1>i DEF PatchFind, FormsMasked
  <2>2. CASE stored # NoRow
    <3>1. \A d \in Clients : d # c => req'[d] = req[d]
      BY <1>7, <1>t DEF PatchFind
    <3>2. /\ req'[c].at = "update" /\ req'[c].config = Merge(stored, req[c].config)
          /\ req'[c].edits = req[c].edits /\ req'[c].old = (Outdated(req[c]) # {})
      BY <1>7, <2>2, <1>t DEF PatchFind, Requests
    <3>3. BodiesHonest'
      BY <3>1, <3>2, <1>i DEF BodiesHonest
    <3>4. \A f \in Fields :
            /\ req[c].edits[f] # Absent => req[c].config[f] = req[c].edits[f]
            /\ f \in Secret => IF req[c].edits[f] = Absent THEN req[c].config[f] \in Harmless
                               ELSE req[c].edits[f] \in Values
      BY <1>7, <1>i DEF PatchFind, BodiesHonest
    <3>5. ASSUME NEW f \in Fields, req[c].edits[f] # Absent
          PROVE  Merge(stored, req[c].config)[f] = req[c].edits[f]
      BY <3>4, <3>5, ConfigAssumption DEF Merge, Keeps
    <3>6. ASSUME NEW f \in Fields, req[c].edits[f] = Absent, f \in Secret \/ ~req'[c].old
          PROVE  Merge(stored, req[c].config)[f] = stored[f]
      <4>1. CASE f \in Secret
        BY <3>4, <3>6, <4>1 DEF Merge, Keeps, Harmless
      <4>2. CASE f \notin Secret
        <5>1. req[c].config[f] \in {Absent, stored[f]}
          BY <3>2, <3>6, <4>2 DEF Outdated
        <5> QED BY <5>1, <4>2 DEF Merge, Keeps
      <4> QED BY <4>1, <4>2
    <3>7. MergedRight'
      BY <1>7, <2>2, <3>1, <3>2, <3>5, <3>6, <1>i DEF PatchFind, MergedRight
    <3> QED BY <1>7, <3>3, <3>7, <1>i DEF PatchFind, FormsMasked
  <2> QED BY <2>1, <2>2
<1>8. ASSUME NEW c \in Clients, PatchUpdate(c)
      PROVE  (FormsMasked /\ BodiesHonest /\ MergedRight)'
  <2>1. CASE stored = NoRow
    BY <1>8, <2>1, <1>d, <1>i DEF PatchUpdate, FormsMasked
  <2>2. CASE stored # NoRow
    <3> DEFINE others == Rewrite(req[c].config)
    <3>1. req[c].config \in Configs
      BY <1>t DEF Requests
    <3>2. /\ others \in [Clients -> Requests]
          /\ \A d \in Clients :
               /\ others[d].at = req[d].at /\ others[d].config = req[d].config
               /\ others[d].edits = req[d].edits /\ others[d].old = req[d].old
               /\ others[d].current => req[d].current
               /\ others[d].current /\ req[d].at = "update" => stored = req[c].config
      BY <3>1, <1>t, RewriteFacts
    <3>3. stored' = req[c].config /\ req' = [others EXCEPT ![c] = Idle] /\ form' = form
      BY <1>8, <2>2 DEF PatchUpdate
    <3> HIDE DEF others
    <3>4. \A d \in Clients : req'[d] = others[d] \/ req'[d].at = "idle"
      BY <3>2, <3>3 DEF Idle
    <3>5. BodiesHonest'
      BY <3>2, <3>4, <1>i DEF BodiesHonest
    <3>6. MergedRight'
      BY <3>1, <3>2, <3>3, <3>4, <1>i, ConfigAssumption DEF MergedRight
    <3> QED BY <3>3, <3>5, <3>6, <1>i DEF FormsMasked
  <2> QED BY <2>1, <2>2
<1>9. ASSUME NEW c \in Clients, PatchFails(c)
      PROVE  (FormsMasked /\ BodiesHonest /\ MergedRight)'
  BY <1>9, <1>d, <1>i DEF PatchFails, FormsMasked
<1>10. CASE UNCHANGED configVars
  BY <1>10, <1>i DEF configVars, FormsMasked, BodiesHonest, MergedRight
<1> QED
  BY <1>1, <1>2, <1>4, <1>5, <1>6, <1>7, <1>8, <1>9, <1>10 DEF ConfigNext

LEMMA ValueStep ==
  MergeInv /\ [ConfigNext]_configVars => (SecretsSurvive /\ EditsKept)'
<1> SUFFICES ASSUME MergeInv, [ConfigNext]_configVars PROVE (SecretsSurvive /\ EditsKept)'
  OBVIOUS
<1>t. /\ req \in [Clients -> Requests] /\ stored \in Configs \cup {NoRow}
      /\ form \in [Clients -> Configs \cup {NoForm}] /\ want \in Configs
      /\ overlapped \in BOOLEAN /\ posted \in BOOLEAN /\ stale \in BOOLEAN
  BY DEF MergeInv, ConfigTypeOK, Requests
<1>i. MergedRight /\ SecretsSurvive /\ EditsKept
  BY DEF MergeInv
<1>u. ASSUME UNCHANGED <<stored, want, overlapped, posted, stale>>
      PROVE  (SecretsSurvive /\ EditsKept)'
  BY <1>u, <1>i DEF SecretsSurvive, EditsKept
<1>1. CASE RemoveRow
  BY <1>1 DEF RemoveRow, SecretsSurvive, EditsKept
<1>2. ASSUME NEW c \in Clients, Post(c) PROVE (SecretsSurvive /\ EditsKept)'
  <2> PICK body \in [Fields -> Values \cup {Absent}] \cup ({form[c]} \ {NoForm}) :
        /\ stored' = body
        /\ want' = [f \in Fields |->
                      IF f \in {g \in Secret : stored # NoRow /\ body[g] = Masked}
                      THEN want[f] ELSE body[f]]
        /\ posted' = ({g \in Secret : stored # NoRow /\ body[g] = Masked} # {})
    BY <1>2 DEF Post
  <2>1. body \in Configs
    BY <1>t DEF Configs, Leaves
  <2>2. ~posted' => \A f \in Fields : want'[f] = body[f]
    OBVIOUS
  <2>3. ~posted' => want' = body
    BY <2>1, <2>2 DEF Configs
  <2> QED BY <2>2, <2>3, ConfigAssumption DEF SecretsSurvive, EditsKept
<1>3. ASSUME NEW c \in Clients, PatchUpdate(c) PROVE (SecretsSurvive /\ EditsKept)'
  <2>1. CASE stored = NoRow
    BY <1>3, <2>1, <1>u DEF PatchUpdate
  <2>2. CASE stored # NoRow
    <3>1. /\ stored' = req[c].config /\ posted' = posted
          /\ want' = [f \in Fields |-> IF req[c].edits[f] = Absent THEN want[f]
                                       ELSE req[c].edits[f]]
          /\ overlapped' = (overlapped \/ ~req[c].current)
          /\ stale' = (stale \/ req[c].old)
      BY <1>3, <2>2 DEF PatchUpdate
    <3>2. /\ \A f \in Fields : req[c].edits[f] # Absent => req[c].config[f] = req[c].edits[f]
          /\ req[c].current =>
               \A f \in Fields :
                 req[c].edits[f] = Absent /\ (f \in Secret \/ ~req[c].old)
                   => req[c].config[f] = stored[f]
      BY <1>3, <1>i DEF PatchUpdate, MergedRight
    <3>3. SecretsSurvive'
      BY <2>2, <3>1, <3>2, <1>i, ConfigAssumption DEF SecretsSurvive
    <3>4. ASSUME ~overlapped', ~posted', ~stale' PROVE stored' = want'
      <4>1. req[c].current /\ ~req[c].old /\ stored = want
        BY <2>2, <3>1, <3>4, <1>i DEF EditsKept
      <4>2. \A f \in Fields : stored'[f] = want'[f]
        BY <3>1, <3>2, <4>1
      <4>3. req[c].config \in Configs
        BY <1>t DEF Requests
      <4> QED BY <3>1, <4>2, <4>3 DEF Configs
    <3> QED BY <3>3, <3>4 DEF EditsKept
  <2> QED BY <2>1, <2>2
<1>4. ASSUME NEW c \in Clients,
             Load(c) \/ SendForm(c) \/ SendSparse(c) \/ PatchFind(c) \/ PatchFails(c)
      PROVE  (SecretsSurvive /\ EditsKept)'
  BY <1>4, <1>u DEF Load, SendForm, SendSparse, Send, PatchFind, PatchFails
<1>5. CASE UNCHANGED configVars
  BY <1>5, <1>u DEF configVars
<1> QED BY <1>1, <1>2, <1>3, <1>4, <1>5 DEF ConfigNext

-----------------------------------------------------------------------------
LEMMA InvariantHolds == ConfigSpec => []MergeInv
<1>1. MergeInv /\ [ConfigNext]_configVars => MergeInv'
  BY ConfigTypeStep, RequestStep, ValueStep DEF MergeInv
<1> QED BY ConfigInitInv, <1>1, PTL DEF ConfigSpec

(* A secret that is stored is the one last set on purpose, whatever forms  *)
(* come back: for every set of fields, values and clients and any number   *)
(* of requests, unless two overlapped or a masked one was POSTed.          *)
THEOREM SecretsSurviveAlways == ConfigSpec => []SecretsSurvive
<1>1. MergeInv => SecretsSurvive
  BY DEF MergeInv
<1> QED BY InvariantHolds, <1>1, PTL

(* Every field is what was last set on purpose, with the same exceptions   *)
(* and that of outdated plain fields sent back.                            *)
THEOREM EditsKeptAlways == ConfigSpec => []EditsKept
<1>1. MergeInv => EditsKept
  BY DEF MergeInv
<1> QED BY InvariantHolds, <1>1, PTL

-----------------------------------------------------------------------------
(* Backups and restores.                                                   *)

Links == [of : ParentIds, born : Nat \ {0}]

Files == [tables : SUBSET Pair, child : [Keys -> Links \cup {NoLink}],
          parent : [ParentIds -> Nat], inc : 1..(MaxParents + 1), lines : 0..6, ok : BOOLEAN]

BackupTypeOK ==
  /\ exist \in SUBSET Pair
  /\ child \in [Keys -> Links \cup {NoLink}]
  /\ parent \in [ParentIds -> Nat]
  /\ autoInc \in 1..(MaxParents + 1)
  /\ births \in Nat
  /\ file \in Files
  /\ dumping \in {"idle", "child", "schema", "parent", "close"}
  /\ restoring \in 0..7
  /\ restored \in {"none", "running", "failed", "done"}
  /\ shrunk \in BOOLEAN /\ unflushed \in BOOLEAN /\ touched \in BOOLEAN
  /\ straddled \in BOOLEAN /\ chosen \in BOOLEAN /\ unread \in BOOLEAN /\ partial \in BOOLEAN

(* Rows are in tables, and ids of rows below the counter, if there is one. *)
RowsExist ==
  /\ "child" \notin exist => child = NoChildren
  /\ "parent" \notin exist => parent = NoParents
  /\ ~chosen => \A i \in ParentIds : parent[i] # 0 => i < autoInc

(* One tool at a time. *)
OneTool ==
  /\ dumping # "idle" => restoring = 0
  /\ restoring \in 0..(file.lines + 1)
  /\ restored = "running" <=> restoring # 0

(* What a dump has read so far agrees with what it will read. *)
DumpInv ==
  ~shrunk =>
    /\ dumping = "child" => Agree(child, parent)
    /\ dumping \in {"schema", "parent"} => Agree(file.child, parent)
    /\ dumping = "close" \/ file.ok \/ file.lines = 6 => Agree(file.child, file.parent)

(* How far the dump has come. *)
Written ==
  /\ dumping # "idle" => ~file.ok
  /\ dumping = "parent" => file.lines = 5
  /\ dumping = "close" => file.lines = 6
  /\ file.ok /\ ~unflushed => file.lines = 6

(* What a restore has done so far, if it was alone. *)
RestoreInv ==
  ~touched /\ restoring # 0 =>
    /\ "child" \in file.tables =>
         /\ restoring \in 2..3 => child = NoChildren
         /\ restoring > 3 => child = file.child
    /\ "parent" \in file.tables =>
         /\ restoring \in 5..6 => parent = NoParents
         /\ restoring > 6 => parent = file.parent

(* No link of c leads to another row than its own, now or later. *)
Safe(c) ==
  \A k \in Keys : c[k] # NoLink =>
    parent[c[k].of] \in {0, c[k].born} /\ c[k].of < autoInc

(* The links in the file, and what the rest of it would restore. *)
FileLinks ==
  /\ Safe(file.child)
  /\ file.lines > 4 => \A k \in Keys : file.child[k] # NoLink => file.child[k].of < file.inc
  /\ file.lines > 5 => \A k \in Keys : file.child[k] # NoLink =>
                          file.parent[file.child[k].of] \in {0, file.child[k].born}

(* Between the two tables of a restore. *)
MidRestore ==
  /\ restoring \in 4..6 /\ "child" \in file.tables => partial
  /\ restoring = 6 => file.tables # {"parent"}
  /\ file.tables = Pair =>
       /\ restoring = 3 => child = NoChildren
       /\ restoring \in {4, 5} => \A k \in Keys : child[k] \in {NoLink, file.child[k]}
       /\ restoring = 5 => "parent" \notin exist
       /\ restoring = 6 => \A k \in Keys :
            \/ child[k] \in {NoLink, file.child[k]}
            \/ parent[child[k].of] = child[k].born

(* Every child's parent is there, if the table of parents is. *)
Paired == "parent" \in exist => Agree(child, parent)

MidInv  == ~straddled => MidRestore
LinkInv == ~straddled /\ ~chosen => Safe(child) /\ FileLinks
PairInv == ~straddled /\ chosen /\ ~partial => Paired

BackupInv == BackupTypeOK /\ RowsExist /\ OneTool /\ Written

LEMMA BackupBounds == MaxParents \in Nat /\ MaxParents >= 1 /\ 1 \in 1..(MaxParents + 1)
BY BackupAssumption

LEMMA NoLinkIsNone == NoLink \notin Links /\ \A l \in Links : l.of \in ParentIds /\ l.born # 0
<1>1. \A l \in Links : l.of \in ParentIds /\ l.born # 0
  BY DEF Links
<1>2. NoLink.of = 0 /\ 0 \notin ParentIds
  BY BackupBounds DEF NoLink, ParentIds
<1> QED BY <1>1, <1>2

LEMMA FileTypes ==
  ASSUME BackupTypeOK
  PROVE  /\ file.tables \in SUBSET Pair
         /\ file.child \in [Keys -> Links \cup {NoLink}]
         /\ file.parent \in [ParentIds -> Nat]
         /\ file.inc \in 1..(MaxParents + 1)
         /\ file.lines \in 0..6 /\ file.ok \in BOOLEAN
BY DEF BackupTypeOK, Files

(* The fresh file. *)
LEMMA TruncatedTypes ==
  /\ NoChildren \in [Keys -> Links \cup {NoLink}] /\ NoParents \in [ParentIds -> Nat]
  /\ \A t \in SUBSET Pair : [Truncated EXCEPT !.tables = t] \in Files
  /\ Truncated \in Files
<1>1. NoChildren \in [Keys -> Links \cup {NoLink}] /\ NoParents \in [ParentIds -> Nat]
  BY DEF NoChildren, NoParents
<1> DEFINE Fresh(t) == [tables |-> t, child |-> NoChildren, parent |-> NoParents, inc |-> 1,
                        lines |-> 0, ok |-> FALSE]
<1>2. \A t \in SUBSET Pair : Fresh(t) \in Files
  BY <1>1, BackupBounds DEF Files
<1>3. Truncated \in Files
  BY <1>2 DEF Truncated
<1>4. ASSUME NEW t \in SUBSET Pair PROVE [Truncated EXCEPT !.tables = t] \in Files
  BY <1>3 DEF Files
<1> QED BY <1>1, <1>3, <1>4

LEMMA ScriptLines ==
  /\ Len(Script) = 6
  /\ Script[1].do = "drop" /\ Script[1].table = "child"
  /\ Script[2].do = "create" /\ Script[2].table = "child"
  /\ Script[3].do = "insert" /\ Script[3].table = "child"
  /\ Script[4].do = "drop" /\ Script[4].table = "parent"
  /\ Script[5].do = "create" /\ Script[5].table = "parent"
  /\ Script[6].do = "insert" /\ Script[6].table = "parent"
BY DEF Script

(* The three reads of a dump. *)
LEMMA DumpCases ==
  ASSUME BackupTypeOK, DumpTable
  PROVE  /\ UNCHANGED <<rowVars, tools, shrunk, unflushed, restoring, restored, touched, mixVars,
                        straddled>>
         /\ \/ /\ dumping = "child" /\ dumping' = "schema"
               /\ file' = [file EXCEPT !.child = child, !.lines = 3]
            \/ /\ dumping = "schema" /\ dumping' = "parent"
               /\ file' = [file EXCEPT !.inc = autoInc, !.lines = 5]
            \/ /\ dumping = "parent" /\ dumping' = "close"
               /\ file' = [file EXCEPT !.parent = parent, !.lines = 6]
<1>1. /\ DumpOrder[1] = "child" /\ DumpOrder[2] = "schema" /\ DumpOrder[3] = "parent"
      /\ Len(DumpOrder) = 3
  BY DEF DumpOrder
<1>2. PICK i \in 1..3 : /\ dumping = DumpOrder[i]
                        /\ dumping' = IF i = 3 THEN "close" ELSE DumpOrder[i + 1]
  BY <1>1 DEF DumpTable
<1>3. CASE i = 1
  BY <1>1, <1>2, <1>3 DEF DumpTable
<1>4. CASE i = 2
  BY <1>1, <1>2, <1>4 DEF DumpTable
<1>5. CASE i = 3
  BY <1>1, <1>2, <1>5 DEF DumpTable
<1> QED BY <1>3, <1>4, <1>5

(* The six lines of a restore. *)
Skips ==
  /\ UNCHANGED <<exist, child, parent, autoInc>>
  /\ restoring \in 1..3 => "child" \notin file.tables
  /\ restoring \in 4..6 => "parent" \notin file.tables

LEMMA LineCases ==
  ASSUME BackupTypeOK, RestoreLine
  PROVE  /\ restoring \in 1..6 /\ restoring <= file.lines /\ restoring' = restoring + 1
         /\ straddled' = (straddled \/ (restoring = 5 /\ file.tables = {"parent"}))
         /\ partial' = \/ restoring = 3 /\ "child" \in file.tables
                       \/ partial /\ ~(restoring = 6 /\ file.tables = Pair /\ ~shrunk)
         /\ UNCHANGED <<chosen, births, tools, fileVars, dumping, restored, touched, unread>>
         /\ \/ Skips
            \/ restoring = 1 /\ "child" \in file.tables /\ Drops("child")
            \/ restoring = 2 /\ "child" \in file.tables /\ Creates("child")
            \/ restoring = 3 /\ "child" \in file.tables /\ InsertsChildren
            \/ restoring = 4 /\ "parent" \in file.tables /\ Drops("parent")
            \/ restoring = 5 /\ "parent" \in file.tables /\ Creates("parent")
            \/ restoring = 6 /\ "parent" \in file.tables /\ InsertsParents
<1>1. restoring \in 1..6 /\ restoring <= file.lines
  BY FileTypes DEF RestoreLine
<1>r. RunLine
  BY DEF RestoreLine
<1>9. /\ restoring' = restoring + 1
      /\ straddled' = (straddled \/ (restoring = 5 /\ file.tables = {"parent"}))
      /\ partial' = \/ restoring = 3 /\ "child" \in file.tables
                    \/ partial /\ ~(restoring = 6 /\ file.tables = Pair /\ ~shrunk)
      /\ UNCHANGED <<chosen, births, tools, fileVars, dumping, restored, touched, unread>>
  BY DEF RestoreLine
<1>3. CASE restoring = 1
  BY <1>1, <1>r, <1>9, <1>3, ScriptLines DEF RunLine, Skips
<1>4. CASE restoring = 2
  BY <1>1, <1>r, <1>9, <1>4, ScriptLines DEF RunLine, Skips
<1>5. CASE restoring = 3
  BY <1>1, <1>r, <1>9, <1>5, ScriptLines DEF RunLine, Skips
<1>6. CASE restoring = 4
  BY <1>1, <1>r, <1>9, <1>6, ScriptLines DEF RunLine, Skips
<1>7. CASE restoring = 5
  BY <1>1, <1>r, <1>9, <1>7, ScriptLines DEF RunLine, Skips
<1>8. CASE restoring = 6
  BY <1>1, <1>r, <1>9, <1>8, ScriptLines DEF RunLine, Skips
<1>10. restoring = 1 \/ restoring = 2 \/ restoring = 3 \/ restoring = 4 \/ restoring = 5
       \/ restoring = 6
  BY <1>1
<1> QED BY <1>3, <1>4, <1>5, <1>6, <1>7, <1>8, <1>10

(* What each step of a dump does to the file. *)
LEMMA FileSteps ==
  ASSUME BackupTypeOK
  PROVE  /\ BeginDump => /\ file' \in Files /\ file'.tables = exist
                         /\ file'.child = NoChildren /\ file'.lines = 0 /\ file'.ok = FALSE
         /\ DumpTable => /\ file' \in Files /\ file'.ok = file.ok /\ file'.tables = file.tables
                         /\ file'.child = IF dumping = "child" THEN child ELSE file.child
                         /\ file'.inc = IF dumping = "schema" THEN autoInc ELSE file.inc
                         /\ file'.parent = IF dumping = "parent" THEN parent ELSE file.parent
                         /\ file'.lines = IF dumping = "child" THEN 3
                                          ELSE IF dumping = "schema" THEN 5 ELSE 6
         /\ EndDump \/ DumpFails =>
              /\ file' \in Files /\ file'.tables = file.tables /\ file'.child = file.child
              /\ file'.inc = file.inc /\ file'.parent = file.parent
         /\ EndDump => file'.ok = TRUE /\ (~unflushed' => file'.lines = 6)
         /\ DumpFails => file'.ok = file.ok /\ file'.lines <= file.lines
<1>f. file \in Files /\ child \in [Keys -> Links \cup {NoLink}] /\ parent \in [ParentIds -> Nat]
      /\ autoInc \in 1..(MaxParents + 1) /\ exist \in SUBSET Pair
  BY DEF BackupTypeOK
<1>1. ASSUME BeginDump
      PROVE  /\ file' \in Files /\ file'.tables = exist
             /\ file'.child = NoChildren /\ file'.lines = 0 /\ file'.ok = FALSE
  <2>1. file' = [Truncated EXCEPT !.tables = exist]
    BY <1>1 DEF BeginDump
  <2>2. Truncated.child = NoChildren /\ Truncated.lines = 0 /\ Truncated.ok = FALSE
    BY DEF Truncated
  <2> QED BY <1>f, <2>1, <2>2, TruncatedTypes DEF Files
<1>2. ASSUME DumpTable
      PROVE  /\ file' \in Files /\ file'.ok = file.ok /\ file'.tables = file.tables
             /\ file'.child = IF dumping = "child" THEN child ELSE file.child
             /\ file'.inc = IF dumping = "schema" THEN autoInc ELSE file.inc
             /\ file'.parent = IF dumping = "parent" THEN parent ELSE file.parent
             /\ file'.lines = IF dumping = "child" THEN 3
                              ELSE IF dumping = "schema" THEN 5 ELSE 6
  <2>1. CASE file' = [file EXCEPT !.child = child, !.lines = 3] /\ dumping = "child"
    <3>1. file' \in Files
      <4>1. [file EXCEPT !.child = child] \in Files
        BY <1>f DEF Files
      <4>2. file' = [[file EXCEPT !.child = child] EXCEPT !.lines = 3]
        BY <2>1
      <4>3. \A f \in Files : [f EXCEPT !.lines = 3] \in Files
        BY DEF Files
      <4> QED BY <4>1, <4>2, <4>3
    <3>2. /\ file'.child = child /\ file'.lines = 3 /\ file'.inc = file.inc
          /\ file'.parent = file.parent /\ file'.ok = file.ok /\ file'.tables = file.tables
      BY <1>f, <2>1 DEF Files
    <3> QED BY <2>1, <3>1, <3>2
  <2>2. CASE file' = [file EXCEPT !.inc = autoInc, !.lines = 5] /\ dumping = "schema"
    <3>1. file' \in Files
      <4>1. [file EXCEPT !.inc = autoInc] \in Files
        BY <1>f DEF Files
      <4>2. file' = [[file EXCEPT !.inc = autoInc] EXCEPT !.lines = 5]
        BY <2>2
      <4>3. \A f \in Files : [f EXCEPT !.lines = 5] \in Files
        BY DEF Files
      <4> QED BY <4>1, <4>2, <4>3
    <3>2. /\ file'.inc = autoInc /\ file'.lines = 5 /\ file'.child = file.child
          /\ file'.parent = file.parent /\ file'.ok = file.ok /\ file'.tables = file.tables
      BY <1>f, <2>2 DEF Files
    <3> QED BY <2>2, <3>1, <3>2
  <2>3. CASE file' = [file EXCEPT !.parent = parent, !.lines = 6] /\ dumping = "parent"
    <3>1. file' \in Files
      <4>1. [file EXCEPT !.parent = parent] \in Files
        BY <1>f DEF Files
      <4>2. file' = [[file EXCEPT !.parent = parent] EXCEPT !.lines = 6]
        BY <2>3
      <4>3. \A f \in Files : [f EXCEPT !.lines = 6] \in Files
        BY DEF Files
      <4> QED BY <4>1, <4>2, <4>3
    <3>2. /\ file'.parent = parent /\ file'.lines = 6 /\ file'.child = file.child
          /\ file'.inc = file.inc /\ file'.ok = file.ok /\ file'.tables = file.tables
      BY <1>f, <2>3 DEF Files
    <3> QED BY <2>3, <3>1, <3>2
  <2> QED BY <1>2, <2>1, <2>2, <2>3, DumpCases
<1>3. ASSUME EndDump
      PROVE  /\ file' \in Files /\ file'.tables = file.tables /\ file'.child = file.child
             /\ file'.inc = file.inc /\ file'.parent = file.parent
             /\ file'.ok = TRUE /\ (~unflushed' => file'.lines = 6)
  <2>s. Len(Script) = 6
    BY ScriptLines
  <2>1. PICK n \in 0..6 : /\ file' = [file EXCEPT !.ok = TRUE, !.lines = n]
                          /\ unflushed' = (n < 6)
    BY <1>3, <2>s, Zenon DEF EndDump
  <2>2. file'.lines = n
    BY <1>f, <2>1 DEF Files
  <2>3. ~unflushed' => ~(n < 6)
    BY <2>1
  <2>4. file' \in Files
    <3>1. [file EXCEPT !.ok = TRUE] \in Files
      BY <1>f DEF Files
    <3>2. file' = [[file EXCEPT !.ok = TRUE] EXCEPT !.lines = n]
      BY <2>1
    <3>3. \A f \in Files : [f EXCEPT !.lines = n] \in Files
      BY DEF Files
    <3> QED BY <3>1, <3>2, <3>3
  <2>5. /\ file'.tables = file.tables /\ file'.child = file.child /\ file'.inc = file.inc
        /\ file'.parent = file.parent /\ file'.ok = TRUE
    BY <1>f, <2>1 DEF Files
  <2> QED BY <2>2, <2>3, <2>4, <2>5
<1>4. ASSUME DumpFails
      PROVE  /\ file' \in Files /\ file'.tables = file.tables /\ file'.child = file.child
             /\ file'.inc = file.inc /\ file'.parent = file.parent
             /\ file'.ok = file.ok /\ file'.lines <= file.lines
  <2>1. PICK n \in 0..file.lines : file' = [file EXCEPT !.lines = n]
    BY <1>4 DEF DumpFails
  <2>2. n \in 0..6 /\ n <= file.lines
    BY FileTypes
  <2> QED BY <1>f, <2>1, <2>2 DEF Files
<1> QED BY <1>1, <1>2, <1>3, <1>4

-----------------------------------------------------------------------------
LEMMA BackupInitInv ==
  BackupInit => BackupInv /\ DumpInv /\ RestoreInv /\ MidInv /\ LinkInv /\ PairInv
<1> SUFFICES ASSUME BackupInit
             PROVE  BackupInv /\ DumpInv /\ RestoreInv /\ MidInv /\ LinkInv /\ PairInv
  OBVIOUS
<1>1. /\ Truncated.child = NoChildren /\ Truncated.lines = 0 /\ Truncated.ok = FALSE
      /\ Truncated.tables = {}
  BY DEF Truncated
<1>2. BackupTypeOK
  <2>1. exist \in SUBSET Pair /\ file \in Files
    BY TruncatedTypes DEF BackupInit
  <2>2. /\ child \in [Keys -> Links \cup {NoLink}] /\ parent \in [ParentIds -> Nat]
        /\ births \in Nat /\ autoInc \in 1..(MaxParents + 1) /\ restoring \in 0..7
    BY TruncatedTypes, BackupBounds DEF BackupInit
  <2> QED BY <2>1, <2>2 DEF BackupInit, BackupTypeOK
<1>3. RowsExist
  BY DEF BackupInit, RowsExist, Pair, NoParents
<1>4. OneTool /\ Written
  BY <1>1 DEF BackupInit, OneTool, Written
<1>5. DumpInv /\ RestoreInv
  BY <1>1 DEF BackupInit, DumpInv, RestoreInv
<1>6. MidInv /\ LinkInv /\ PairInv
  BY <1>1 DEF BackupInit, MidInv, LinkInv, PairInv, Paired, Agree, Safe, FileLinks, MidRestore,
              NoChildren
<1> QED BY <1>2, <1>3, <1>4, <1>5, <1>6 DEF BackupInv

(* What the daemon's statements do to the rows. *)
LEMMA DaemonTypes ==
  ASSUME BackupTypeOK, AddParent \/ AddChild \/ RemoveParent \/ RemoveChild \/ CreateMissing
  PROVE  /\ exist' \in SUBSET Pair /\ child' \in [Keys -> Links \cup {NoLink}]
         /\ parent' \in [ParentIds -> Nat] /\ autoInc' \in 1..(MaxParents + 1)
         /\ births' \in Nat
<1>t. /\ exist \in SUBSET Pair /\ child \in [Keys -> Links \cup {NoLink}]
      /\ parent \in [ParentIds -> Nat] /\ autoInc \in 1..(MaxParents + 1) /\ births \in Nat
  BY DEF BackupTypeOK
<1>1. CASE AddParent
  <2>1. parent' \in [ParentIds -> Nat] /\ births' \in Nat /\ UNCHANGED <<exist, child>>
    BY <1>1, <1>t DEF AddParent
  <2>2. autoInc' \in 1..(MaxParents + 1)
    BY <1>1, <1>t, BackupBounds DEF AddParent, ParentIds
  <2> QED BY <1>t, <2>1, <2>2
<1>2. CASE AddChild
  <2>1. PICK k \in Keys, i \in ParentIds :
          /\ parent[i] # 0 /\ child' = [child EXCEPT ![k] = [of |-> i, born |-> parent[i]]]
    BY <1>2 DEF AddChild
  <2>2. [of |-> i, born |-> parent[i]] \in Links
    BY <2>1, <1>t DEF Links
  <2> QED BY <1>2, <1>t, <2>1, <2>2 DEF AddChild
<1>3. CASE RemoveParent
  BY <1>3, <1>t DEF RemoveParent
<1>4. CASE RemoveChild
  BY <1>4, <1>t DEF RemoveChild
<1>5. CASE CreateMissing
  BY <1>5, <1>t, BackupBounds DEF CreateMissing
<1> QED BY <1>1, <1>2, <1>3, <1>4, <1>5

LEMMA LineTypes ==
  ASSUME BackupTypeOK, RestoreLine
  PROVE  /\ exist' \in SUBSET Pair /\ child' \in [Keys -> Links \cup {NoLink}]
         /\ parent' \in [ParentIds -> Nat] /\ autoInc' \in 1..(MaxParents + 1)
<1>t. /\ exist \in SUBSET Pair /\ child \in [Keys -> Links \cup {NoLink}]
      /\ parent \in [ParentIds -> Nat] /\ autoInc \in 1..(MaxParents + 1)
      /\ file.child \in [Keys -> Links \cup {NoLink}]
      /\ file.parent \in [ParentIds -> Nat] /\ file.inc \in 1..(MaxParents + 1)
  BY FileTypes DEF BackupTypeOK
<1>1. CASE Skips
  BY <1>1, <1>t DEF Skips
<1>2. CASE Drops("child") \/ Drops("parent")
  BY <1>2, <1>t, TruncatedTypes DEF Drops
<1>3. CASE Creates("child") \/ Creates("parent")
  BY <1>3, <1>t DEF Creates, Counter, Pair
<1>4. CASE InsertsChildren
  BY <1>4, <1>t DEF InsertsChildren
<1>5. CASE InsertsParents
  <2>1. Free \subseteq 1..(MaxParents + 1)
    BY <1>t, BackupBounds DEF Free, ParentIds
  <2> QED BY <1>5, <1>t, <2>1 DEF InsertsParents
<1> QED BY <1>1, <1>2, <1>3, <1>4, <1>5, LineCases

Daemon == AddParent \/ AddChild \/ RemoveParent \/ RemoveChild \/ CreateMissing
Dump   == BeginDump \/ DumpTable \/ EndDump \/ DumpFails

(* Frames. *)
LEMMA DaemonFrame ==
  ASSUME Daemon
  PROVE  /\ UNCHANGED <<chosen, tools, file, unflushed, dumping, restoring, restored, unread, partial>>
         /\ touched' = (touched \/ restoring # 0)
BY DEF Daemon, AddParent, AddChild, RemoveParent, RemoveChild, CreateMissing, Touch, fileVars, mixVars

LEMMA DumpFrame ==
  ASSUME Dump
  PROVE  UNCHANGED <<exist, child, parent, autoInc, chosen, births, restoring, restored, touched,
                     unread, partial, straddled>>
BY DEF Dump, BeginDump, DumpTable, EndDump, DumpFails, rowVars, mixVars

LEMMA BackupTypeStep == BackupTypeOK /\ [BackupNext]_backupVars => BackupTypeOK'
<1> SUFFICES ASSUME BackupTypeOK, [BackupNext]_backupVars PROVE BackupTypeOK'
  OBVIOUS
<1> USE DEF BackupTypeOK
<1>1. CASE Daemon
  <2>1. /\ exist' \in SUBSET Pair /\ child' \in [Keys -> Links \cup {NoLink}]
        /\ parent' \in [ParentIds -> Nat] /\ autoInc' \in 1..(MaxParents + 1)
        /\ births' \in Nat
    BY <1>1, DaemonTypes DEF Daemon
  <2>2. /\ file' = file /\ dumping' = dumping /\ restoring' = restoring
        /\ restored' = restored /\ unflushed' = unflushed /\ chosen' = chosen
        /\ unread' = unread /\ partial' = partial
    BY <1>1, DaemonFrame
  <2>3. shrunk' \in BOOLEAN /\ touched' \in BOOLEAN /\ straddled' \in BOOLEAN
    BY <1>1 DEF Daemon, AddParent, AddChild, RemoveParent, RemoveChild, CreateMissing, Touch,
                fileVars
  <2> QED BY <2>1, <2>2, <2>3
<1>2. CASE Dump
  <2>1. file' \in Files
    BY <1>2, FileSteps DEF Dump
  <2>2. dumping' \in {"idle", "child", "schema", "parent", "close"}
    BY <1>2, DumpCases DEF Dump, BeginDump, EndDump, DumpFails, DumpOrder
  <2>3. shrunk' \in BOOLEAN /\ unflushed' \in BOOLEAN
    <3>1. CASE EndDump
      BY <3>1 DEF EndDump
    <3>2. CASE BeginDump \/ DumpTable \/ DumpFails
      BY <3>2 DEF BeginDump, DumpTable, DumpFails
    <3> QED BY <1>2, <3>1, <3>2 DEF Dump
  <2> QED BY <1>2, <2>1, <2>2, <2>3, DumpFrame
<1>3. CASE BeginRestore
  <2>1. restoring' \in 0..7 /\ restored' = "running" /\ touched' = FALSE
    BY <1>3 DEF BeginRestore
  <2> QED BY <1>3, <2>1 DEF BeginRestore, rowVars, fileVars
<1>4. CASE RestoreLine
  <2>1. /\ exist' \in SUBSET Pair /\ child' \in [Keys -> Links \cup {NoLink}]
        /\ parent' \in [ParentIds -> Nat] /\ autoInc' \in 1..(MaxParents + 1)
    BY <1>4, LineTypes
  <2>2. restoring' \in 0..7
    <3>1. restoring \in 1..6 /\ restoring' = restoring + 1
      BY <1>4, LineCases
    <3> QED BY <3>1
  <2>s. straddled' \in BOOLEAN /\ partial' \in BOOLEAN
    BY <1>4 DEF RestoreLine
  <2>3. UNCHANGED <<chosen, births, file, shrunk, unflushed, dumping, restored, touched, unread>>
    BY <1>4, LineCases DEF fileVars
  <2> QED BY <2>1, <2>2, <2>s, <2>3
<1>5. CASE RestoreFails \/ EndRestore
  <2>u. unread' \in BOOLEAN
    <3>1. EndRestore => unread' = (restoring <= file.lines)
      BY DEF EndRestore
    <3>2. (restoring <= file.lines) \in BOOLEAN
      OBVIOUS
    <3>3. RestoreFails => unread' = unread
      BY DEF RestoreFails, mixVars
    <3> QED BY <1>5, <3>1, <3>2, <3>3, Zenon
  <2>1. restoring' \in 0..7 /\ restored' \in {"failed", "done"}
    BY <1>5 DEF RestoreFails, EndRestore
  <2>2. UNCHANGED <<rowVars, fileVars, dumping, touched, partial, straddled>>
    BY <1>5 DEF RestoreFails, EndRestore, mixVars
  <2> QED BY <2>u, <2>1, <2>2 DEF rowVars, fileVars
<1>6. CASE UNCHANGED backupVars
  BY <1>6 DEF backupVars, rowVars, fileVars, mixVars
<1> QED BY <1>1, <1>2, <1>3, <1>4, <1>5, <1>6 DEF BackupNext, Daemon, Dump

LEMMA RowsStep == BackupInv /\ [BackupNext]_backupVars => RowsExist'
<1> SUFFICES ASSUME BackupInv, [BackupNext]_backupVars PROVE RowsExist'
  OBVIOUS
<1>i. /\ BackupTypeOK /\ RowsExist
      /\ exist \in SUBSET Pair /\ child \in [Keys -> Links \cup {NoLink}]
      /\ parent \in [ParentIds -> Nat] /\ autoInc \in 1..(MaxParents + 1)
  BY DEF BackupInv, BackupTypeOK
<1>1. CASE AddParent
  <2>1. UNCHANGED <<exist, child, chosen>> /\ "parent" \in exist
    BY <1>1 DEF AddParent
  <2>2. ASSUME ~chosen, NEW i \in ParentIds, parent'[i] # 0 PROVE i < autoInc'
    BY <1>1, <1>i, <2>2, BackupBounds DEF AddParent, RowsExist, ParentIds
  <2> QED BY <1>i, <2>1, <2>2 DEF RowsExist
<1>2. CASE AddChild
  BY <1>2, <1>i DEF AddChild, RowsExist, Pair
<1>3. CASE RemoveParent
  <2>1. /\ "parent" \in exist /\ exist' = exist /\ autoInc' = autoInc /\ chosen' = chosen
        /\ \A i \in ParentIds : parent'[i] # 0 => parent[i] # 0
    BY <1>3, <1>i DEF RemoveParent
  <2>2. child = NoChildren => child' = NoChildren
    BY <1>3 DEF RemoveParent, NoChildren
  <2> QED BY <1>i, <2>1, <2>2 DEF RowsExist
<1>4. CASE RemoveChild
  BY <1>4, <1>i DEF RemoveChild, RowsExist, NoChildren
<1>5. CASE CreateMissing
  BY <1>5, <1>i DEF CreateMissing, RowsExist, NoParents, Pair
<1>6. CASE Dump \/ BeginRestore \/ RestoreFails \/ EndRestore \/ UNCHANGED backupVars
  <2>1. UNCHANGED <<exist, child, parent, autoInc, chosen>>
    BY <1>6, DumpFrame DEF BeginRestore, RestoreFails, EndRestore, backupVars, rowVars
  <2> QED BY <1>i, <2>1 DEF RowsExist
<1>7. CASE RestoreLine
  <2>c. chosen' = chosen
    BY <1>7 DEF RestoreLine
  <2>1. CASE Skips
    BY <1>i, <2>c, <2>1 DEF Skips, RowsExist
  <2>2. CASE Drops("child") \/ Drops("parent")
    BY <1>i, <2>c, <2>2 DEF Drops, RowsExist, NoParents
  <2>3. CASE Creates("child") \/ Creates("parent")
    BY <1>i, <2>c, <2>3 DEF Creates, RowsExist, NoParents
  <2>4. CASE InsertsChildren
    BY <1>i, <2>c, <2>4 DEF InsertsChildren, RowsExist
  <2>5. CASE InsertsParents
    <3>1. Free \subseteq 1..(MaxParents + 1)
      BY <1>i, BackupBounds DEF Free, ParentIds
    <3>2. autoInc' \in Free /\ \A m \in Free : m <= autoInc'
      BY <2>5 DEF InsertsParents
    <3>3. ASSUME ~chosen, NEW i \in ParentIds, parent'[i] # 0 PROVE i < autoInc'
      <4>1. autoInc \in Free /\ (file.parent[i] # 0 => i + 1 \in Free)
        BY DEF Free
      <4>2. parent[i] # 0 \/ file.parent[i] # 0
        BY <2>5, <3>3 DEF InsertsParents
      <4>3. CASE parent[i] # 0
        <5>1. i < autoInc /\ autoInc <= autoInc'
          BY <1>i, <3>2, <3>3, <4>1, <4>3 DEF RowsExist
        <5> QED BY <5>1, <3>1, <3>2, <1>i, BackupBounds DEF ParentIds
      <4>4. CASE file.parent[i] # 0
        <5>1. i + 1 <= autoInc'
          BY <3>2, <4>1, <4>4
        <5> QED BY <5>1, <3>1, <3>2, BackupBounds DEF ParentIds
      <4> QED BY <4>2, <4>3, <4>4
    <3> QED BY <1>i, <2>c, <2>5, <3>3 DEF InsertsParents, RowsExist
  <2> QED BY <1>i, <1>7, <2>1, <2>2, <2>3, <2>4, <2>5, LineCases
<1> QED BY <1>1, <1>2, <1>3, <1>4, <1>5, <1>6, <1>7 DEF BackupNext, Dump

LEMMA ToolStep == BackupInv /\ [BackupNext]_backupVars => OneTool' /\ Written'
<1> SUFFICES ASSUME BackupInv, [BackupNext]_backupVars PROVE OneTool' /\ Written'
  OBVIOUS
<1>i. /\ BackupTypeOK /\ OneTool /\ Written
      /\ file.lines \in 0..6 /\ restoring \in 0..7
  BY FileTypes DEF BackupInv, BackupTypeOK
<1>1. CASE Daemon
  <2>1. UNCHANGED <<tools, file, unflushed, dumping, restoring, restored>>
    BY <1>1, DaemonFrame
  <2> QED BY <1>i, <2>1 DEF OneTool, Written
<1>2. CASE Dump
  <2>1. restoring = 0 /\ restoring' = 0 /\ restored' = restored
    BY <1>i, <1>2, DumpFrame, DumpCases
       DEF Dump, BeginDump, EndDump, DumpFails, UseTool, OneTool
  <2>2. file'.lines \in 0..6
    BY <1>i, <1>2, FileSteps DEF Dump, Files
  <2>3. OneTool'
    BY <1>i, <2>1, <2>2 DEF OneTool
  <2>4. CASE BeginDump
    BY <1>i, <2>3, <2>4, FileSteps DEF BeginDump, DumpOrder, Written
  <2>5. CASE DumpTable
    <3>1. /\ file'.ok = file.ok /\ unflushed' = unflushed /\ dumping # "idle"
          /\ dumping' = "parent" => file'.lines = 5
          /\ dumping' = "close" => file'.lines = 6
      BY <1>i, <2>5, FileSteps, DumpCases
    <3> QED BY <1>i, <2>3, <3>1 DEF Written
  <2>6. CASE EndDump
    BY <1>i, <2>3, <2>6, FileSteps DEF EndDump, Written
  <2>7. CASE DumpFails
    <3>1. file'.ok = file.ok /\ dumping # "idle" /\ dumping' = "idle"
      BY <1>i, <2>7, FileSteps DEF DumpFails
    <3> QED BY <1>i, <2>3, <3>1 DEF Written
  <2> QED BY <1>2, <2>3, <2>4, <2>5, <2>6, <2>7 DEF Dump
<1>3. CASE BeginRestore
  BY <1>i, <1>3 DEF BeginRestore, UseTool, fileVars, OneTool, Written
<1>4. CASE RestoreLine
  <2>1. /\ restoring \in 1..6 /\ restoring <= file.lines /\ restoring' = restoring + 1
        /\ file' = file /\ unflushed' = unflushed /\ dumping' = dumping /\ restored' = restored
    BY <1>i, <1>4, LineCases DEF fileVars
  <2> QED BY <1>i, <2>1 DEF OneTool, Written
<1>5. CASE RestoreFails \/ EndRestore
  BY <1>i, <1>5 DEF RestoreFails, EndRestore, fileVars, OneTool, Written
<1>6. CASE UNCHANGED backupVars
  BY <1>i, <1>6 DEF backupVars, fileVars, OneTool, Written
<1> QED BY <1>1, <1>2, <1>3, <1>4, <1>5, <1>6 DEF BackupNext, Daemon, Dump

LEMMA BackupInvStep == BackupInv /\ [BackupNext]_backupVars => BackupInv'
BY BackupTypeStep, RowsStep, ToolStep DEF BackupInv

LEMMA NeverUnstraddled ==
  ASSUME [BackupNext]_backupVars, ~straddled'
  PROVE  ~straddled
BY DEF BackupNext, backupVars, AddParent, AddChild, RemoveParent, RemoveChild,
       CreateMissing, BeginDump, DumpTable, EndDump, DumpFails, BeginRestore, RestoreLine,
       RestoreFails, EndRestore

LEMMA NeverChosen == [BackupNext]_backupVars => chosen' = chosen
BY DEF BackupNext, backupVars, rowVars, AddParent, AddChild, RemoveParent, RemoveChild,
       CreateMissing, BeginDump, DumpTable, EndDump, DumpFails, BeginRestore, RestoreLine,
       RestoreFails, EndRestore

(* A new parent takes an id nobody has. *)
LEMMA NewParent ==
  ASSUME BackupTypeOK, RowsExist, AddParent
  PROVE  \E i \in ParentIds : parent[i] = 0 /\ parent' = [parent EXCEPT ![i] = births + 1]
<1>1. PICK i \in ParentIds :
        /\ IF chosen THEN parent[i] = 0 ELSE i = autoInc
        /\ parent' = [parent EXCEPT ![i] = births + 1]
  BY DEF AddParent
<1>2. parent[i] = 0
  BY <1>1, BackupBounds DEF BackupTypeOK, RowsExist, ParentIds
<1> QED BY <1>1, <1>2

-----------------------------------------------------------------------------
(* Dumps.                                                                  *)

LEMMA DumpStep == BackupInv /\ DumpInv /\ [BackupNext]_backupVars => DumpInv'
<1> SUFFICES ASSUME BackupInv, DumpInv, [BackupNext]_backupVars, ~shrunk'
             PROVE  /\ dumping' = "child" => Agree(child', parent')
                    /\ dumping' \in {"schema", "parent"} => Agree(file'.child, parent')
                    /\ dumping' = "close" \/ file'.ok \/ file'.lines = 6 => Agree(file'.child, file'.parent)
  BY DEF DumpInv, Agree
<1>i. /\ BackupTypeOK /\ RowsExist /\ OneTool /\ Written
      /\ child \in [Keys -> Links \cup {NoLink}] /\ parent \in [ParentIds -> Nat]
      /\ file.child \in [Keys -> Links \cup {NoLink}]
      /\ autoInc \in 1..(MaxParents + 1)
  BY FileTypes DEF BackupInv, BackupTypeOK
<1>a. ~BeginDump =>
        /\ ~shrunk
        /\ dumping = "child" => Agree(child, parent)
        /\ dumping \in {"schema", "parent"} => Agree(file.child, parent)
        /\ dumping = "close" \/ file.ok \/ file.lines = 6 => Agree(file.child, file.parent)
  <2>1. ~BeginDump => ~shrunk
    BY DEF BackupNext, backupVars, AddParent, AddChild, RemoveParent, RemoveChild,
           CreateMissing, DumpTable, EndDump, DumpFails, BeginRestore, RestoreLine,
           RestoreFails, EndRestore, fileVars
  <2> QED BY <2>1 DEF DumpInv
<1>1. CASE AddParent
  <2>p. PICK i \in ParentIds : parent[i] = 0 /\ parent' = [parent EXCEPT ![i] = births + 1]
    BY <1>1, <1>i, NewParent
  <2>1. ASSUME NEW c \in [Keys -> Links \cup {NoLink}], Agree(c, parent)
        PROVE  Agree(c, parent')
    <3>1. ASSUME NEW k \in Keys, c[k] # NoLink PROVE parent'[c[k].of] = c[k].born
      <4>1. c[k] \in Links
        BY <3>1
      <4>2. c[k].of \in ParentIds /\ parent[c[k].of] = c[k].born /\ c[k].born # 0
        BY <2>1, <3>1, <4>1, NoLinkIsNone DEF Agree
      <4>3. c[k].of # i
        BY <2>p, <4>2
      <4> QED BY <1>i, <2>p, <4>2, <4>3
    <3> QED BY <3>1 DEF Agree
  <2>2. UNCHANGED <<child, file, dumping>>
    BY <1>1 DEF AddParent, fileVars
  <2>3. ~BeginDump
    BY <2>2 DEF BeginDump, UseTool, DumpOrder
  <2> QED BY <1>a, <1>i, <2>1, <2>2, <2>3
<1>2. CASE AddChild
  <2>1. Agree(child, parent) => Agree(child', parent)
    <3>1. PICK k \in Keys, i \in ParentIds :
            child' = [child EXCEPT ![k] = [of |-> i, born |-> parent[i]]]
      BY <1>2 DEF AddChild
    <3> QED BY <1>i, <3>1 DEF Agree
  <2>2. UNCHANGED <<parent, file, dumping>>
    BY <1>2 DEF AddChild, fileVars
  <2>3. ~BeginDump
    BY <2>2 DEF BeginDump, UseTool, DumpOrder
  <2> QED BY <1>a, <2>1, <2>2, <2>3
<1>3. CASE RemoveParent
  <2>1. dumping = "idle" /\ dumping' = "idle" /\ file' = file
    BY <1>3 DEF RemoveParent
  <2>2. ~BeginDump
    BY <2>1 DEF BeginDump, DumpOrder
  <2> QED BY <1>a, <2>1, <2>2
<1>4. CASE RemoveChild
  <2>1. Agree(child, parent) => Agree(child', parent)
    BY <1>4, <1>i DEF RemoveChild, Agree
  <2>2. UNCHANGED <<parent, file, dumping>>
    BY <1>4 DEF RemoveChild, fileVars
  <2>3. ~BeginDump
    BY <2>2 DEF BeginDump, UseTool, DumpOrder
  <2> QED BY <1>a, <2>1, <2>2, <2>3
<1>5. CASE CreateMissing
  <2>1. UNCHANGED <<child, parent, file, dumping>>
    BY <1>5 DEF CreateMissing, fileVars
  <2>2. ~BeginDump
    BY <2>1 DEF BeginDump, UseTool, DumpOrder
  <2> QED BY <1>a, <2>1, <2>2
<1>6. CASE BeginDump
  <2>1. Agree(child, parent)
    BY <1>6 DEF BeginDump
  <2>2. UNCHANGED <<child, parent>> /\ dumping' = "child" /\ file'.ok = FALSE
        /\ file'.lines = 0
    BY <1>6, <1>i, FileSteps DEF BeginDump, DumpOrder, rowVars
  <2> QED BY <2>1, <2>2
<1>7. CASE DumpTable
  <2>1. ~BeginDump /\ dumping # "idle" /\ ~file.ok /\ file'.ok = file.ok
    BY <1>7, <1>i, DumpCases, FileSteps DEF BeginDump, UseTool, Written
  <2>2. UNCHANGED <<child, parent>>
    BY <1>7, DumpFrame DEF Dump
  <2>3. CASE dumping = "child" /\ dumping' = "schema"
    BY <1>7, <1>a, <1>i, <2>1, <2>2, <2>3, FileSteps
  <2>4. CASE dumping = "schema" /\ dumping' = "parent"
    BY <1>7, <1>a, <1>i, <2>1, <2>2, <2>4, FileSteps
  <2>5. CASE dumping = "parent" /\ dumping' = "close"
    BY <1>7, <1>a, <1>i, <2>1, <2>2, <2>5, FileSteps
  <2> QED BY <1>7, <1>i, <2>3, <2>4, <2>5, DumpCases
<1>8. CASE EndDump \/ DumpFails
  <2>1. /\ ~BeginDump /\ dumping' = "idle"
        /\ file'.child = file.child /\ file'.parent = file.parent
    BY <1>8, <1>i, FileSteps DEF EndDump, DumpFails, BeginDump, UseTool
  <2>2. EndDump => dumping = "close"
    BY DEF EndDump
  <2>3. DumpFails => ~file'.ok /\ (file'.lines = 6 => file.lines = 6)
    <3>1. DumpFails => /\ ~file'.ok /\ file'.lines <= file.lines
                       /\ file.lines \in 0..6 /\ file'.lines \in 0..6
      BY <1>i, FileSteps, FileTypes DEF DumpFails, Written, Files
    <3> QED BY <3>1
  <2> QED BY <1>8, <1>a, <2>1, <2>2, <2>3
<1>9. CASE RestoreLine
  <2>1. dumping = "idle" /\ UNCHANGED <<file, dumping>>
    BY <1>9, <1>i, LineCases DEF OneTool, fileVars
  <2>2. ~BeginDump
    BY <2>1 DEF BeginDump, DumpOrder
  <2> QED BY <1>a, <2>1, <2>2
<1>10. CASE BeginRestore \/ RestoreFails \/ EndRestore \/ UNCHANGED backupVars
  <2>1. UNCHANGED <<child, parent, file, dumping>>
    BY <1>10 DEF BeginRestore, RestoreFails, EndRestore, backupVars, rowVars, fileVars
  <2>2. ~BeginDump
    BY <2>1 DEF BeginDump, UseTool, DumpOrder
  <2> QED BY <1>a, <2>1, <2>2
<1> QED BY <1>1, <1>2, <1>3, <1>4, <1>5, <1>6, <1>7, <1>8, <1>9, <1>10 DEF BackupNext

(* However many rows there are and whatever the daemon writes meanwhile, a *)
(* dump of tables that agreed, during which no parent was deleted, holds   *)
(* the parent of every child in it.                                        *)
THEOREM DumpClosedAlways == BackupSpec => []DumpClosed
<1>1. BackupInit => BackupInv /\ DumpInv
  BY BackupInitInv
<1>2. BackupInv /\ DumpInv /\ [BackupNext]_backupVars => BackupInv' /\ DumpInv'
  BY BackupInvStep, DumpStep
<1>3. DumpInv => DumpClosed
  BY DEF DumpInv, DumpClosed
<1> QED BY <1>1, <1>2, <1>3, PTL DEF BackupSpec

-----------------------------------------------------------------------------
(* Restores that are alone.                                                *)

LEMMA RestoreStep == BackupInv /\ RestoreInv /\ [BackupNext]_backupVars => RestoreInv'
<1> SUFFICES ASSUME BackupInv, RestoreInv, [BackupNext]_backupVars, ~touched', restoring' # 0
             PROVE  RestoreInv'
  BY DEF RestoreInv
<1>i. /\ BackupTypeOK /\ OneTool /\ RowsExist
      /\ child \in [Keys -> Links \cup {NoLink}] /\ parent \in [ParentIds -> Nat]
      /\ file.child \in [Keys -> Links \cup {NoLink}]
      /\ file.parent \in [ParentIds -> Nat]
  BY FileTypes DEF BackupInv, BackupTypeOK
<1>1. CASE Daemon
  BY <1>1, DaemonFrame
<1>2. CASE Dump
  BY <1>i, <1>2, DumpFrame, DumpCases DEF Dump, BeginDump, EndDump, DumpFails, UseTool, OneTool
<1>3. CASE BeginRestore
  BY <1>3 DEF BeginRestore, RestoreInv
<1>4. CASE RestoreLine
  <2>1. /\ restoring \in 1..6 /\ restoring' = restoring + 1
        /\ file' = file /\ touched' = touched
    BY <1>i, <1>4, LineCases DEF fileVars
  <2>2. /\ "child" \in file.tables =>
             /\ restoring \in 2..3 => child = NoChildren
             /\ restoring > 3 => child = file.child
        /\ "parent" \in file.tables => (restoring \in 5..6 => parent = NoParents)
    BY <2>1 DEF RestoreInv
  <2>3. CASE Skips
    BY <2>1, <2>2, <2>3 DEF Skips, RestoreInv
  <2>4. CASE restoring = 1 /\ Drops("child")
    BY <2>1, <2>4 DEF Drops, RestoreInv
  <2>5. CASE restoring = 2 /\ Creates("child")
    BY <2>1, <2>2, <2>5 DEF Creates, RestoreInv
  <2>6. CASE restoring = 3 /\ "child" \in file.tables /\ InsertsChildren
    <3>1. child = NoChildren
      BY <2>2, <2>6
    <3>2. child' = file.child
      BY <1>i, <2>6, <3>1 DEF InsertsChildren, NoChildren
    <3> QED BY <2>1, <2>6, <3>2 DEF RestoreInv
  <2>7. CASE restoring = 4 /\ Drops("parent")
    BY <2>1, <2>2, <2>7 DEF Drops, RestoreInv
  <2>8. CASE restoring = 5 /\ Creates("parent")
    BY <2>1, <2>2, <2>8 DEF Creates, RestoreInv
  <2>9. CASE restoring = 6 /\ "parent" \in file.tables /\ InsertsParents
    <3>1. parent = NoParents
      BY <2>2, <2>9
    <3>2. parent' = file.parent
      BY <1>i, <2>9, <3>1 DEF InsertsParents, NoParents
    <3> QED BY <2>1, <2>2, <2>9, <3>2 DEF InsertsParents, RestoreInv
  <2> QED BY <1>i, <1>4, <2>3, <2>4, <2>5, <2>6, <2>7, <2>8, <2>9, LineCases
<1>5. CASE RestoreFails \/ EndRestore
  BY <1>5 DEF RestoreFails, EndRestore
<1>6. CASE UNCHANGED backupVars
  BY <1>6 DEF backupVars, rowVars, fileVars, RestoreInv
<1> QED BY <1>1, <1>2, <1>3, <1>4, <1>5, <1>6 DEF BackupNext, Daemon, Dump

Exact ==
  (restored' = "done" /\ restored = "running" /\ file.ok /\ ~unflushed /\ ~touched /\ ~unread')
    => /\ "child" \in file.tables => child' = file.child
       /\ "parent" \in file.tables => parent' = file.parent

(* A restore that reports success has put back exactly what the backup     *)
(* held, of any number of rows, unless the daemon wrote meanwhile, the end *)
(* of the file was lost unnoticed, or reading it failed.                   *)
THEOREM RestoreExactAlways == BackupSpec => RestoreExact
<1>1. BackupInit => BackupInv /\ RestoreInv
  BY BackupInitInv
<1>2. BackupInv /\ RestoreInv /\ [BackupNext]_backupVars => BackupInv' /\ RestoreInv'
  BY BackupInvStep, RestoreStep
<1>3. BackupInv /\ RestoreInv /\ [BackupNext]_backupVars => [Exact]_backupVars
  <2> SUFFICES ASSUME BackupInv, RestoreInv, [BackupNext]_backupVars, restored' = "done",
                      restored = "running", file.ok, ~unflushed, ~touched, ~unread'
               PROVE  /\ "child" \in file.tables => child' = file.child
                      /\ "parent" \in file.tables => parent' = file.parent
    BY DEF Exact
  <2>1. EndRestore
    BY DaemonFrame, DumpFrame, LineCases
       DEF BackupInv, BackupNext, Daemon, Dump, BeginRestore, RestoreFails, RestoreLine, backupVars
  <2>2. restoring = 7 /\ UNCHANGED <<child, parent>>
    <3>1. file.lines = 6
      BY DEF BackupInv, Written
    <3>2. unread' = (restoring <= file.lines) /\ restoring \in 1..(file.lines + 1)
      BY <2>1 DEF EndRestore
    <3>3. ~(restoring <= file.lines)
      BY <3>2, Zenon
    <3>4. restoring = 7
      BY <3>1, <3>2, <3>3
    <3> QED BY <2>1, <3>4 DEF EndRestore, rowVars
  <2> QED BY <2>2 DEF RestoreInv
<1>4. RestoreExact <=> [][Exact]_backupVars
  BY PTL DEF RestoreExact, Exact
<1> QED BY <1>1, <1>2, <1>3, <1>4, PTL DEF BackupSpec

-----------------------------------------------------------------------------
(* Links.                                                                  *)

(* The links of c stay safe if the rows they lead to stay or go, and the   *)
(* counter does not go back.                                               *)
LEMMA SafeStays ==
  ASSUME BackupTypeOK, BackupTypeOK', NEW c \in [Keys -> Links \cup {NoLink}], Safe(c),
         \A k \in Keys : c[k] # NoLink =>
           /\ parent'[c[k].of] \in {0, parent[c[k].of]}
           /\ autoInc <= autoInc'
  PROVE  \A k \in Keys : c[k] # NoLink =>
           parent'[c[k].of] \in {0, c[k].born} /\ c[k].of < autoInc'
<1> SUFFICES ASSUME NEW k \in Keys, c[k] # NoLink
             PROVE  parent'[c[k].of] \in {0, c[k].born} /\ c[k].of < autoInc'
  OBVIOUS
<1>1. /\ parent[c[k].of] \in {0, c[k].born} /\ c[k].of < autoInc
      /\ parent'[c[k].of] \in {0, parent[c[k].of]} /\ autoInc <= autoInc'
  BY DEF Safe
<1>2. c[k].of \in Nat /\ autoInc \in Nat /\ autoInc' \in Nat
  <2>1. c[k] \in Links
    OBVIOUS
  <2> QED BY <2>1, NoLinkIsNone, BackupBounds DEF BackupTypeOK, ParentIds
<1> QED BY <1>1, <1>2

LEMMA MidStep == BackupInv /\ MidInv /\ [BackupNext]_backupVars => MidInv'
<1> SUFFICES ASSUME BackupInv, MidInv, [BackupNext]_backupVars, ~straddled'
             PROVE  MidRestore'
  BY DEF MidInv
<1>i. /\ BackupTypeOK /\ BackupTypeOK' /\ RowsExist /\ OneTool
      /\ exist \in SUBSET Pair
      /\ child \in [Keys -> Links \cup {NoLink}] /\ parent \in [ParentIds -> Nat]
      /\ file.child \in [Keys -> Links \cup {NoLink}]
      /\ restoring \in 0..7 /\ file.tables \in SUBSET Pair
  BY FileTypes, BackupTypeStep DEF BackupInv, BackupTypeOK
<1>s. ~straddled
  BY NeverUnstraddled
<1>a. MidRestore
  BY <1>s DEF MidInv
<1>l. \A c \in [Keys -> Links \cup {NoLink}], k \in Keys :
        c[k] # NoLink => c[k] \in Links /\ c[k].of \in ParentIds /\ c[k].born # 0
  BY NoLinkIsNone
<1>1. CASE AddParent
  <2>1. UNCHANGED <<exist, child, file, restoring, partial>>
    BY <1>1 DEF AddParent, fileVars, mixVars
  <2>2. PICK i \in ParentIds : parent[i] = 0 /\ parent' = [parent EXCEPT ![i] = births + 1]
    BY <1>1, <1>i, NewParent
  <2>3. ASSUME NEW k \in Keys, child[k] # NoLink, parent[child[k].of] = child[k].born
        PROVE  parent'[child[k].of] = child[k].born
    BY <1>i, <1>l, <2>2, <2>3
  <2> QED BY <1>a, <2>1, <2>3 DEF MidRestore
<1>2. CASE AddChild
  <2>1. /\ UNCHANGED <<exist, parent, file, restoring, partial>> /\ exist = Pair
        /\ restoring \notin {3, 4}
    BY <1>2, <1>s DEF AddChild, fileVars, mixVars
  <2>2. PICK k \in Keys, i \in ParentIds : child' = [child EXCEPT ![k] = [of |-> i, born |-> parent[i]]]
    BY <1>2 DEF AddChild
  <2>3. file.tables = Pair => restoring # 5
    BY <1>a, <2>1 DEF MidRestore, Pair
  <2> QED BY <1>a, <1>i, <2>1, <2>2, <2>3 DEF MidRestore
<1>3. CASE RemoveParent
  <2>1. UNCHANGED <<exist, file, restoring, partial>>
    BY <1>3 DEF RemoveParent, mixVars
  <2>2. PICK i \in ParentIds :
          /\ parent' = [parent EXCEPT ![i] = 0]
          /\ child' = [k \in Keys |-> IF child[k].of = i THEN NoLink ELSE child[k]]
    BY <1>3 DEF RemoveParent
  <2>3. \A k \in Keys : child'[k] = NoLink \/ (child'[k] = child[k] /\ child[k].of # i)
    BY <2>2
  <2>4. child = NoChildren => child' = NoChildren
    BY <2>2 DEF NoChildren
  <2>5. \A k \in Keys : child'[k] # NoLink => parent'[child'[k].of] = parent[child[k].of]
    BY <1>i, <1>l, <2>2, <2>3
  <2> QED BY <1>a, <2>1, <2>3, <2>4, <2>5 DEF MidRestore
<1>4. CASE RemoveChild
  <2>1. UNCHANGED <<exist, parent, file, restoring, partial>>
    BY <1>4 DEF RemoveChild, fileVars, mixVars
  <2>2. PICK k \in Keys : child' = [child EXCEPT ![k] = NoLink]
    BY <1>4 DEF RemoveChild
  <2>3. child = NoChildren => child' = NoChildren
    BY <2>2 DEF NoChildren
  <2> QED BY <1>a, <1>i, <2>1, <2>2, <2>3 DEF MidRestore
<1>5. CASE CreateMissing
  <2>1. UNCHANGED <<child, parent, file, restoring, partial>> /\ "parent" \in exist
    BY <1>5 DEF CreateMissing, fileVars, mixVars
  <2> QED BY <1>a, <2>1 DEF MidRestore
<1>6. CASE Dump
  <2>1. restoring' = 0
    BY <1>i, <1>6, DumpFrame, DumpCases
       DEF Dump, BeginDump, EndDump, DumpFails, UseTool, OneTool
  <2> QED BY <2>1 DEF MidRestore
<1>7. CASE BeginRestore \/ RestoreFails \/ EndRestore
  <2>1. restoring' \in {0, 1}
    BY <1>7 DEF BeginRestore, RestoreFails, EndRestore
  <2> QED BY <2>1 DEF MidRestore
<1>8. CASE UNCHANGED backupVars
  BY <1>a, <1>8 DEF backupVars, rowVars, fileVars, mixVars, MidRestore
<1>9. CASE RestoreLine
  <2>1. /\ restoring \in 1..6 /\ restoring' = restoring + 1
        /\ file' = file /\ ~(restoring = 5 /\ file.tables = {"parent"})
        /\ restoring = 3 /\ "child" \in file.tables => partial'
        /\ restoring # 6 /\ partial => partial'
    BY <1>i, <1>9, LineCases DEF fileVars
  <2>m. restoring' = 6 => file'.tables # {"parent"}
    BY <2>1
  <2>p. restoring' \in 4..6 /\ "child" \in file'.tables => partial'
    BY <1>a, <2>1 DEF MidRestore
  <2>2. CASE Skips
    <3>1. file.tables # Pair
      BY <2>1, <2>2 DEF Skips, Pair
    <3> QED BY <2>1, <2>m, <2>p, <3>1 DEF MidRestore
  <2>3. CASE restoring = 1
    <3>1. restoring' = 2
      BY <2>1, <2>3
    <3> QED BY <3>1 DEF MidRestore
  <2>4. CASE restoring = 2 /\ Creates("child")
    <3>1. child' = NoChildren
      BY <1>i, <2>4 DEF Creates, RowsExist
    <3>2. restoring' = 3
      BY <2>1, <2>4
    <3> QED BY <3>1, <3>2 DEF MidRestore
  <2>5. CASE restoring = 3 /\ InsertsChildren
    <3>1. \A k \in Keys : child'[k] \in {child[k], file.child[k]}
      BY <2>5 DEF InsertsChildren
    <3>2. restoring' = 4 /\ (file.tables = Pair => child = NoChildren)
      BY <1>a, <2>1, <2>5 DEF MidRestore
    <3>3. \A k \in Keys : NoChildren[k] = NoLink
      BY DEF NoChildren
    <3> QED BY <2>1, <2>p, <3>1, <3>2, <3>3 DEF MidRestore
  <2>6. CASE restoring = 4 /\ Drops("parent")
    <3>1. child' = child /\ "parent" \notin exist' /\ restoring' = 5
      BY <2>1, <2>6 DEF Drops
    <3> QED BY <1>a, <2>1, <2>6, <2>p, <3>1 DEF MidRestore
  <2>7. CASE restoring = 5 /\ Creates("parent")
    <3>1. child' = child /\ restoring' = 6
      BY <2>1, <2>7 DEF Creates
    <3> QED BY <1>a, <2>1, <2>7, <2>m, <2>p, <3>1 DEF MidRestore
  <2>8. CASE restoring = 6
    <3>1. restoring' = 7
      BY <2>1, <2>8
    <3> QED BY <3>1 DEF MidRestore
  <2> QED BY <1>i, <1>9, <2>2, <2>3, <2>4, <2>5, <2>6, <2>7, <2>8, LineCases
<1> QED BY <1>1, <1>2, <1>3, <1>4, <1>5, <1>6, <1>7, <1>8, <1>9 DEF BackupNext, Dump

LEMMA LinkStep == BackupInv /\ MidInv /\ LinkInv /\ [BackupNext]_backupVars => LinkInv'
<1> SUFFICES ASSUME BackupInv, MidInv, LinkInv, [BackupNext]_backupVars, ~straddled', ~chosen'
             PROVE  Safe(child)' /\ FileLinks'
  BY DEF LinkInv
<1>i. /\ BackupTypeOK /\ BackupTypeOK' /\ RowsExist /\ OneTool /\ Written
      /\ exist \in SUBSET Pair
      /\ child \in [Keys -> Links \cup {NoLink}] /\ parent \in [ParentIds -> Nat]
      /\ autoInc \in 1..(MaxParents + 1)
      /\ file.child \in [Keys -> Links \cup {NoLink}]
      /\ file.parent \in [ParentIds -> Nat] /\ file.lines \in 0..6
      /\ restoring \in 0..7 /\ file.tables \in SUBSET Pair
  BY FileTypes, BackupTypeStep DEF BackupInv, BackupTypeOK
<1>s. ~straddled /\ ~chosen
  BY NeverUnstraddled, NeverChosen
<1>a. Safe(child) /\ FileLinks /\ MidRestore
  BY <1>s DEF LinkInv, MidInv
<1>l. \A c \in [Keys -> Links \cup {NoLink}], k \in Keys :
        c[k] # NoLink => c[k] \in Links /\ c[k].of \in ParentIds /\ c[k].born # 0
  BY NoLinkIsNone
<1>n. \A i \in ParentIds : i \in Nat
  BY BackupBounds DEF ParentIds
(* The file, if it and the rows its links lead to do not change. *)
<1>f. ASSUME file' = file, Safe(file.child)'
      PROVE  FileLinks'
  BY <1>a, <1>f DEF FileLinks, Safe
<1>1. CASE AddParent
  <2>1. /\ UNCHANGED <<child, file>> /\ autoInc' = autoInc + 1
        /\ parent' = [parent EXCEPT ![autoInc] = births + 1]
    BY <1>1, <1>s DEF AddParent, fileVars
  <2>2. ASSUME NEW c \in [Keys -> Links \cup {NoLink}], Safe(c), NEW k \in Keys, c[k] # NoLink
        PROVE  /\ parent'[c[k].of] = parent[c[k].of] /\ autoInc <= autoInc'
    <3>1. c[k].of < autoInc /\ c[k].of \in ParentIds
      BY <2>2, <1>l DEF Safe
    <3>2. c[k].of # autoInc
      BY <3>1, <1>n, <1>i, BackupBounds
    <3> QED BY <2>1, <3>1, <3>2, <1>i
  <2>3. Safe(child)' /\ Safe(file.child)'
    <3>1. \A c \in {child, file.child} : \A k \in Keys : c[k] # NoLink =>
            parent'[c[k].of] \in {0, c[k].born} /\ c[k].of < autoInc'
      BY <1>a, <1>i, <2>2, SafeStays DEF FileLinks
    <3> QED BY <2>1, <3>1 DEF Safe
  <2> QED BY <1>f, <2>1, <2>3
<1>2. CASE AddChild
  <2>1. /\ UNCHANGED <<exist, parent, autoInc, file, restoring>> /\ exist = Pair
        /\ restoring \notin {3, 4}
    BY <1>2, <1>s DEF AddChild, fileVars
  <2>2. PICK k \in Keys, i \in ParentIds :
          /\ parent[i] # 0
          /\ child' = [child EXCEPT ![k] = [of |-> i, born |-> parent[i]]]
    BY <1>2 DEF AddChild
  <2>3. i < autoInc
    BY <1>i, <1>s, <2>2 DEF RowsExist
  <2>4. Safe(child)'
    BY <1>a, <1>i, <2>1, <2>2, <2>3 DEF Safe
  <2>5. Safe(file.child)'
    BY <1>a, <2>1 DEF Safe, FileLinks
  <2> QED BY <1>f, <2>1, <2>4, <2>5
<1>3. CASE RemoveParent
  <2>1. UNCHANGED <<exist, autoInc, file, restoring>> /\ "parent" \in exist
    BY <1>3 DEF RemoveParent
  <2>2. PICK i \in ParentIds :
          /\ parent' = [parent EXCEPT ![i] = 0]
          /\ child' = [k \in Keys |-> IF child[k].of = i THEN NoLink ELSE child[k]]
    BY <1>3 DEF RemoveParent
  <2>3. Safe(child)' /\ Safe(file.child)'
    <3>1. \A c \in {child, file.child} : \A k \in Keys : c[k] # NoLink =>
            parent'[c[k].of] \in {0, c[k].born} /\ c[k].of < autoInc'
      BY <1>a, <1>i, <1>l, <2>1, <2>2 DEF Safe, FileLinks
    <3>2. \A k \in Keys : child'[k] # NoLink => child'[k] = child[k]
      BY <2>2
    <3> QED BY <2>1, <3>1, <3>2 DEF Safe
  <2> QED BY <1>f, <2>1, <2>3
<1>4. CASE RemoveChild
  <2>1. UNCHANGED <<exist, parent, autoInc, file, restoring>>
    BY <1>4 DEF RemoveChild, fileVars
  <2>2. PICK k \in Keys : child' = [child EXCEPT ![k] = NoLink]
    BY <1>4 DEF RemoveChild
  <2>3. Safe(child)' /\ Safe(file.child)'
    BY <1>a, <1>i, <2>1, <2>2 DEF Safe, FileLinks
  <2> QED BY <1>f, <2>1, <2>3
<1>5. CASE CreateMissing
  <2>1. UNCHANGED <<child, parent, autoInc, file, restoring>> /\ "parent" \in exist
    BY <1>5 DEF CreateMissing, fileVars
  <2>2. Safe(child)' /\ Safe(file.child)'
    BY <1>a, <2>1 DEF Safe, FileLinks
  <2> QED BY <1>f, <2>1, <2>2
<1>6. CASE Dump
  <2>1. UNCHANGED <<exist, child, parent, autoInc>> /\ restoring' = 0
    BY <1>i, <1>6, DumpFrame, DumpCases
       DEF Dump, BeginDump, EndDump, DumpFails, UseTool, OneTool
  <2>2. Safe(child)'
    BY <1>a, <2>1 DEF Safe
  <2>3. CASE BeginDump
    <3>1. file'.child = NoChildren /\ \A k \in Keys : NoChildren[k] = NoLink
      BY <1>i, <2>3, FileSteps DEF NoChildren
    <3> QED BY <2>2, <3>1 DEF FileLinks, Safe
  <2>4. CASE DumpTable /\ dumping = "child"
    <3>1. file'.child = child /\ file'.lines = 3
      BY <1>i, <2>4, FileSteps
    <3> QED BY <1>a, <2>1, <2>2, <3>1 DEF FileLinks, Safe
  <2>5. CASE DumpTable /\ dumping = "schema"
    <3>1. file'.child = file.child /\ file'.lines = 5 /\ file'.inc = autoInc
      BY <1>i, <2>5, FileSteps
    <3> QED BY <1>a, <2>1, <2>2, <3>1 DEF FileLinks, Safe
  <2>6. CASE DumpTable /\ dumping = "parent"
    <3>1. /\ file'.child = file.child /\ file'.lines = 6 /\ file'.inc = file.inc
          /\ file'.parent = parent /\ file.lines > 4
      BY <1>i, <2>6, FileSteps DEF Written
    <3> QED BY <1>a, <2>1, <2>2, <3>1 DEF FileLinks, Safe
  <2>7. CASE EndDump \/ DumpFails
    <3>1. /\ file'.child = file.child /\ file'.inc = file.inc /\ file'.parent = file.parent
          /\ file'.lines \in 0..6
      BY <1>i, <2>7, FileSteps DEF Files
    <3>2. file'.lines <= file.lines
      <4>1. EndDump => file.lines = 6
        BY <1>i DEF EndDump, Written
      <4> QED BY <1>i, <2>7, <3>1, <4>1, FileSteps
    <3>3. (file'.lines > 4 => file.lines > 4) /\ (file'.lines > 5 => file.lines > 5)
      BY <1>i, <3>1, <3>2
    <3> QED BY <1>a, <2>1, <2>2, <3>1, <3>3 DEF FileLinks, Safe
  <2> QED BY <1>6, <1>i, <2>3, <2>4, <2>5, <2>6, <2>7, DumpCases DEF Dump
<1>7. CASE BeginRestore \/ RestoreFails \/ EndRestore \/ UNCHANGED backupVars
  <2>1. UNCHANGED <<child, parent, autoInc, file>>
    BY <1>7 DEF BeginRestore, RestoreFails, EndRestore, backupVars, rowVars, fileVars
  <2> QED BY <1>a, <2>1 DEF Safe, FileLinks
<1>8. CASE RestoreLine
  <2>1. /\ restoring \in 1..6 /\ restoring <= file.lines /\ restoring' = restoring + 1
        /\ file' = file /\ ~(restoring = 5 /\ file.tables = {"parent"})
    BY <1>i, <1>8, LineCases DEF fileVars
  <2>2. CASE Skips
    <3>1. Safe(child)' /\ Safe(file.child)'
      BY <1>a, <2>1, <2>2 DEF Skips, Safe, FileLinks
    <3> QED BY <1>f, <2>1, <3>1
  <2>3. CASE restoring = 1 /\ Drops("child")
    <3>1. child' = NoChildren /\ UNCHANGED <<parent, autoInc>>
      BY <2>3 DEF Drops
    <3>2. Safe(child)' /\ Safe(file.child)'
      BY <1>a, <2>1, <3>1 DEF Safe, FileLinks, NoChildren
    <3> QED BY <1>f, <2>1, <3>2
  <2>4. CASE restoring = 2 /\ Creates("child")
    <3>1. child' = NoChildren /\ child = NoChildren /\ UNCHANGED <<parent, autoInc>>
      BY <1>i, <2>4 DEF Creates, RowsExist
    <3>2. Safe(child)' /\ Safe(file.child)'
      BY <1>a, <2>1, <3>1 DEF Safe, FileLinks, NoChildren
    <3> QED BY <1>f, <2>1, <3>2
  <2>5. CASE restoring = 3 /\ InsertsChildren
    <3>1. /\ \A k \in Keys : child'[k] \in {child[k], file.child[k]}
          /\ UNCHANGED <<parent, autoInc>>
      BY <2>5 DEF InsertsChildren
    <3>2. Safe(child)' /\ Safe(file.child)'
      BY <1>a, <2>1, <3>1 DEF Safe, FileLinks
    <3> QED BY <1>f, <2>1, <3>2
  <2>6. CASE restoring = 4 /\ Drops("parent")
    <3>1. /\ child' = child /\ autoInc' = autoInc
          /\ \A i \in ParentIds : parent'[i] = 0
      BY <2>6 DEF Drops, NoParents
    <3>2. Safe(child)' /\ Safe(file.child)'
      BY <1>a, <1>i, <1>l, <2>1, <3>1 DEF Safe, FileLinks
    <3> QED BY <1>f, <2>1, <3>2
  <2>7. CASE restoring = 5 /\ "parent" \in file.tables /\ Creates("parent")
    <3>1. /\ child' = child /\ autoInc' = file.inc /\ parent' = parent
          /\ \A i \in ParentIds : parent[i] = 0
      BY <1>i, <2>7 DEF Creates, Counter, RowsExist, NoParents
    <3>2. file.tables = Pair
      BY <1>i, <2>1, <2>7 DEF Pair
    <3>3. \A k \in Keys : child[k] \in {NoLink, file.child[k]}
      BY <1>a, <2>7, <3>2 DEF MidRestore
    <3>4. file.lines > 4
      BY <1>i, <2>1, <2>7
    <3>5. Safe(child)' /\ Safe(file.child)'
      BY <1>a, <1>i, <1>l, <2>1, <3>1, <3>3, <3>4 DEF Safe, FileLinks
    <3> QED BY <1>f, <2>1, <3>5
  <2>8. CASE restoring = 6 /\ "parent" \in file.tables /\ InsertsParents
    <3>1. /\ child' = child
          /\ \A i \in ParentIds : file.parent[i] = 0 \/ parent[i] = 0
          /\ \A i \in ParentIds :
               parent'[i] = IF file.parent[i] = 0 THEN parent[i] ELSE file.parent[i]
      BY <2>8 DEF InsertsParents
    <3>2. autoInc <= autoInc'
      BY <2>8 DEF InsertsParents, Free
    <3>3. file.lines > 5
      BY <1>i, <2>1, <2>8
    <3>n. autoInc \in Nat /\ autoInc' \in Nat
      BY <1>i, BackupBounds DEF BackupTypeOK
    <3>4. Safe(file.child)'
      <4>1. ASSUME NEW k \in Keys, file.child[k] # NoLink
            PROVE  /\ parent'[file.child[k].of] \in {0, file.child[k].born}
                   /\ file.child[k].of < autoInc'
        <5>1. /\ file.parent[file.child[k].of] \in {0, file.child[k].born}
              /\ parent[file.child[k].of] \in {0, file.child[k].born}
              /\ file.child[k].of < autoInc /\ file.child[k].of \in ParentIds
          BY <1>a, <1>i, <1>l, <3>3, <4>1 DEF FileLinks, Safe
        <5>2. parent'[file.child[k].of] \in {0, file.child[k].born}
          BY <3>1, <5>1
        <5> QED BY <1>n, <3>2, <3>n, <5>1, <5>2
      <4> QED BY <2>1, <4>1 DEF Safe
    <3>5. Safe(child)'
      <4>1. ASSUME NEW k \in Keys, child[k] # NoLink
            PROVE  parent'[child[k].of] \in {0, child[k].born} /\ child[k].of < autoInc'
        <5>1. /\ parent[child[k].of] \in {0, child[k].born}
              /\ child[k].of < autoInc /\ child[k].of \in ParentIds /\ child[k].born # 0
          BY <1>a, <1>i, <1>l, <4>1 DEF Safe
        <5>2. child[k].of < autoInc'
          BY <1>n, <3>2, <3>n, <5>1
        <5>3. CASE child[k] = file.child[k]
          BY <4>1, <5>2, <5>3, <3>4, <2>1 DEF Safe
        <5>4. CASE parent[child[k].of] = child[k].born
          BY <3>1, <5>1, <5>2, <5>4
        <5>5. CASE file.tables # Pair
          <6>1. file.tables = {"parent"}
            BY <1>i, <2>8, <5>5 DEF Pair
          <6> QED BY <1>a, <2>8, <6>1 DEF MidRestore
        <5> QED BY <1>a, <2>8, <4>1, <5>3, <5>4, <5>5 DEF MidRestore
      <4> QED BY <3>1, <4>1 DEF Safe
    <3> QED BY <1>f, <2>1, <3>4, <3>5
  <2> QED BY <1>i, <1>8, <2>2, <2>3, <2>4, <2>5, <2>6, <2>7, <2>8, LineCases
<1> QED BY <1>1, <1>2, <1>3, <1>4, <1>5, <1>6, <1>7, <1>8 DEF BackupNext, Dump

(* Chosen ids: children and parents agree until a restore has put back     *)
(* other children, and again when it has put back their parents.           *)
LEMMA PairStep ==
  BackupInv /\ DumpInv /\ MidInv /\ PairInv /\ [BackupNext]_backupVars => PairInv'
<1> SUFFICES ASSUME BackupInv, DumpInv, MidInv, PairInv, [BackupNext]_backupVars,
                    ~straddled', chosen', ~partial', "parent" \in exist'
             PROVE  Agree(child', parent')
  BY DEF PairInv, Paired, Agree
<1>i. /\ BackupTypeOK /\ RowsExist /\ OneTool
      /\ child \in [Keys -> Links \cup {NoLink}] /\ parent \in [ParentIds -> Nat]
      /\ file.child \in [Keys -> Links \cup {NoLink}]
      /\ file.parent \in [ParentIds -> Nat] /\ file.lines \in 0..6
      /\ file.tables \in SUBSET Pair
  BY FileTypes DEF BackupInv, BackupTypeOK
<1>s. ~straddled /\ chosen
  BY NeverUnstraddled, NeverChosen
<1>a. MidRestore /\ (~partial /\ "parent" \in exist => Agree(child, parent))
  BY <1>s DEF MidInv, PairInv, Paired
<1>l. \A c \in [Keys -> Links \cup {NoLink}], k \in Keys :
        c[k] # NoLink => c[k] \in Links /\ c[k].of \in ParentIds /\ c[k].born # 0
  BY NoLinkIsNone
<1>1. CASE AddParent
  <2>1. UNCHANGED <<exist, child, partial>>
    BY <1>1 DEF AddParent, mixVars
  <2>2. PICK i \in ParentIds : parent[i] = 0 /\ parent' = [parent EXCEPT ![i] = births + 1]
    BY <1>1, <1>i, NewParent
  <2>3. ASSUME NEW k \in Keys, child[k] # NoLink PROVE parent'[child[k].of] = child[k].born
    <3>1. parent[child[k].of] = child[k].born
      BY <1>a, <2>1, <2>3 DEF Agree
    <3> QED BY <1>i, <1>l, <2>2, <2>3, <3>1
  <2> QED BY <2>1, <2>3 DEF Agree
<1>2. CASE AddChild
  <2>1. UNCHANGED <<exist, parent, partial>>
    BY <1>2 DEF AddChild, mixVars
  <2>2. PICK k \in Keys, i \in ParentIds : child' = [child EXCEPT ![k] = [of |-> i, born |-> parent[i]]]
    BY <1>2 DEF AddChild
  <2> QED BY <1>a, <1>i, <2>1, <2>2 DEF Agree
<1>3. CASE RemoveParent
  <2>1. UNCHANGED <<exist, partial>>
    BY <1>3 DEF RemoveParent, mixVars
  <2>2. PICK i \in ParentIds :
          /\ parent' = [parent EXCEPT ![i] = 0]
          /\ child' = [k \in Keys |-> IF child[k].of = i THEN NoLink ELSE child[k]]
    BY <1>3 DEF RemoveParent
  <2>3. ASSUME NEW k \in Keys, child'[k] # NoLink PROVE parent'[child'[k].of] = child'[k].born
    <3>1. child'[k] = child[k] /\ child[k].of # i /\ child[k] # NoLink
      BY <2>2, <2>3
    <3>2. parent[child[k].of] = child[k].born
      BY <1>a, <2>1, <3>1 DEF Agree
    <3> QED BY <1>i, <1>l, <2>2, <3>1, <3>2
  <2> QED BY <2>3 DEF Agree
<1>4. CASE RemoveChild
  <2>1. UNCHANGED <<exist, parent, partial>>
    BY <1>4 DEF RemoveChild, mixVars
  <2>2. PICK k \in Keys : child' = [child EXCEPT ![k] = NoLink]
    BY <1>4 DEF RemoveChild
  <2> QED BY <1>a, <1>i, <2>1, <2>2 DEF Agree
<1>5. CASE CreateMissing
  <2>1. UNCHANGED <<child, parent, partial>> /\ "parent" \in exist
    BY <1>5 DEF CreateMissing, mixVars
  <2> QED BY <1>a, <2>1 DEF Agree
<1>6. CASE Dump \/ BeginRestore \/ RestoreFails \/ EndRestore \/ UNCHANGED backupVars
  <2>1. UNCHANGED <<exist, child, parent, partial>>
    BY <1>6, DumpFrame DEF BeginRestore, RestoreFails, EndRestore, backupVars, rowVars, mixVars
  <2> QED BY <1>a, <2>1 DEF Agree
<1>7. CASE RestoreLine
  <2>1. /\ restoring \in 1..6 /\ restoring <= file.lines
        /\ ~(restoring = 5 /\ file.tables = {"parent"})
        /\ ~(restoring = 3 /\ "child" \in file.tables)
        /\ partial => restoring = 6 /\ file.tables = Pair /\ ~shrunk
    BY <1>i, <1>7, LineCases
  <2>2. CASE Skips
    <3>1. ~partial /\ UNCHANGED <<exist, child, parent>>
      BY <2>1, <2>2 DEF Skips, Pair
    <3> QED BY <1>a, <3>1 DEF Agree
  <2>3. CASE restoring = 1 /\ Drops("child")
    <3>1. \A k \in Keys : child'[k] = NoLink
      BY <2>3 DEF Drops, NoChildren
    <3> QED BY <3>1 DEF Agree
  <2>4. CASE restoring = 2 /\ Creates("child")
    <3>1. ~partial /\ UNCHANGED <<child, parent>> /\ "parent" \in exist
      BY <2>1, <2>4 DEF Creates
    <3> QED BY <1>a, <3>1 DEF Agree
  <2>5. CASE restoring = 4 /\ Drops("parent")
    BY <2>5 DEF Drops
  <2>6. CASE restoring = 5 /\ "parent" \in file.tables
    <3>1. "child" \in file.tables
      BY <1>i, <2>1, <2>6 DEF Pair
    <3> QED BY <1>a, <2>1, <2>6, <3>1 DEF MidRestore
  <2>7. CASE restoring = 6 /\ "parent" \in file.tables /\ InsertsParents
    <3>1. file.tables = Pair
      BY <1>a, <1>i, <2>7 DEF MidRestore, Pair
    <3>2. file.lines = 6 /\ ~shrunk
      <4>1. partial
        BY <1>a, <2>7, <3>1 DEF MidRestore, Pair
      <4> QED BY <1>i, <2>1, <2>7, <4>1
    <3>3. Agree(file.child, file.parent)
      BY <3>2 DEF DumpInv
    <3>4. /\ child' = child
          /\ \A i \in ParentIds : file.parent[i] = 0 \/ parent[i] = 0
          /\ \A i \in ParentIds :
               parent'[i] = IF file.parent[i] = 0 THEN parent[i] ELSE file.parent[i]
      BY <2>7 DEF InsertsParents
    <3>5. ASSUME NEW k \in Keys, child[k] # NoLink PROVE parent'[child[k].of] = child[k].born
      <4>1. child[k].of \in ParentIds /\ child[k].born # 0
        BY <1>i, <1>l, <3>5
      <4>2. CASE child[k] = file.child[k]
        <5>1. file.parent[child[k].of] = child[k].born
          BY <3>3, <3>5, <4>2 DEF Agree
        <5> QED BY <3>4, <4>1, <5>1
      <4>3. CASE parent[child[k].of] = child[k].born
        BY <3>4, <4>1, <4>3
      <4> QED BY <1>a, <2>7, <3>1, <3>5, <4>2, <4>3 DEF MidRestore
    <3> QED BY <3>4, <3>5 DEF Agree
  <2> QED BY <1>i, <1>7, <2>1, <2>2, <2>3, <2>4, <2>5, <2>6, <2>7, LineCases
<1> QED BY <1>1, <1>2, <1>3, <1>4, <1>5, <1>6, <1>7 DEF BackupNext, Dump

(* A child never comes to refer to another parent than its own, however    *)
(* often ids are given or chosen again, unless the tables were filled from *)
(* outside the restore while it was between them, or restored one without  *)
(* the other; or, where ids are chosen, the last restore that put children *)
(* back did not put back their parents.                                    *)
THEOREM RightParentAlways == BackupSpec => []RightParent
<1> DEFINE Inv == BackupInv /\ DumpInv /\ MidInv /\ LinkInv /\ PairInv
<1>1. BackupInit => Inv
  BY BackupInitInv
<1>2. Inv /\ [BackupNext]_backupVars => Inv'
  BY BackupInvStep, DumpStep, MidStep, LinkStep, PairStep
<1>3. Inv => RightParent
  <2> SUFFICES ASSUME Inv, ~straddled, ~(chosen /\ partial), NEW k \in Keys, child[k] # NoLink
               PROVE  parent[child[k].of] \in {0, child[k].born}
    BY DEF RightParent
  <2>1. CASE ~chosen
    BY <2>1 DEF LinkInv, Safe
  <2>2. CASE chosen /\ "parent" \in exist
    BY <2>2 DEF PairInv, Paired, Agree
  <2>3. CASE "parent" \notin exist
    <3>1. parent = NoParents /\ child[k].of \in ParentIds
      BY <2>3, NoLinkIsNone DEF BackupInv, BackupTypeOK, RowsExist
    <3> QED BY <3>1 DEF NoParents
  <2> QED BY <2>1, <2>2, <2>3
<1> HIDE DEF Inv
<1> QED BY <1>1, <1>2, <1>3, PTL DEF BackupSpec
=============================================================================
