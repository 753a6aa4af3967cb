----------------------------- MODULE ConfigMerge -----------------------------
(***************************************************************************)
(* The config column of a weather station or an export target: served with *)
(* its secrets masked, edited in forms that send the mask back, merged by  *)
(* the PATCH handlers of src/api/http_server.cpp and replaced by POST.     *)
(*                                                                         *)
(* A configuration is a function of its fields; a field inside a nested    *)
(* object (auth.private_key) is a field of its own, since both mask and    *)
(* merge descend into objects and treat each leaf alone.  The PATCH reads  *)
(* the row, merges and updates it in separate statements.  The browser's   *)
(* form and its habits (web/js/app.js) are the environment.                *)
(***************************************************************************)
EXTENDS Naturals

CONSTANTS
  Fields, Secret,   \* fields, and those is_secret_key recognises
  Values,           \* non-empty strings
  Absent, Blank,    \* no such key; the empty string
  Masked,           \* "***"
  Clients,
  NoRow, NoForm,
  MaxRequests       \* bound: PATCH and POST requests ever sent

Leaves  == Values \cup {Absent, Blank, Masked}
Configs == [Fields -> Leaves]

ASSUME ConfigAssumption ==
  /\ Secret \subseteq Fields
  /\ Absent \notin Values /\ Blank \notin Values /\ Masked \notin Values
  /\ Absent # Blank /\ Absent # Masked /\ Blank # Masked
  /\ MaxRequests \in Nat
  /\ NoRow \notin Configs /\ NoForm \notin Configs

VARIABLES
  stored,      \* the row's config
  form,        \* what each client's edit form was filled with
  req,         \* each client's request: where its handler is; its body and,
               \* once the row was read, the merged configuration; what its
               \* user meant to change; whether it brings back an outdated
               \* plain field; whether the row is still as it was read
  requests,    \* how many were sent
  want,        \* history: the value last given to each field on purpose
  overlapped,  \* history: the row changed between a PATCH's read and its update
  posted,      \* history: POST stored a mask over an existing row's secret
  stale        \* history: a form was sent back with an outdated plain field

configVars == <<stored, form, req, requests, want, overlapped, posted, stale>>

NoConfig == [f \in Fields |-> Absent]
Idle     == [at |-> "idle", config |-> NoConfig, edits |-> NoConfig, old |-> FALSE, current |-> TRUE]

ConfigTypeOK ==
  /\ stored \in Configs \cup {NoRow}
  /\ form \in [Clients -> Configs \cup {NoForm}]
  /\ req \in [Clients -> [at : {"idle", "find", "update"}, config : Configs,
                          edits : Configs, old : BOOLEAN, current : BOOLEAN]]
  /\ requests \in 0..MaxRequests
  /\ want \in Configs
  /\ overlapped \in BOOLEAN /\ posted \in BOOLEAN /\ stale \in BOOLEAN

ConfigInit ==
  /\ stored = NoRow /\ want = NoConfig /\ requests = 0
  /\ form = [c \in Clients |-> NoForm]
  /\ req = [c \in Clients |-> Idle]
  /\ overlapped = FALSE /\ posted = FALSE /\ stale = FALSE

-----------------------------------------------------------------------------
(* mask_config: secrets that are set are shown as "***". *)
Mask(config) ==
  [f \in Fields |-> IF f \in Secret /\ config[f] \notin {Absent, Blank}
                    THEN Masked ELSE config[f]]

(* Fault: only a blank keeps the secret. *)
KeepsIfBlank(f, v) == f \in Secret /\ v = Blank

(* A blank or masked secret in the body keeps the stored one. *)
Keeps(f, v) == f \in Secret /\ v \in {Blank, Masked}

(* Fault: a blank leaves any field alone. *)
MergeNoBlanks(existing, incoming) ==
  [f \in Fields |-> IF incoming[f] \in {Absent, Blank} \/ Keeps(f, incoming[f])
                    THEN existing[f] ELSE incoming[f]]

(* merge_config: what the body does not name stays. *)
Merge(existing, incoming) ==
  [f \in Fields |-> IF incoming[f] = Absent \/ Keeps(f, incoming[f])
                    THEN existing[f] ELSE incoming[f]]

-----------------------------------------------------------------------------
(* GET, into an edit form. *)
Load(c) ==
  /\ stored # NoRow
  /\ form' = [form EXCEPT ![c] = Mask(stored)]
  /\ UNCHANGED <<stored, req, requests, want, overlapped, posted, stale>>

(* The form is sent, once, with one field changed; blank inputs are left   *)
(* out.                                                                    *)
FormBody(c, f, v) ==
  [g \in Fields |-> IF g = f THEN v
                    ELSE IF form[c][g] = Blank THEN Absent ELSE form[c][g]]

(* A script sends the field it changes and no other. *)
SparseBody(f, v) == [NoConfig EXCEPT ![f] = v]

Counted == requests < MaxRequests /\ requests' = requests + 1

Send(c, body, edits) ==
  /\ Counted
  /\ req[c].at = "idle"
  /\ req' = [req EXCEPT ![c] = [Idle EXCEPT !.at = "find", !.config = body, !.edits = edits]]
  /\ form' = [form EXCEPT ![c] = NoForm]
  /\ UNCHANGED <<stored, want, overlapped, posted, stale>>

SendForm(c) ==
  /\ form[c] # NoForm
  /\ \E f \in Fields, v \in Values : Send(c, FormBody(c, f, v), SparseBody(f, v))

(* Only a script sends the empty string, which sets a plain field and      *)
(* leaves a secret alone.                                                  *)
SendSparse(c) ==
  \E f \in Fields, v \in Values \cup {Blank} :
    Send(c, SparseBody(f, v),
         IF f \in Secret /\ v = Blank THEN NoConfig ELSE SparseBody(f, v))

(* Plain fields the body carries without having been edited, and that are  *)
(* not what the row holds.                                                 *)
Outdated(r) ==
  {g \in Fields \ Secret : r.edits[g] = Absent /\ r.config[g] \notin {Absent, stored[g]}}

(* find_*: 404, or the row the body is merged into. *)
PatchFind(c) ==
  /\ req[c].at = "find"
  /\ req' = [req EXCEPT ![c] =
               IF stored = NoRow THEN Idle
               ELSE [req[c] EXCEPT !.at = "update", !.config = Merge(stored, req[c].config),
                                   !.old = (Outdated(req[c]) # {})]]
  /\ UNCHANGED <<stored, form, requests, want, overlapped, posted, stale>>

(* The row is written: what the other requests have read is outdated.      *)
Rewrite(config) ==
  [c \in Clients |-> IF req[c].at = "update" /\ stored # config
                     THEN [req[c] EXCEPT !.current = FALSE] ELSE req[c]]

(* update_*: nothing if the row is gone by now. *)
PatchUpdate(c) ==
  LET r == req[c] IN
  /\ r.at = "update"
  /\ IF stored = NoRow
     THEN /\ req' = [req EXCEPT ![c] = Idle]
          /\ UNCHANGED <<stored, want, overlapped, stale>>
     ELSE /\ stored' = r.config
          /\ req' = [Rewrite(r.config) EXCEPT ![c] = Idle]
          /\ want' = [f \in Fields |-> IF r.edits[f] = Absent THEN want[f] ELSE r.edits[f]]
          /\ overlapped' = (overlapped \/ ~r.current)
          /\ stale' = (stale \/ r.old)
  /\ UNCHANGED <<form, requests, posted>>

(* A statement of the PATCH throws: 500. *)
PatchFails(c) ==
  /\ req[c].at # "idle"
  /\ req' = [req EXCEPT ![c] = Idle]
  /\ UNCHANGED <<stored, form, requests, want, overlapped, posted, stale>>

(* POST: upsert_* stores the body's config as it is, be the row new or not;*)
(* a body may be typed, or what a GET returned.                            *)
Post(c) ==
  /\ Counted
  /\ \E body \in [Fields -> Values \cup {Absent}] \cup ({form[c]} \ {NoForm}) :
       LET kept == {f \in Secret : stored # NoRow /\ body[f] = Masked} IN
       /\ stored' = body
       /\ want' = [f \in Fields |-> IF f \in kept THEN want[f] ELSE body[f]]
       /\ posted' = (kept # {})
       /\ req' = Rewrite(body)
  /\ overlapped' = FALSE /\ stale' = FALSE
  /\ UNCHANGED form

(* DELETE, also of a row that is not there. *)
RemoveRow ==
  /\ stored' = NoRow
  /\ req' = Rewrite(NoRow)
  /\ UNCHANGED <<form, requests, want, overlapped, posted, stale>>

ConfigNext ==
  \/ RemoveRow
  \/ \E c \in Clients : \/ Load(c) \/ SendForm(c) \/ SendSparse(c) \/ Post(c)
                        \/ PatchFind(c) \/ PatchUpdate(c) \/ PatchFails(c)

ConfigSpec == ConfigInit /\ [][ConfigNext]_configVars

-----------------------------------------------------------------------------
(* merge_config: "ignoring blank/masked secret values so secrets aren't    *)
(* wiped when only other fields are edited".  A secret is always the one   *)
(* last set on purpose, however old the forms that are sent back, unless   *)
(* two requests overlapped (the read and the update are two statements) or *)
(* a masked configuration was POSTed, which does not merge.                *)
SecretsSurvive ==
  stored # NoRow /\ ~overlapped /\ ~posted => \A f \in Secret : stored[f] = want[f]

(* With the same exceptions every field is what was last set on purpose,   *)
(* unless a form was sent back that showed an outdated plain field.        *)
EditsKept ==
  stored # NoRow /\ ~overlapped /\ ~posted /\ ~stale => stored = want
=============================================================================
