\* Two concurrent requests over two accounts, one of them the seeded admin;
\* two clients editing a plain field and a secret; backups and restores of a
\* child row and two parents. The bounds end the backup behaviours.
CONSTANTS
  admin = admin
  ann = ann
  t1 = t1
  h1 = h1
  h2 = h2
  v1 = v1
  v2 = v2
  c1 = c1
  c2 = c2
  Names = {admin, ann}
  Admin = admin
  Tokens = {t1}
  Handlers = {h1, h2}
  NoUser = noUser
  NoSession = noSession
  ApiToken = TRUE
  SchemaFile = TRUE
  MaxId = 3
  Fields = {plain, key}
  Secret = {key}
  Values = {v1, v2}
  Absent = absent
  Blank = blank
  Masked = masked
  Clients = {c1, c2}
  NoRow = noRow
  NoForm = noForm
  MaxRequests = 3
  Keys = {k1}
  MaxParents = 2
  MaxBirths = 2
  MaxTools = 4
SYMMETRY Alike
SPECIFICATION GroupSpec
INVARIANTS SessionOwner AdminRemains PasswordOwner FreshStart SecretsSurvive EditsKept
INVARIANTS DumpClosed RightParent
PROPERTY RestoreExact
CHECK_DEADLOCK FALSE
