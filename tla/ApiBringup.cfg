CONSTANTS
  Local = local
  Lan = lan
  Elsewhere = elsewhere
  P1 = p1
  P2 = p2
  Binds <- MCBinds
  Ports <- MCPorts
  Bindable <- MCBindable
  Config <- MCConfig
  Unset = unset
  NoServer = noServer
  NoPort = noPort
  Handlers = {h1, h2}
  Retries = 2
  MaxEdits = 3
  MaxCrashes = 2
SPECIFICATION Spec
CHECK_DEADLOCK FALSE
INVARIANTS StaysReachable SettingsReadWhole
PROPERTIES GoodPairKept ServerReturns
