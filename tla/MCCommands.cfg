SPECIFICATION Spec
CONSTANTS
  c1 = c1
  c2 = c2
  c3 = c3
  x = x
  y = y
  Calls <- MCCalls
  CmdOf <- MCCmdOf
  Together = {c1, c2}
  Ttys = {c1}
  Escalable = {c1}
  Settings <- MCSettings
  Hooks <- MCHooks
  Providers <- MCProviders
  MaxProcs = 2
  ReadBytes = 2
  BufferBytes = 2
  MaxSessions = 1
  Protected = 0
CHECK_DEADLOCK FALSE
INVARIANTS
  Owned
  OutputOnce
  RunsAreApproved
