\* Two clients, 3-bit counters (they wrap), up to 3 fences held by the renderer.
CONSTANTS
  c1 = c1
  c2 = c2
  Clients <- MCClients
  W = 3
  MaxPending = 3
  None = None

SPECIFICATION FairSpec
INVARIANT BusyReplyExact
PROPERTY BusyWaitReturns
