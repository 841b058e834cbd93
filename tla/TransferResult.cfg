\* Transfers on resources the server created, with renderer failures.
CONSTANTS
  MaxResources = 2
  Handles = {0}
  Versions = {0, 2, 3}
  MultiClients = FALSE
  ShmSupported = TRUE

SPECIFICATION Spec
INVARIANT TransferResultExact
