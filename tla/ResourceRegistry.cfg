\* One client after another, each letting the server pick every handle:
\* creation error paths, unref, teardown and free-list reuse.
CONSTANTS
  MaxResources = 3
  Handles = {0}
  Versions = {0, 1, 2, 3, 4}
  MultiClients = FALSE
  ShmSupported = TRUE

SPECIFICATION Spec
INVARIANT ResourceOwnership
INVARIANT RendererMatchesTable
