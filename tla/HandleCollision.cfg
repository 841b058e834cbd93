CONSTANTS
  MaxResources = 2
  Handles = {0, 1}
  Versions = {0, 2, 3}
  MultiClients = FALSE
  ShmSupported = TRUE

SPECIFICATION Spec
INVARIANT RendererMatchesTable
