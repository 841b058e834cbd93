\* Three context structs shared by successive and concurrent clients, three
\* capsets, protocol versions refused and accepted, renderer restarts.
CONSTANTS
  MaxContexts = 3
  Capsets = {0, 1, 2}
  Versions = {0, 2, 3}
  ShmSupported = TRUE

SPECIFICATION Spec
INVARIANT ContextOwnership
INVARIANT RendererContextsExact
INVARIANT MultiClientProtocol
