---------------------------- MODULE VtestContext -----------------------------
(***************************************************************************)
(* The context manager of vtest (src/vtest/vtest_renderer.c): the         *)
(* vtest_context structs, recycled through renderer.free_contexts with    *)
(* the ctx_id each got when it was malloc'd; the list of active contexts; *)
(* renderer.current_context; each context's protocol_version, capset_id   *)
(* and context_initialized; and the renderer's contexts, created under    *)
(* the struct's ctx_id by vtest_lazy_init_context and destroyed by        *)
(* vtest_destroy_context.  The renderer is set up and torn down by        *)
(* vtest_init_renderer / vtest_cleanup_renderer, which also chooses the   *)
(* multi-client mode.                                                      *)
(*                                                                         *)
(* The server loop (vtest_server.c, outside src/) accepts a client with   *)
(* vtest_create_context (one client at a time unless multi-client), makes *)
(* its context current before each of its commands, has the renderer      *)
(* context created lazily before a command that needs it, and destroys    *)
(* the context when the client goes away or a handler returns nonzero     *)
(* ("failed").  Each handler runs to completion on the single server      *)
(* thread, so each is one atomic action.  The renderer is outside src/:   *)
(* it refuses to create a context id it already has and may fail any      *)
(* create (the outcome inputs).                                            *)
(***************************************************************************)
EXTENDS Naturals, Sequences, SequencesExt, FiniteSets

CONSTANTS
  MaxContexts,  \* vtest_context structs ever malloc'd (bound on next_context_id)
  Capsets,      \* capset ids the client sends in CONTEXT_INIT (0 included)
  Versions,     \* versions the client sends in PROTOCOL_VERSION
  ShmSupported  \* the result of vtest_shm_check()

ASSUME /\ MaxContexts \in Nat \ {0} /\ Capsets \subseteq Nat /\ 0 \in Capsets
       /\ Versions \subseteq Nat /\ ShmSupported \in BOOLEAN

VTEST_PROTOCOL_VERSION == 3
CtxIds == 1..MaxContexts   \* ctx_id, fixed per struct: next_context_id++
NULL == 0                  \* renderer.current_context = NULL
NoCtx == -1                \* the renderer has no context of this id

VARIABLES
  multiClients,   \* renderer.multi_clients
  nextContextId,  \* renderer.next_context_id
  freeContexts,   \* renderer.free_contexts, LIFO (list_add at the head)
  active,         \* the structs on renderer.active_contexts
  current,        \* renderer.current_context
  protocol,       \* ctx->protocol_version of each struct
  capset,         \* ctx->capset_id
  initialized,    \* ctx->context_initialized
  failed,         \* active contexts whose last handler returned nonzero
  rctx            \* the renderer's contexts: ctx_id -> capset, or NoCtx

vars == <<multiClients, nextContextId, freeContexts, active, current,
          protocol, capset, initialized, failed, rctx>>

\* vtest_init_renderer: every list empty, the multi-client mode chosen.
Init ==
  /\ multiClients \in BOOLEAN
  /\ nextContextId = 1
  /\ freeContexts = <<>>
  /\ active = {}
  /\ current = NULL
  /\ protocol = [c \in CtxIds |-> 0]
  /\ capset = [c \in CtxIds |-> 0]
  /\ initialized = [c \in CtxIds |-> FALSE]
  /\ failed = {}
  /\ rctx = [c \in CtxIds |-> NoCtx]

\* A command of context c may run: the server made c current, and c has
\* not failed.
Serving(c) == c \in active /\ c \notin failed

\* The handler of c returns ret ("zero" or not): nonzero ends the client.
Return(c, ok) ==
  /\ current' = c
  /\ failed' = IF ok THEN failed ELSE failed \cup {c}

\* The struct vtest_new_context hands out: the head of the free list, or a
\* new one numbered renderer.next_context_id.
NewCtx == IF freeContexts # <<>> THEN Head(freeContexts) ELSE nextContextId

\* Mutant: a struct taken from the free list keeps its previous client's
\* protocol_version, capset_id and context_initialized.
NewContextNoReset(c) ==
  /\ UNCHANGED <<protocol, capset, initialized>>

\* The field resets of vtest_new_context.
vtest_new_context(c) ==
  /\ protocol' = [protocol EXCEPT ![c] = 0]
  /\ capset' = [capset EXCEPT ![c] = 0]
  /\ initialized' = [initialized EXCEPT ![c] = FALSE]

\* vtest_free_context(ctx, false): the struct is pushed on the head of the
\* free list l (the cleanup form, which frees it, is part of Restart).
vtest_free_context(c, l) == <<c>> \o l

\* A client connects (vtest_create_context): a struct is taken or
\* malloc'd, reset, and the client's name read; a short read puts the
\* struct straight back on the free list (vtest_free_context) and the
\* client is dropped.  A single-client server accepts the next client only
\* when the previous one is gone.
vtest_create_context(nameOk) ==
  /\ multiClients \/ active = {}
  /\ freeContexts # <<>> \/ nextContextId <= MaxContexts
  /\ LET c     == NewCtx
         rest  == IF freeContexts # <<>> THEN Tail(freeContexts) ELSE <<>>
     IN /\ nextContextId' = IF freeContexts # <<>> THEN nextContextId
                                                   ELSE nextContextId + 1
        /\ vtest_new_context(c)
        /\ IF nameOk
             THEN /\ active' = active \cup {c}
                  /\ freeContexts' = rest
             ELSE /\ freeContexts' = vtest_free_context(c, rest)
                  /\ UNCHANGED active
  /\ UNCHANGED <<multiClients, current, failed, rctx>>

\* The renderer's context create for c, with flags when capset_id cap is
\* set: it succeeds (rok) unless the id is taken; context_initialized =
\* (ret == 0).
CreateRendererContext(c, cap, rok) ==
  LET ok == rok /\ rctx[c] = NoCtx
  IN /\ initialized' = [initialized EXCEPT ![c] = ok]
     /\ rctx' = IF ok THEN [rctx EXCEPT ![c] = cap] ELSE rctx
     /\ Return(c, ok)

\* Mutant: the protocol version is not checked before the create.
LazyInitNoVersionCheck(c, cap, rok) == CreateRendererContext(c, cap, rok)

\* The body of vtest_lazy_init_context once the context is found not yet
\* initialized: a multi-client server refuses a context below protocol 3;
\* otherwise the renderer context is created with capset cap.
LazyInit(c, cap, rok) ==
  IF multiClients /\ protocol[c] < 3
    THEN Return(c, FALSE) /\ UNCHANGED <<initialized, rctx>>
    ELSE CreateRendererContext(c, cap, rok)

\* vtest_lazy_init_context, run by the server before a command of c that
\* needs the renderer context (a no-op once it exists).
vtest_lazy_init_context(c, rok) ==
  /\ Serving(c)
  /\ ~initialized[c]
  /\ LazyInit(c, capset[c], rok)
  /\ UNCHANGED <<multiClients, nextContextId, freeContexts, active, protocol,
                 capset>>

\* VCMD_CONTEXT_INIT (vtest_context_init) with capset id cap: 0 is refused;
\* once the renderer context exists only the same capset is accepted;
\* otherwise the capset is stored and vtest_lazy_init_context runs.
vtest_context_init(c, cap, rok) ==
  /\ Serving(c)
  /\ IF cap = 0 \/ initialized[c]
       THEN /\ Return(c, cap # 0 /\ capset[c] = cap)
            /\ UNCHANGED <<capset, initialized, rctx>>
       ELSE /\ capset' = [capset EXCEPT ![c] = cap]
            /\ LazyInit(c, cap, rok)
  /\ UNCHANGED <<multiClients, nextContextId, freeContexts, active, protocol>>

\* VCMD_PROTOCOL_VERSION (vtest_protocol_version) from c with version v:
\* MIN2(v, VTEST_PROTOCOL_VERSION), 1 falling back to 0, anything to 0
\* without shm; a multi-client server refuses a result below 3.  It may be
\* sent again at any time, also after the renderer context exists.
vtest_protocol_version(c, v) ==
  LET m   == IF v < VTEST_PROTOCOL_VERSION THEN v ELSE VTEST_PROTOCOL_VERSION
      ver == IF m = 1 \/ ~ShmSupported THEN 0 ELSE m
  IN /\ Serving(c)
     /\ IF multiClients /\ ver < 3
          THEN Return(c, FALSE) /\ UNCHANGED protocol
          ELSE Return(c, TRUE) /\ protocol' = [protocol EXCEPT ![c] = ver]
     /\ UNCHANGED <<multiClients, nextContextId, freeContexts, active, capset,
                    initialized, rctx>>

\* VCMD_RESOURCE_BUSY_WAIT's check before the renderer context exists: only
\* handle 0 (the ping-before-init probe) is accepted.  The wait itself is
\* VtestBusyWait's.
vtest_resource_busy_wait(c, handle0) ==
  /\ Serving(c)
  /\ Return(c, initialized[c] \/ handle0)
  /\ UNCHANGED <<multiClients, nextContextId, freeContexts, active, protocol,
                 capset, initialized, rctx>>

\* The renderer side of vtest_destroy_context.
DestroyRenderer(c) ==
  rctx' = IF initialized[c] THEN [rctx EXCEPT ![c] = NoCtx] ELSE rctx

\* Mutant: renderer.current_context is left pointing at the freed struct.
DestroyKeepCurrent(c) ==
  /\ c \in active
  /\ active' = active \ {c}
  /\ DestroyRenderer(c)
  /\ freeContexts' = vtest_free_context(c, freeContexts)
  /\ failed' = failed \ {c}
  /\ UNCHANGED <<multiClients, nextContextId, protocol, capset, initialized,
                 current>>

\* vtest_destroy_context, when the client goes away or failed: current is
\* cleared if it is c, c leaves the active list, its renderer context is
\* destroyed if it was created, and the struct goes on the free list.  (The
\* sync queues, waits and tables it empties are VtestSync's and
\* VtestResource's Disconnect.)
vtest_destroy_context(c) ==
  /\ c \in active
  /\ current' = IF current = c THEN NULL ELSE current
  /\ active' = active \ {c}
  /\ DestroyRenderer(c)
  /\ freeContexts' = vtest_free_context(c, freeContexts)
  /\ failed' = failed \ {c}
  /\ UNCHANGED <<multiClients, nextContextId, protocol, capset, initialized>>

\* vtest_cleanup_renderer and a new vtest_init_renderer(multi): every active
\* context is destroyed, every struct freed (and forgotten), next_context_id
\* and current_context reset, and the renderer torn down (no context left).
Restart(multi) ==
  /\ multiClients' = multi
  /\ nextContextId' = 1
  /\ freeContexts' = <<>>
  /\ active' = {}
  /\ current' = NULL
  /\ failed' = {}
  /\ rctx' = [c \in CtxIds |-> NoCtx]
  /\ protocol' = [c \in CtxIds |-> 0]
  /\ capset' = [c \in CtxIds |-> 0]
  /\ initialized' = [c \in CtxIds |-> FALSE]

Next ==
  \/ \E ok \in BOOLEAN : vtest_create_context(ok)
  \/ \E c \in active, rok \in BOOLEAN :
       \/ vtest_lazy_init_context(c, rok)
       \/ \E cap \in Capsets : vtest_context_init(c, cap, rok)
  \/ \E c \in active, v \in Versions : vtest_protocol_version(c, v)
  \/ \E c \in active, h0 \in BOOLEAN : vtest_resource_busy_wait(c, h0)
  \/ \E c \in active : vtest_destroy_context(c)
  \/ \E multi \in BOOLEAN : Restart(multi)

Spec == Init /\ [][Next]_vars
-----------------------------------------------------------------------------
(***************************************************************************)
(* Properties.                                                             *)
(***************************************************************************)
\* Ownership of vtest_context structs across failed name reads, destroy,
\* free-list reuse and renderer restarts: every struct malloc'd since the
\* last restart is on the active list or on the free list, never both and
\* never twice on the free list, and current_context never names a struct
\* that is not active (a destroyed one would be used after its teardown).
ContextOwnership ==
  /\ IsInjective(freeContexts)
  /\ \A c \in CtxIds :
       /\ (c < nextContextId) <=> (c \in active \/ c \in Range(freeContexts))
       /\ ~(c \in active /\ c \in Range(freeContexts))
  /\ current \in active \cup {NULL}

\* The renderer's contexts are exactly those of the active contexts whose
\* context_initialized is set, each created with the capset_id the context
\* holds: through lazy init failures, CONTEXT_INIT before and after lazy
\* init, destroy, and a struct reused by a later client under the same
\* ctx_id.
RendererContextsExact ==
  \A c \in CtxIds :
    rctx[c] = IF c \in active /\ initialized[c] THEN capset[c] ELSE NoCtx

\* A multi-client server runs a renderer context only for a client that
\* negotiated protocol 3 or later, and that client's protocol version
\* stays at 3 or later while the context lives, however PROTOCOL_VERSION,
\* CONTEXT_INIT and lazy init are interleaved.
MultiClientProtocol ==
  multiClients => \A c \in active : initialized[c] => protocol[c] >= 3
====
