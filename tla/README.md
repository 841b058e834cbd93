# TLA+ models of the vtest server (src/vtest/vtest_renderer.c)

vtest is the socket front end of virglrenderer. It runs one thread. Each client
connection owns a `vtest_context`, and the server reads that client's commands
and dispatches them to the handlers in `vtest_renderer.c`. The renderer delivers
fence callbacks (`vtest_write_context_fence`, `vtest_write_implicit_fence`) from
`virgl_renderer_poll`, which the server calls between commands. So every command
handler, and every callback, runs to completion on its own: each one is a single
atomic step in the models.

## Inventory

| Component | State in the code | Operations | Status |
|---|---|---|---|
| Timeline store | `vtest_sync` (`sync_id`, `refcount`, `value`); `renderer.free_syncs` (LIFO), `renderer.next_sync_id`; `ctx->sync_table` | SYNC_CREATE, SYNC_UNREF, SYNC_WRITE, SYNC_READ | modelled (VtestSync; abstract: SyncTimelines) |
| Sync-queue engine | `ctx->sync_queues[64]`, a FIFO of `vtest_sync_queue_submit` (`sync_queue`, `count`, `syncs[]`, `values[]`); the renderer's per-ring fences that carry a submit pointer as cookie | SUBMIT_CMD2 batches (immediate or queued), `vtest_write_context_fence` → `vtest_signal_sync_queue` | modelled (VtestSync; abstract: SyncTimelines, per context) |
| Sync-wait engine | `ctx->sync_waits`, a list of `vtest_sync_wait` (`flags`, `valid_before`, `count`, `signaled_count`, `syncs[]`, `values[]`, eventfd) | SYNC_WAIT, the walk in `vtest_signal_sync` over the waits of every active context (wake-up, garbage collection of expired waits) | modelled (VtestSync) |
| Context manager | `renderer.active_contexts`, `free_contexts`, `current_context`; `protocol_version`, `capset_id`, `context_initialized` | create, lazy init, CONTEXT_INIT, PROTOCOL_VERSION, destroy, renderer init and cleanup | modelled (VtestContext; what destroy empties is `Disconnect` in VtestSync and VtestResource) |
| Resource registry | `vtest_resource`, `renderer.free_resources`, `next_resource_id`, `ctx->resource_table` | RESOURCE_CREATE, CREATE2, CREATE_BLOB, UNREF | modelled (VtestResource) |
| Frame length checks | `length_dw`, `renderer.max_length` | the arithmetic in SUBMIT_CMD, SUBMIT_CMD2 and SYNC_WAIT | modelled (VtestFrame) |
| Implicit fences / busy wait | `implicit_fence_submitted`, `implicit_fence_completed` | SUBMIT_CMD, RESOURCE_BUSY_WAIT, `vtest_write_implicit_fence` | modelled (VtestBusyWait; the ping-before-init check is in VtestContext) |
| Transfers | the resource's shm iov | TRANSFER_GET/PUT (v1, v2, nop) | modelled (VtestResource: the decode's size check, lookup, shm offset check, return value) |
| Wire codec, queries | socket I/O; GET_PARAM, GET_CAPSET, GET_CAPS(2), PING | I/O only, stateless | not modelled |

The components interact in three ways:
- A sync is referenced by the client's `sync_table`, by every queued submit that
  names it, and by every listed wait that has not yet reached it. It returns to
  the process-wide free list only when its last reference is dropped.
- A submit's sync values are applied when the renderer retires the fence that
  carries the submit's address. The callback walks the submit's queue up to
  that submit and frees everything it passes.
- Applying a value walks the wait lists of every active context, not only the
  one the value came from. Each wait reached drops its reference, and when the
  wait is satisfied it is freed and its eventfd is made readable. Expired waits
  of any client are freed on the way.

## Module VtestSync: the timeline core

| Code | Model |
|---|---|
| `renderer.active_contexts` | `active` (a sequence of the contexts `Ctxs`) |
| `vtest_sync` refcount/value, `free_syncs`, `next_sync_id` | `refcount`, `value`, `freeSyncs` (a sequence, head = list head), `nextSyncId`: shared by all contexts |
| `ctx->sync_table` | `syncTable[c]` (set of ids) |
| `ctx->sync_waits` and each `vtest_sync_wait` | `waitList[c]` (sequence of slots), `wait[w]` (`WaitRec`), `fdReady[w]` |
| `ctx->sync_queues[i].submits`, each submit | `queues[c][i]` (sequence of slots), `submit[p]` (`SubmitRec`, whose `ctx` and `queue` are its `sync_queue` pointer) |
| the renderer's pending context fences per context and ring | `fences[c][r]` (sequence of submit slots) |

Wait and submit slots are the memory records are malloc'd in, shared by all
contexts.

The helpers keep the code's names: `vtest_unref_sync`, `vtest_free_sync_wait`,
`vtest_free_sync_queue_submit`, `vtest_signal_sync` (its wait walk is
`CheckWait`) and `vtest_signal_sync_queue`. They are folds over a record `Sync`
of the state they change, taken in the code's list order.

Every handler takes the context `c` whose client sent the command. The actions:
- `SyncCreate` and `SyncUnref` model the SYNC_CREATE and SYNC_UNREF handlers.
  `SyncCreateFail` is SYNC_CREATE whose reply cannot be written: the new sync
  is unreferenced and goes back on the free list.
- `SyncWrite` models SYNC_WRITE.
- `SyncWait` models SYNC_WAIT. It covers the zero, finite and infinite timeouts,
  ANY and ALL, and a reply or fd send that fails (the wait is then freed). A
  request may name the live ids of any context (`LiveIds`). The guard accepts
  only ids of `c`'s own `sync_table`, as the code's lookup does.
- `Expire` models the clock passing a wait's `valid_before`.
- `SubmitBatchNow` and `SubmitBatchQueued` model one SUBMIT_CMD2 batch, without
  and with the SYNC_QUEUE flag.
- `FenceRetire` models the renderer retiring the first k fences of a ring, since
  MERGEABLE fences report only the last cookie. This fires
  `vtest_write_context_fence`.
- `SyncWaitFail`, `SubmitBatchNowFail` and `SubmitBatchQueuedFail` model the
  same handlers when a sync id in the request is not in the table. SYNC_WAIT
  has referenced the unreached syncs named before it and frees the half-built
  wait. A queued batch has referenced the syncs before it, sets
  `submit->count = i` and frees the submit (`SubmitRollback`). An immediate
  batch has already signalled the pairs before it. All return -EEXIST, and the
  teardown follows as `Disconnect`. A queued batch whose fence cannot be
  created is `SubmitBatchQueuedFail` with the whole batch as prefix.
- `Disconnect(c, order)` models `vtest_destroy_context` of one context. The next
  client's context joins the tail of `renderer.active_contexts` with empty lists,
  while the other contexts keep theirs. An error return from any handler ends the
  connection. When the handler changed nothing before the error, the next state
  is the one `Disconnect` produces.

A freed submit keeps its `queue` field. The callback of a stale cookie reads
that field (glibc does not overwrite that offset on free), and the model lets it
do so.

The renderer drops a context's pending fences on `virgl_renderer_context_destroy`.
`Disconnect` therefore clears `fences`. This is renderer behaviour outside
`src/`, and the models assume it.

### Properties

- **`TypeOK`** checks the types of the state.
- **`RefcountExact`** says each allocated sync's refcount equals the references
  actually held, counted from the table, the listed waits and the queued
  submits. A refcount is zero exactly when the sync is on the free list, and the
  free list has no duplicates. Breaking it takes a sequence of
  create/wait/submit/retire/teardown steps.
- **`NoMissedWakeup`** says no listed wait holds a slot whose threshold its
  timeline has already reached. The registration-time check and the walk's test
  must agree.
- **`NoEarlySignal`** says a submit whose fence is still pending at the
  renderer is still on its sync queue, so its values have not been applied.
- **`WaitNotifySound`** is an action property. When the walk wakes a wait,
  every threshold of that wait is reached by the new values.
- **`ExpiredCollected`** is an action property for the hazard at line 1710.
  Expired waits are freed only by the walk of `vtest_signal_sync`. Any step that
  raises a live timeline's value must leave no expired wait on the list. The
  walk must reach every wait, including those behind a wait it wakes and frees.
  Nothing frees an expired wait when no timeline rises, because the code has no
  timer (spec §9). So the eventual-collection form is not a property the code
  has.
- **`ContextIsolation`** says no sync is held by two contexts at once: by a
  table entry, a queued submit or an uncleared wait slot. Sync structs and ids
  are recycled through one free list for all clients, and a signal from one
  client frees other clients' waits. Isolation then rests on exact refcounts and
  on every lookup using the requesting context's own table.
- **`SubmitReleased`** is a liveness property. Every queued submit is eventually
  drained.

### Runs (MCVtestSync)

| Run | cfg | Expect | What it shows |
|---|---|---|---|
| sync_waits | SyncWaits.cfg | pass (≈203k states, ≈2 min) | Two clients in multi-client mode share 2 syncs and 2 wait slots, with waits of up to 2 entries, values {0,1}, immediate batches and teardown of either client. Refcounts stay exact, no wait misses a wake-up, no sync is held by both clients, and every walk collects the expired waits of both clients. Symmetry over the two contexts. |
| sync_queues | SyncQueues.cfg | pass (≈18k states, ≈50 s) | With 2 queues each bound to its own ring, 2 submit slots and merged retirement, nothing is applied before its fence, and every submit is eventually released. The same behaviours refine SyncTimelines (`QueueRefinement`). |
| shared_queue_index | SharedQueueIndex.cfg | violation of `NoEarlySignal` | One `sync_queue_index` used with two rings. |
| wait_after_decrease | WaitAfterDecrease.cfg | violation of `WaitNotifySound` | A timeline written to a lower value. |

The bounds were chosen so the interesting cases happen:
- Two syncs and two wait slots give a wait on two timelines, ANY against ALL,
  and the free list reusing an id while another is held. With two clients, an
  id one client released is reissued to the other, and a wait of each client
  can be listed at once.
- sync_waits has no submit slots. Queued batches are checked by sync_queues,
  with one client. Two clients with queues ran for 12 minutes (1.3M states),
  over the budget of a run, and immediate batches already make a signal from
  one client walk the other's waits.
- Two submit slots on two queues give a stale cookie whose memory is reused.
- Values {0,1} give "already reached", "reached by this write" and "lowered".

Fairness: `FairSpec` assumes weak fairness of retirement on each ring. The
renderer's GPU eventually completes submitted fences, and `virgl_renderer_poll`
is called on every pass of the server loop. The client's own commands get no
fairness, so a client may stop at any time. The fairness is written out as
`[]<>(fences[c][r] = <<>>) \/ []<><<RetireOn(c, r)>>_vars` for each context and
ring. That is WF for an action
enabled exactly when `fences[r]` is non-empty, and it spares TLC evaluating
ENABLED over the folds.

### The abstract specification SyncTimelines

`SyncTimelines` states what the timeline store and the sync queues promise,
following spec §4.3 and §4.4, with no reference counts, free lists, waits or
cookies. Its state is:
- `val`: a value per timeline id;
- `tab`: the live ids;
- `pend`: per sync queue, the batches not yet applied;
- `ring`: per renderer ring, the batches whose fence is pending.

Its actions are `Create` (only under an id that no live timeline and no
pending batch uses), `Overwrite` (a value change of such an id that leaves it
out of the table; SYNC_CREATE sets the value before its write fails and the
sync is freed), `Destroy`, `Signal`, `Enqueue`, `Complete(r, k)` and
`Teardown`. `Complete(r, k)` drains the queue of the k-th batch of ring r in
FIFO order, up to and including that batch, and applies the batches' signals
in order.

`MCVtestSync` holds the refinement mapping, one instance per context,
`Abs(c) == INSTANCE SyncTimelines WITH ...`:
- `value` maps to `val`, and `syncTable[c]` to `tab`.
- Each submit queued in `c` maps to the batch of its `<<sync, value>>` slots.
- `fences[c]` maps to `ring`.

The steps of other contexts change only timelines that `c` does not hold, so
for `Abs(c)` they are stuttering steps or `Overwrite`.

`QueueRefinement` is a PROPERTY of the sync_queues run. It is `Abs(c)!Spec` for
every `c`, written as `\A c \in Ctxs : Abs(c)!Init` together with the action
property `[][\A c \in Ctxs : [Abs(c)!Next]_(Abs(c)!avars)]_vars`, a form TLC can
check. It shows two things. First, the folds over refcounts, waits and the free
list change timeline values only as the abstract drains do. Second, an id
recycled through the free list is never one that a pending batch still writes.
With `MCSharedQueue`, the refinement cannot hold, because of finding 1.

### Findings

1. **Stale cookie drains a queue (code_bug, line 1756).** Suppose one
   `sync_queue_index` is fed by batches on two rings. When the later ring's
   fence retires first, it drains the earlier submit, which frees it while its
   own fence is still pending. When that fence later retires, the callback reads
   the freed submit. The walk never meets it, so it drains the whole queue and
   applies the values of submits whose GPU work has not completed. Spec §4.4
   says an unfound cookie counts as already drained.
2. **Timelines can go backwards (spec_code_divergence, line 1696).**
   `vtest_signal_sync` stores a lower value. A wait registered while a slot was
   already reached skips that slot. If that timeline is lowered and another slot
   then completes the wait, the wait is reported complete although a threshold
   is no longer reached. Spec §2 calls timelines non-decreasing, and §8 requires every threshold of a completed wait to be reached.

## Module VtestFrame: length and offset checks

`VtestFrame` models how a handler accepts a frame and what it then reads.
Three handlers are covered:
- `vtest_submit_cmd`;
- `vtest_submit_cmd2`, with its batch loop as `Cmd2Batch` and `Cmd2Done`;
- `vtest_sync_wait`, up to the end of `vtest_sync_wait_init`.

The model works as follows:
- The uint32_t checks are computed at width W with `U(x) = x % 2^W`.
- The batch table check is the code's
  `VCMD_SUBMIT_CMD2_BATCH_COUNT + 8 * batch_count > length_dw`, with the
  constant 0 (batch_count is word 0; the batches start at word 1).
- `Receive` is the `malloc(length_dw * 4)`. The read that fills the buffer is
  not modelled. It passes `length_dw * 4` to the `int` size of
  `vtest_block_read`, which is negative for `length_dw >= 2^29`, and then
  reads past the buffer (a hazard in PROJECT.json with no property).
- `reach` records one past the highest payload word read, for each kind of
  read: the batch table, the command and sync ranges of a batch, and the
  SYNC_WAIT words. Pointer arithmetic on the buffer is not wrapped, because
  it happens in 64-bit addresses.
- The outcome of the renderer and of the sync-id lookups is nondeterministic:
  the renderer refuses, the first triple is unknown, or all triples are read.
- W is 8 and even, so 2^W - 1 is a multiple of 3, as 2^32 - 1 is. This keeps
  the `(length_dw - 2) % 3` behaviour.
- Words {0, 1, 32, 86, 255} contain the values that make `8 * count`,
  `3 * sync_count` and `offset + size` wrap at width 8.
- `MaxBatchSteps = 2` bounds the batch loop that is explored.
  `BatchBoundReached` marks where exploration stops; it is not code.

| Run | cfg | Expect | What it shows |
|---|---|---|---|
| frame_alloc | FrameAlloc.cfg | pass | `AllocFits` holds. For any `max_length`, the allocation of an accepted payload never wraps, thanks to the `/ 4` in the check. |
| batch_wrap | BatchWrap.cfg | violation of `Cmd2InFrame` | SUBMIT_CMD2 reads outside the payload. The shortest trace reads `batch_count` from a zero-length frame. The table check adds `VCMD_SUBMIT_CMD2_BATCH_COUNT`, which is batch_count's index 0, to `8*batch_count`, so it is one word short: `batch_count = 1` with `length_dw = 8` reads word 8. The sum also wraps (`batch_count = 0x20000000` makes it 0, so any frame passes), and so does `cmd_offset + cmd_size`, which hands the renderer words outside the payload. |
| wait_length_one | WaitLengthOne.cfg | violation of `WaitInFrame` | `length_dw = 1` passes `(length_dw - 2) % 3`, and the timeout and triples are read past the buffer. |

These are out-of-bounds reads driven by an untrusted client (findings 3 and 4
in PROJECT.json). Each has a trace of two or three steps at width 8. The
same values scaled to 32 bits reproduce it.

## Module VtestBusyWait: implicit fences and RESOURCE_BUSY_WAIT

`VtestBusyWait` models the legacy implicit fences:
- `submitted` and `completed` are the two int counters.
- `pending` holds the renderer's unretired fence ids, as uint32_t.
- `waiting` is the client whose BUSY_WAIT loop holds the server thread.

The actions:
- `vtest_submit_cmd` creates a fence (`vtest_create_implicit_fence`).
- `vtest_resource_busy_wait` is the handler up to its loop, and `BusyWaitDone`
  is the loop's exit.
- `Retire(k)` is the renderer retiring k fences with one merged
  `vtest_write_implicit_fence` call.

The counters wrap at W = 3 bits. With up to 3 pending fences and two clients,
both counters pass through the wraparound.

Two properties are checked:
- **`BusyReplyExact`** says the busy flag, computed from the counters, is
  exactly whether a fence is still pending.
- **`BusyWaitReturns`** says a blocking BUSY_WAIT is always answered.

Fairness is weak fairness of renderer retirement and of the loop's exit. The
renderer's fence thread completes what it was given, and the loop re-tests
after every poll. The busy_wait run passes (160 states). The run shows that the
`!=` test survives the int overflow of `implicit_fence_submitted`. It also shows
that while a client blocks the server, no other client can add fences, so the
wait ends.

## Module VtestResource: resources, transfers, protocol version

| Code | Model |
|---|---|
| `renderer.next_resource_id`, `renderer.free_resources` | `nextResourceId`, `freeResources` (head = list head). A struct is named by its `server_res_id`. |
| `res->res_id`, `res->iov` | `resId[s]`; `shm` (the structs whose iov maps a shm object) |
| `ctx->resource_table` | `table`: res_id → struct, or `NoRes` |
| the renderer's resource ids | `live` |
| `ctx->protocol_version` | `protocol` |
| a nonzero handler return, which ends the connection | `failed` |
| the last transfer's return | `last` |

The actions keep the code's names:
- `vtest_create_resource_internal(h, sized, out)` models RESOURCE_CREATE and
  RESOURCE_CREATE2. `out` is the step at which it fails: the renderer's
  create, the protocol ≥ 3 response write, the shm setup, or `vtest_send_fd`.
- `vtest_resource_create_blob(mem, out)` models RESOURCE_CREATE_BLOB for GUEST,
  HOST3D and invalid memory types, with every error path.
- `vtest_resource_unref(h)` models RESOURCE_UNREF, which removes the table entry
  and unrefs through the destroy callback.
- `vtest_protocol_version(v)` models PROTOCOL_VERSION, which may be sent again
  at any time.
- `vtest_transfer(cmd, h, sized, big, inShm, rok)` models the eight transfer
  handlers. `cmd` in `TransferCmds` says which wrapper runs: version 1 or 2,
  GET or PUT, with or without the data (`do`). A version-1 decode with inline
  data whose `data_size` exceeds `max_length` returns `-EINVAL` before any
  lookup. Otherwise the wrapper calls `vtest_transfer_get_internal` or
  `vtest_transfer_put_internal` with the lookup, offset and renderer results.
- `Disconnect(order)` clears the table in any hash order.

After a failure, only `Disconnect` is enabled. The renderer is outside `src/`,
and the model assumes three things of it:
- it refuses to create an id it already has;
- it may fail any call;
- it ignores the unref of an id it does not have.

| Run | cfg | Expect | What it shows |
|---|---|---|---|
| resource_registry | ResourceRegistry.cfg | pass (≈2.2k states) | With server-picked handles (Mesa's behaviour in protocol ≥ 3), 3 structs, protocol versions 0–4 and clients one after another, two properties hold. `ResourceOwnership`: every struct is on the free list or in exactly one table entry. `RendererMatchesTable`: the renderer's resources are exactly the table's, across every error path, unref, teardown order and free-list reuse. |
| handle_collision | HandleCollision.cfg | violation of `RendererMatchesTable` | The sequence is: create two resources, reconnect, create with client handle 1 (which takes struct 2), then create with handle 0. That create takes struct 1, whose server id 1 equals the live handle. The renderer refuses the create, and the error path unrefs the live resource. |
| transfer_result | TransferResult.cfg | violation of `TransferResultExact` | A TRANSFER_GET with inline data whose renderer read fails returns 0, after sending the uninitialised buffer. TRANSFER_PUT_NOP with inline data returns the positive byte count, which ends the connection. |

## Module VtestContext: contexts, protocol version, CONTEXT_INIT

| Code | Model |
|---|---|
| `renderer.multi_clients` | `multiClients` (chosen at start and at each `Restart`) |
| `renderer.next_context_id`, `renderer.free_contexts` | `nextContextId`, `freeContexts` (head = list head). A struct is named by its fixed `ctx_id`. |
| `renderer.active_contexts` | `active` |
| `renderer.current_context` | `current` (`NULL` = none) |
| `ctx->protocol_version`, `ctx->capset_id`, `ctx->context_initialized` | `protocol`, `capset`, `initialized` |
| the renderer's contexts | `rctx[c]`: the capset of the renderer context with id `c`, or `NoCtx` |
| a nonzero handler return, which ends the connection | `failed` |

The actions keep the code's names:
- `vtest_create_context(nameOk)` takes a struct from the free list or mallocs
  one, resets its fields (`vtest_new_context`), and reads the name. A failed
  read puts the struct back. Without `multi_clients`, only one client may be
  connected.
- `vtest_protocol_version(c, v)` negotiates the version. In multi-client mode
  a result below 3 is refused.
- `vtest_context_init(c, cap, rok)` refuses capset 0. On an initialized context
  it succeeds only for the same capset. Otherwise it stores the capset and runs
  the lazy init.
- `vtest_lazy_init_context(c, rok)` is what the server calls before any other
  command. It refuses a version below 3 in multi-client mode, then creates the
  renderer context.
- `vtest_resource_busy_wait(c, handle0)` is the ping check: before init, only
  handle 0 is accepted.
- `vtest_destroy_context(c)` clears `current_context` when it is `c`. It
  destroys the renderer context only if it was initialized, and pushes the
  struct on the free list.
- `Restart(multi)` is `vtest_cleanup_renderer` followed by
  `vtest_init_renderer`.

The renderer is outside `src/`. The model assumes that it refuses a duplicate
context id and that it may fail any create.

Properties:
- `ContextOwnership`: every struct ever allocated is either active or on the
  free list, never both, and never twice on the list. `current` is active or
  NULL.
- `RendererContextsExact`: the renderer has a context for `c` exactly when `c`
  is active and initialized, with the capset the server stored. This breaks if
  a reused struct kept `context_initialized` or if destroy skipped the
  renderer.
- `MultiClientProtocol`: in multi-client mode no initialized context speaks a
  version below 3, across renegotiation after init.

| Run | cfg | Expect | What it shows |
|---|---|---|---|
| context_lifecycle | ContextLifecycle.cfg | pass (≈44k states) | With 3 structs, capsets {0,1,2}, versions {0,2,3} and restarts that flip `multi_clients`, the three properties hold. |

Three structs let a struct be reused while two others are live. Capset 0 and
two real capsets reach the refusal and the "different capset" path. Versions
0, 2 and 3 reach a version below and at the minimum.

## Not modelled yet, and why

- **The transfer bytes and socket I/O failures.** The model keeps what the
  handlers return and which lookups fail. The data itself is only I/O, and a
  failed read or write ends the connection, which is `Disconnect`.
- **The renderer's side of context destroy.** The models assume
  `virgl_renderer_context_destroy` drops the dead context's pending fences, so
  `Disconnect` clears them. Nothing runs between freeing the submits (line 653)
  and that call on the single thread. What the renderer does is code outside
  `src/`.
- **SYNC_READ, the queries and the wire codec.** These change no state, or are
  only I/O.

## Plan

Status after the fourth sitting: all items are done, except the open part of
item 7.

1. VtestSync (done): the timeline core, with refcounts, waits, queues and
   fences.
2. Rollback actions in VtestSync (done): a lookup that fails in the middle of
   a queued batch or a wait. RefcountExact checks them.
3. VtestFrame (done): the 32-bit length arithmetic of SUBMIT_CMD,
   SUBMIT_CMD2 and SYNC_WAIT.
4. VtestResource (done): resource ids from the free list against the client-chosen
   handles of protocol < 3, and the error paths that unref the renderer
   resource. It also covers the transfer lookups.
5. VtestBusyWait (done): the implicit fence counters, SUBMIT_CMD and
   RESOURCE_BUSY_WAIT. VtestContext adds the ping-before-init check.
6. VtestContext (done): protocol version negotiation, CONTEXT_INIT and lazy
   init for several contexts on the shared free list. VtestSync is itself
   multi-context: several clients on one sync pool, with the signal walk over
   every context's waits (`ContextIsolation`). It takes `Disconnect` for the
   destroy; the protocol and capset state of VtestContext does not affect it.
7. SyncTimelines (done): an abstract timeline and sync-queue spec, refined by
   VtestSync via INSTANCE ... WITH on the configuration where each sync-queue
   index is bound to one ring. Still open: an abstract wait spec, where a wait
   is satisfied by reached thresholds. Finding 2 shows that the code does not
   refine it.
