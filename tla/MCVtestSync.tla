---------------------------- MODULE MCVtestSync ----------------------------
(***************************************************************************)
(* Model-checking instances of VtestSync.  Timelines are vtest_sync ids   *)
(* 1..MaxSyncs, values 0..1 (enough for a threshold to be reached, and   *)
(* for a write to lower a timeline); rings are model values.             *)
(***************************************************************************)
EXTENDS VtestSync, TLC

CONSTANTS ra, rb   \* renderer rings (sync_queue_id values)
CONSTANTS c1, c2   \* client contexts

MCOneCtx == {c1}
MCTwoCtxs == {c1, c2}

\* Contexts are interchangeable: nothing in the code depends on which
\* context struct a client has.
CtxSymmetry == Permutations(Ctxs)

MCTwoRings == {ra, rb}
MCOneRing == {ra}

\* One sync queue on one ring.
MCOneQueue == {<<0, ra>>}

\* Each sync_queue_index paired with its own ring, as Mesa's clients do.
MCOneRingPerQueue == {<<0, ra>>, <<1, rb>>}

\* One sync_queue_index used with two rings: nothing in
\* vtest_submit_cmd2_batch rejects it.
MCSharedQueue == {<<0, ra>>, <<0, rb>>}

(***************************************************************************)
(* The refinement of SyncTimelines, one instance per context c: the      *)
(* timeline values and c's sync table are the abstract ones, a queued     *)
(* submit is the batch of its <<sync, value>> slots, and the renderer's   *)
(* pending cookies per ring of c are the batches whose fence is pending.  *)
(* Reference counts, the free list, waits, the wait fds and the other     *)
(* contexts are hidden: their steps change only timelines c does not hold.*)
(***************************************************************************)
AbsBatch(p) == [id |-> p, sigs |-> [j \in DOMAIN submit[p].syncs |->
                                     <<submit[p].syncs[j], submit[p].values[j]>>]]

Abs(c) == INSTANCE SyncTimelines WITH
         val <- value, tab <- syncTable[c], ring <- fences[c],
         Batches <- SubmitSlots, MaxSignals <- MaxBatchSyncs,
         pend <- [q \in QueueIdx |-> [i \in DOMAIN queues[c][q] |->
                                        AbsBatch(queues[c][q][i])]]

\* VtestSync implements SyncTimelines: whatever the handlers and fence
\* callbacks do to reference counts, free lists and waits, the timeline
\* values change only by writes and by draining each sync queue in FIFO
\* order up to the batch whose fence retired, and a recycled sync id is
\* never one a pending batch still writes.
\* (Abs(c)!Spec for every c, written as one initial predicate and one
\* action property so that TLC can check the conjunction over Ctxs.)
QueueRefinement ==
  /\ \A c \in Ctxs : Abs(c)!Init
  /\ [][\A c \in Ctxs : [Abs(c)!Next]_(Abs(c)!avars)]_vars
=============================================================================
