------------------------------ MODULE VtestSync ------------------------------
(***************************************************************************)
(* The timeline-synchronisation core of vtest (src/vtest/vtest_renderer.c):*)
(* the reference-counted vtest_sync timelines of the connected client     *)
(* contexts and the process-wide free list they are recycled through,     *)
(* each context's sync table, its 64 sync queues of                       *)
(* vtest_sync_queue_submit records and its list of vtest_sync_wait        *)
(* records, and the renderer's context fences whose completion callback   *)
(* (vtest_write_context_fence) drains the sync queues.  A signal walks    *)
(* the waits of every active context, in renderer.active_contexts order.  *)
(*                                                                         *)
(* Every command handler and every renderer callback runs to completion   *)
(* on the server's single thread (callbacks are delivered from            *)
(* virgl_renderer_poll between commands), so each is one atomic action.  *)
(* The walk over the wait list in vtest_signal_sync and the walk over a   *)
(* sync queue in vtest_signal_sync_queue are folds over the lists in      *)
(* their code order.                                                      *)
(***************************************************************************)
EXTENDS Naturals, Sequences, SequencesExt, FiniteSets, FiniteSetsExt

CONSTANTS
  Ctxs,          \* the client contexts (several only in multi-client mode)
  MaxSyncs,      \* vtest_sync structs ever malloc'd (bound on next_sync_id)
  Values,        \* timeline values and thresholds the client uses
  WaitSlots,     \* memory for vtest_sync_wait records
  SubmitSlots,   \* memory for vtest_sync_queue_submit records
  QueueIdx,      \* sync_queue_index values, a subset of 0..63
  QueueIds,      \* renderer ring (sync_queue_id) values
  ClientQueues,  \* the <<sync_queue_index, sync_queue_id>> pairs batches use
  MaxWaitSyncs,  \* bound on the sync_count of one VCMD_SYNC_WAIT
  MaxBatchSyncs  \* bound on the sync_count of one VCMD_SUBMIT_CMD2 batch

ASSUME /\ MaxSyncs \in Nat \ {0}
       /\ Values \subseteq Nat /\ 0 \in Values
       /\ QueueIdx \subseteq 0..63
       /\ ClientQueues \subseteq QueueIdx \X QueueIds
       /\ MaxWaitSyncs \in Nat /\ MaxBatchSyncs \in Nat \ {0}

SyncIds == 1..MaxSyncs   \* sync_id is fixed per struct: next_sync_id++
NULL == 0                \* a cleared wait->syncs[i]

VARIABLES
  active,      \* renderer.active_contexts, in list order
  nextSyncId,  \* renderer.next_sync_id
  freeSyncs,   \* renderer.free_syncs, a LIFO list (list_add at the head)
  refcount,    \* sync->refcount
  value,       \* sync->value
  syncTable,   \* per context, the keys of ctx->sync_table (sync_id)
  waitList,    \* per context, ctx->sync_waits in list order
  wait,        \* contents of each vtest_sync_wait record
  fdReady,     \* the wait's eventfd, as the client holds it, has been written
  queues,      \* per context, ctx->sync_queues[i].submits in list order
  submit,      \* contents of each vtest_sync_queue_submit record
  fences       \* renderer: per context and ring, the pending fence cookies

vars == <<active, nextSyncId, freeSyncs, refcount, value, syncTable, waitList, wait,
          fdReady, queues, submit, fences>>

WaitRec == [flags : {"ANY", "ALL"}, syncs : Seq(SyncIds \cup {NULL}),
            values : Seq(Values), signaled : Nat, forever : BOOLEAN,
            expired : BOOLEAN, req : Seq(SyncIds \X Values)]
SubmitRec == [ctx : Ctxs, queue : QueueIdx, syncs : Seq(SyncIds), values : Seq(Values)]

NoWait == [flags |-> "ALL", syncs |-> <<>>, values |-> <<>>, signaled |-> 0,
           forever |-> TRUE, expired |-> FALSE, req |-> <<>>]
NoSubmit == [ctx |-> CHOOSE c \in Ctxs : TRUE,
             queue |-> CHOOSE q \in QueueIdx : TRUE, syncs |-> <<>>,
             values |-> <<>>]

QueuedSubmits == UNION {Range(queues[c][q]) : c \in Ctxs, q \in QueueIdx}
ListedWaits == UNION {Range(waitList[c]) : c \in Ctxs}

(***************************************************************************)
(* The state a handler or callback transforms, as one record so that the  *)
(* loops of the code can be written as folds over it.                     *)
(***************************************************************************)
Sync == [refcount |-> refcount, freeSyncs |-> freeSyncs, value |-> value,
         waitList |-> waitList, wait |-> wait, fdReady |-> fdReady,
         queues |-> queues, submit |-> submit]

SetSync(st) ==
  /\ refcount' = st.refcount  /\ freeSyncs' = st.freeSyncs
  /\ value' = st.value        /\ waitList' = st.waitList
  /\ wait' = st.wait          /\ fdReady' = st.fdReady
  /\ queues' = st.queues      /\ submit' = st.submit

\* vtest_unref_sync: drop one reference; the last one pushes the struct on
\* the head of renderer.free_syncs.
vtest_unref_sync(st, s) ==
  LET rc == st.refcount[s] - 1
  IN [st EXCEPT !.refcount[s] = rc,
                !.freeSyncs = IF rc = 0 THEN <<s>> \o @ ELSE @]

\* vtest_free_sync_wait: unref every slot not yet cleared and close the fd.
\* Nothing reads a freed wait, so its record is forgotten.
vtest_free_sync_wait(st, w) ==
  [FoldLeft(LAMBDA a, s : IF s = NULL THEN a ELSE vtest_unref_sync(a, s),
            st, st.wait[w].syncs)
     EXCEPT !.wait[w] = NoWait]

\* Mutant: the submit is free()d without unreferencing its syncs.
FreeSubmitNoUnref(st, p) ==
  [st EXCEPT !.submit[p].syncs = <<>>, !.submit[p].values = <<>>]

\* vtest_free_sync_queue_submit: unref the first count syncs and free.  A
\* freed submit keeps its sync_queue field: a late fence cookie reads it.
vtest_free_sync_queue_submit(st, p) ==
  [FoldLeft(LAMBDA a, s : vtest_unref_sync(a, s), st, st.submit[p].syncs)
     EXCEPT !.submit[p].syncs = <<>>, !.submit[p].values = <<>>]

\* Mutant: a slot is signalled only once its threshold is passed.
SignalsPast(threshold, v) == threshold < v

\* The slot test of vtest_signal_sync: skip unless threshold <= value.
Signals(threshold, v) == threshold <= v

\* Mutant: a ready wait is unlinked and freed without unreferencing the
\* slots it still holds.
CheckWaitLeak(st, c, w, s, v) ==
  LET rec   == st.wait[w]
      hits  == {i \in DOMAIN rec.syncs : rec.syncs[i] = s /\ Signals(rec.values[i], v)}
      taken == IF rec.flags = "ANY" /\ hits # {} THEN {Min(hits)} ELSE hits
      nsig  == rec.signaled + Cardinality(taken)
      ready == taken # {} /\ (nsig = Len(rec.syncs) \/ rec.flags = "ANY")
      st1   == [FoldSet(LAMBDA i, a : vtest_unref_sync(a, s), st, taken)
                  EXCEPT !.wait[w].syncs =
                           [i \in DOMAIN @ |-> IF i \in taken THEN NULL ELSE @[i]],
                         !.wait[w].signaled = nsig]
      unlink(x) == [x EXCEPT !.waitList[c] = SelectSeq(@, LAMBDA y : y # w)]
  IN IF rec.expired
       THEN vtest_free_sync_wait(unlink(st), w)
     ELSE IF ready
       THEN [unlink(st1) EXCEPT !.fdReady[w] = TRUE, !.wait[w] = NoWait]
     ELSE st1

\* Mutant: the loop skips its garbage-collection test.
CheckWaitNoGC(st, c, w, s, v) ==
  LET rec   == st.wait[w]
      hits  == {i \in DOMAIN rec.syncs : rec.syncs[i] = s /\ Signals(rec.values[i], v)}
      taken == IF rec.flags = "ANY" /\ hits # {} THEN {Min(hits)} ELSE hits
      nsig  == rec.signaled + Cardinality(taken)
      ready == taken # {} /\ (nsig = Len(rec.syncs) \/ rec.flags = "ANY")
      st1   == [FoldSet(LAMBDA i, a : vtest_unref_sync(a, s), st, taken)
                  EXCEPT !.wait[w].syncs =
                           [i \in DOMAIN @ |-> IF i \in taken THEN NULL ELSE @[i]],
                         !.wait[w].signaled = nsig]
      unlink(x) == [x EXCEPT !.waitList[c] = SelectSeq(@, LAMBDA y : y # w)]
  IN IF ready
       THEN vtest_free_sync_wait([unlink(st1) EXCEPT !.fdReady[w] = TRUE], w)
     ELSE st1

\* One iteration of the wait-list loop of vtest_signal_sync for wait w.
CheckWait(st, c, w, s, v) ==
  LET rec   == st.wait[w]
      hits  == {i \in DOMAIN rec.syncs : rec.syncs[i] = s /\ Signals(rec.values[i], v)}
      \* ANY breaks at the first hit; ALL clears every hit
      taken == IF rec.flags = "ANY" /\ hits # {} THEN {Min(hits)} ELSE hits
      nsig  == rec.signaled + Cardinality(taken)
      ready == taken # {} /\ (nsig = Len(rec.syncs) \/ rec.flags = "ANY")
      st1   == [FoldSet(LAMBDA i, a : vtest_unref_sync(a, s), st, taken)
                  EXCEPT !.wait[w].syncs =
                           [i \in DOMAIN @ |-> IF i \in taken THEN NULL ELSE @[i]],
                         !.wait[w].signaled = nsig]
      unlink(x) == [x EXCEPT !.waitList[c] = SelectSeq(@, LAMBDA y : y # w)]
  IN IF rec.expired
       THEN vtest_free_sync_wait(unlink(st), w)          \* garbage collect
     ELSE IF ready
       THEN vtest_free_sync_wait([unlink(st1) EXCEPT !.fdReady[w] = TRUE], w)
     ELSE st1

\* vtest_signal_sync: a value not above the current one is stored without
\* waking anybody; a higher one walks the wait list of every active
\* context, whichever context the signal came from.
vtest_signal_sync(st, s, v) ==
  IF st.value[s] >= v
    THEN [st EXCEPT !.value[s] = v]
    ELSE FoldLeft(LAMBDA a, c :
                    FoldLeft(LAMBDA b, w : CheckWait(b, c, w, s, v), a, a.waitList[c]),
                  [st EXCEPT !.value[s] = v], active)

\* Mutant: the walk ignores to_submit and drains the whole queue.
DrainAll(qs, c) == Len(qs)

\* Mutant: the walk breaks on to_submit before popping it.
DrainBefore(qs, c) ==
  IF c \in Range(qs) THEN SelectInSeq(qs, LAMBDA x : x = c) - 1 ELSE Len(qs)

\* How many submits the walk of vtest_signal_sync_queue pops: those up to
\* and including to_submit, or all when to_submit is not on the queue.
DrainEnd(qs, c) ==
  IF c \in Range(qs) THEN SelectInSeq(qs, LAMBDA x : x = c) ELSE Len(qs)

\* vtest_signal_sync_queue: pop submits from the head of queue q of context
\* x up to and including cookie c, or the whole queue when c is not in it;
\* signal and unref every sync of every popped submit in order.
vtest_signal_sync_queue(st, x, q, c) ==
  LET qs  == st.queues[x][q]
      pos == DrainEnd(qs, c)
      Release(a, p) ==
        [FoldLeft(LAMBDA b, i : vtest_unref_sync(
                                  vtest_signal_sync(b, a.submit[p].syncs[i],
                                                    a.submit[p].values[i]),
                                  a.submit[p].syncs[i]),
                  a, [i \in DOMAIN a.submit[p].syncs |-> i])
           EXCEPT !.submit[p].syncs = <<>>, !.submit[p].values = <<>>]
  IN FoldLeft(Release, [st EXCEPT !.queues[x][q] = SubSeq(qs, pos + 1, Len(qs))],
              SubSeq(qs, 1, pos))

-----------------------------------------------------------------------------
Init ==
  /\ active \in SetToSeqs(Ctxs)
  /\ nextSyncId = 1
  /\ freeSyncs = <<>>
  /\ refcount = [s \in SyncIds |-> 0]
  /\ value = [s \in SyncIds |-> 0]
  /\ syncTable = [c \in Ctxs |-> {}]
  /\ waitList = [c \in Ctxs |-> <<>>]
  /\ wait = [w \in WaitSlots |-> NoWait]
  /\ fdReady = [w \in WaitSlots |-> FALSE]
  /\ queues = [c \in Ctxs |-> [q \in QueueIdx |-> <<>>]]
  /\ submit = [p \in SubmitSlots |-> NoSubmit]
  /\ fences = [c \in Ctxs |-> [r \in QueueIds |-> <<>>]]
\* vtest_new_sync: reuse the head of the free list or malloc a new struct.
NewSyncId == IF freeSyncs # <<>> THEN Head(freeSyncs) ELSE nextSyncId

\* The state a handler of context c leaves alone besides the Sync record.
Frame == <<active, nextSyncId, syncTable, fences>>

\* VCMD_SYNC_CREATE (vtest_sync_create) from context c: the new sync's one
\* reference is the entry of c's sync_table.
SyncCreate(c, v) ==
  /\ freeSyncs # <<>> \/ nextSyncId <= MaxSyncs
  /\ LET s == NewSyncId IN
       /\ IF freeSyncs # <<>>
            THEN freeSyncs' = Tail(freeSyncs) /\ UNCHANGED nextSyncId
            ELSE nextSyncId' = nextSyncId + 1 /\ UNCHANGED freeSyncs
       /\ refcount' = [refcount EXCEPT ![s] = 1]
       /\ value' = [value EXCEPT ![s] = v]
       /\ syncTable' = [syncTable EXCEPT ![c] = @ \cup {s}]
  /\ UNCHANGED <<active, waitList, wait, fdReady, queues, submit, fences>>

\* Mutant: the new sync is dropped without vtest_unref_sync.
SyncCreateFailLeak(c, v) ==
  /\ freeSyncs # <<>> \/ nextSyncId <= MaxSyncs
  /\ LET s == NewSyncId IN
       /\ IF freeSyncs # <<>>
            THEN freeSyncs' = Tail(freeSyncs) /\ UNCHANGED nextSyncId
            ELSE nextSyncId' = nextSyncId + 1 /\ UNCHANGED freeSyncs
       /\ refcount' = [refcount EXCEPT ![s] = 0]
       /\ value' = [value EXCEPT ![s] = v]
  /\ UNCHANGED <<active, syncTable, waitList, wait, fdReady, queues, submit, fences>>

\* VCMD_SYNC_CREATE whose reply (the new id) cannot be written: the new
\* sync's one reference is dropped with vtest_unref_sync, which puts it
\* back on the head of the free list, before the sync_table insert.
SyncCreateFail(c, v) ==
  /\ freeSyncs # <<>> \/ nextSyncId <= MaxSyncs
  /\ LET s    == NewSyncId
         rest == IF freeSyncs # <<>> THEN Tail(freeSyncs) ELSE freeSyncs
     IN /\ nextSyncId' = IF freeSyncs # <<>> THEN nextSyncId ELSE nextSyncId + 1
        /\ refcount' = [refcount EXCEPT ![s] = 0]
        /\ value' = [value EXCEPT ![s] = v]
        /\ freeSyncs' = <<s>> \o rest
  /\ UNCHANGED <<active, syncTable, waitList, wait, fdReady, queues, submit, fences>>

\* Mutant: the sync is unreferenced whether or not the id was in the table.
SyncUnrefUnchecked(c, id) ==
  /\ id < nextSyncId
  /\ syncTable' = [syncTable EXCEPT ![c] = @ \ {id}]
  /\ SetSync(vtest_unref_sync(Sync, id))
  /\ UNCHANGED <<active, nextSyncId, fences>>

\* VCMD_SYNC_UNREF (vtest_sync_unref): remove the entry, whose destroy
\* callback unrefs the sync.
SyncUnref(c, id) ==
  /\ id \in syncTable[c]
  /\ syncTable' = [syncTable EXCEPT ![c] = @ \ {id}]
  /\ SetSync(vtest_unref_sync(Sync, id))
  /\ UNCHANGED <<active, nextSyncId, fences>>

\* VCMD_SYNC_WRITE (vtest_sync_write).
SyncWrite(c, id, v) ==
  /\ id \in syncTable[c]
  /\ SetSync(vtest_signal_sync(Sync, id, v))
  /\ UNCHANGED Frame

\* Mutant: the ids of the request are looked up among the syncs of every
\* context rather than in the context's own sync_table.
SyncWaitAnyTable(c, w, flags, timeout, req, sent) ==
  /\ w \notin ListedWaits
  /\ \A i \in DOMAIN req : req[i][1] \in UNION {syncTable[x] : x \in Ctxs}
  /\ LET pend  == SelectSeq(req, LAMBDA e : value[e[1]] < e[2])
         rec   == [flags |-> flags, req |-> req, signaled |-> 0,
                   syncs |-> [i \in DOMAIN pend |-> pend[i][1]],
                   values |-> [i \in DOMAIN pend |-> pend[i][2]],
                   forever |-> timeout = "infinite", expired |-> FALSE]
         ready == Len(pend) = 0 \/ (flags = "ANY" /\ Len(pend) < Len(req))
     IN /\ fdReady' = [fdReady EXCEPT ![w] = ready]
        /\ IF ready \/ timeout = "zero" \/ ~sent
             THEN UNCHANGED <<refcount, waitList, wait>>
             ELSE /\ refcount' = [s \in SyncIds |->
                                   refcount[s] + Cardinality({i \in DOMAIN rec.syncs :
                                                               rec.syncs[i] = s})]
                  /\ waitList' = [waitList EXCEPT ![c] = Append(@, w)]
                  /\ wait' = [wait EXCEPT ![w] = rec]
  /\ UNCHANGED <<active, nextSyncId, freeSyncs, value, syncTable, queues, submit, fences>>

\* VCMD_SYNC_WAIT (vtest_sync_wait and vtest_sync_wait_init) for a request
\* req of <<sync_id, threshold>> pairs whose ids all resolve in c's
\* sync_table.  Entries already reached are skipped; the rest are
\* referenced.  A wait with nothing left, or an ANY wait with something
\* reached, is written ready at once; it is queued only when it is not
\* ready, timeout # 0 and the reply and the fd were sent (sent); otherwise
\* it is freed.  w is the memory the wait record is malloc'd in.
SyncWait(c, w, flags, timeout, req, sent) ==
  /\ w \notin ListedWaits
  /\ \A i \in DOMAIN req : req[i][1] \in syncTable[c]
  /\ LET pend  == SelectSeq(req, LAMBDA e : value[e[1]] < e[2])
         rec   == [flags |-> flags, req |-> req, signaled |-> 0,
                   syncs |-> [i \in DOMAIN pend |-> pend[i][1]],
                   values |-> [i \in DOMAIN pend |-> pend[i][2]],
                   forever |-> timeout = "infinite", expired |-> FALSE]
         ready == Len(pend) = 0 \/ (flags = "ANY" /\ Len(pend) < Len(req))
     IN /\ fdReady' = [fdReady EXCEPT ![w] = ready]
        /\ IF ready \/ timeout = "zero" \/ ~sent
             THEN UNCHANGED <<refcount, waitList, wait>>  \* referenced, then freed
             ELSE /\ refcount' = [s \in SyncIds |->
                                   refcount[s] + Cardinality({i \in DOMAIN rec.syncs :
                                                               rec.syncs[i] = s})]
                  /\ waitList' = [waitList EXCEPT ![c] = Append(@, w)]
                  /\ wait' = [wait EXCEPT ![w] = rec]
  /\ UNCHANGED <<active, nextSyncId, freeSyncs, value, syncTable, queues, submit, fences>>

\* vtest_ref_sync.
vtest_ref_sync(st, s) == [st EXCEPT !.refcount[s] = @ + 1]

\* Mutant: the half-built wait is dropped without vtest_free_sync_wait.
SyncWaitFailLeak(c, w, prefix) ==
  /\ w \notin ListedWaits
  /\ \A i \in DOMAIN prefix : prefix[i][1] \in syncTable[c]
  /\ LET pend == SelectSeq(prefix, LAMBDA e : value[e[1]] < e[2])
     IN SetSync(FoldLeft(LAMBDA a, e : vtest_ref_sync(a, e[1]), Sync, pend))
  /\ UNCHANGED Frame

\* VCMD_SYNC_WAIT whose request names, after the pairs in prefix, an id the
\* context's sync_table does not hold: vtest_sync_wait_init has referenced
\* the unreached syncs of prefix into the wait and stops at the unknown id;
\* the wait is freed (its references dropped, its eventfd closed, nothing
\* sent) and -EEXIST returned.  The teardown that follows is Disconnect.
SyncWaitFail(c, w, prefix) ==
  /\ w \notin ListedWaits
  /\ \A i \in DOMAIN prefix : prefix[i][1] \in syncTable[c]
  /\ LET pend == SelectSeq(prefix, LAMBDA e : value[e[1]] < e[2])
         st1  == FoldLeft(LAMBDA a, e : vtest_ref_sync(a, e[1]), Sync, pend)
         rec  == [NoWait EXCEPT !.syncs = [i \in DOMAIN pend |-> pend[i][1]],
                                !.values = [i \in DOMAIN pend |-> pend[i][2]]]
     IN SetSync(vtest_free_sync_wait([st1 EXCEPT !.wait[w] = rec], w))
  /\ UNCHANGED Frame

\* The monotonic clock passes a finite wait's valid_before.
Expire(w) ==
  /\ w \in ListedWaits
  /\ ~wait[w].forever /\ ~wait[w].expired
  /\ wait' = [wait EXCEPT ![w].expired = TRUE]
  /\ UNCHANGED <<active, nextSyncId, freeSyncs, refcount, value, syncTable,
                 waitList, fdReady, queues, submit, fences>>

\* One batch of VCMD_SUBMIT_CMD2 (vtest_submit_cmd2_batch) without the
\* SYNC_QUEUE flag: each <<sync_id, value>> is signalled in order.
SubmitBatchNow(c, entries) ==
  /\ \A i \in DOMAIN entries : entries[i][1] \in syncTable[c]
  /\ SetSync(FoldLeft(LAMBDA a, e : vtest_signal_sync(a, e[1], e[2]),
                      Sync, entries))
  /\ UNCHANGED Frame

\* The same with the SYNC_QUEUE flag: a submit holding a reference to each
\* sync is appended to c's queue idx, and a MERGEABLE context fence on c's
\* ring r carries the submit's address as its cookie.
SubmitBatchQueued(c, p, idx, r, entries) ==
  /\ p \notin QueuedSubmits
  /\ \A i \in DOMAIN entries : entries[i][1] \in syncTable[c]
  /\ LET rec == [ctx |-> c, queue |-> idx,
                 syncs |-> [i \in DOMAIN entries |-> entries[i][1]],
                 values |-> [i \in DOMAIN entries |-> entries[i][2]]]
     IN /\ submit' = [submit EXCEPT ![p] = rec]
        /\ refcount' = [s \in SyncIds |->
                          refcount[s] + Cardinality({i \in DOMAIN rec.syncs :
                                                      rec.syncs[i] = s})]
  /\ queues' = [queues EXCEPT ![c][idx] = Append(@, p)]
  /\ fences' = [fences EXCEPT ![c][r] = Append(@, p)]
  /\ UNCHANGED <<active, nextSyncId, freeSyncs, value, syncTable, waitList,
                 wait, fdReady>>

\* One batch without the SYNC_QUEUE flag whose triples name, after the
\* pairs in prefix, an id the sync_table does not hold: the pairs of prefix
\* have been signalled, in order, when the lookup fails and -EEXIST is
\* returned (the renderer already has the commands).
SubmitBatchNowFail(c, prefix) ==
  /\ \A i \in DOMAIN prefix : prefix[i][1] \in syncTable[c]
  /\ SetSync(FoldLeft(LAMBDA a, e : vtest_signal_sync(a, e[1], e[2]),
                      Sync, prefix))
  /\ UNCHANGED Frame

\* Mutant: the partial submit is free()d without dropping its references.
SubmitRollbackFreeOnly(st, p) == FreeSubmitNoUnref(st, p)

\* The rollback of vtest_submit_cmd2_batch: submit->count = i (the slots
\* referenced so far, which the record holds), then
\* vtest_free_sync_queue_submit.
SubmitRollback(st, p) == vtest_free_sync_queue_submit(st, p)

\* The same with the SYNC_QUEUE flag: the submit has referenced the syncs
\* of prefix when the lookup fails; it is rolled back and -EEXIST returned
\* before any fence is created or the submit queued.  With every slot
\* resolved (prefix the whole batch), this is also the batch whose
\* virgl_renderer_context_create_fence fails: the submit is freed with all
\* its references and nothing is queued.
SubmitBatchQueuedFail(c, p, prefix) ==
  /\ p \notin QueuedSubmits
  /\ \A i \in DOMAIN prefix : prefix[i][1] \in syncTable[c]
  /\ LET st1 == FoldLeft(LAMBDA a, e : vtest_ref_sync(a, e[1]), Sync, prefix)
         rec == [submit[p] EXCEPT !.syncs = [i \in DOMAIN prefix |-> prefix[i][1]],
                                  !.values = [i \in DOMAIN prefix |-> prefix[i][2]]]
     IN SetSync(SubmitRollback([st1 EXCEPT !.submit[p] = rec], p))
  /\ UNCHANGED Frame

\* The renderer retires the first k fences of ring r of context c; a
\* MERGEABLE fence reports only the last of them to
\* vtest_write_context_fence, which reads the submit's queue (context and
\* index) from the cookie and drains that queue.
FenceRetire(c, r, k) ==
  /\ k \in 1..Len(fences[c][r])
  /\ LET p == fences[c][r][k]
     IN SetSync(vtest_signal_sync_queue(Sync, submit[p].ctx, submit[p].queue, p))
  /\ fences' = [fences EXCEPT ![c][r] = SubSeq(@, k + 1, Len(@))]
  /\ UNCHANGED <<active, nextSyncId, syncTable>>

\* Client c goes away (or a command fails, which tears the connection
\* down): vtest_destroy_context unlinks the context, frees every submit and
\* every wait, destroys the renderer context (dropping its pending fences)
\* and clears the sync table in its hash order.  The next client's context
\* is added at the tail of renderer.active_contexts with empty lists.
Disconnect(c, order) ==
  LET QueueOrder == SetToSortSeq(QueueIdx, <)
      st1 == FoldLeft(LAMBDA a, q :
                        FoldLeft(LAMBDA b, p : vtest_free_sync_queue_submit(b, p),
                                 a, queues[c][q]),
                      Sync, QueueOrder)
      st2 == FoldLeft(LAMBDA a, w : vtest_free_sync_wait(a, w), st1, waitList[c])
      st3 == FoldLeft(LAMBDA a, s : vtest_unref_sync(a, s), st2, order)
  IN /\ SetSync([st3 EXCEPT !.waitList[c] = <<>>,
                            !.queues[c] = [q \in QueueIdx |-> <<>>]])
     /\ syncTable' = [syncTable EXCEPT ![c] = {}]
     /\ fences' = [fences EXCEPT ![c] = [r \in QueueIds |-> <<>>]]
     /\ active' = Append(SelectSeq(active, LAMBDA x : x # c), c)
     /\ UNCHANGED nextSyncId

-----------------------------------------------------------------------------
Timeouts == {"zero", "finite", "infinite"}
LiveIds == UNION {syncTable[x] : x \in Ctxs}

Next ==
  \/ \E w \in WaitSlots : Expire(w)
  \/ \E c \in Ctxs : \E r \in QueueIds : \E k \in 1..Len(fences[c][r]) : FenceRetire(c, r, k)
  \/ \E c \in Ctxs :
       \/ \E v \in Values : SyncCreate(c, v) \/ SyncCreateFail(c, v)
       \/ \E id \in SyncIds : SyncUnref(c, id)
       \/ \E id \in SyncIds, v \in Values : SyncWrite(c, id, v)
       \* a request may name the live ids of any context; ids of no table
       \* are the lookup failure of SyncWaitFail
       \/ \E w \in WaitSlots, f \in {"ANY", "ALL"}, t \in Timeouts,
             req \in BoundedSeq(LiveIds \X Values, MaxWaitSyncs) :
            \E sent \in BOOLEAN : SyncWait(c, w, f, t, req, sent)
       \/ \E entries \in BoundedSeq(syncTable[c] \X Values, MaxBatchSyncs) \ {<<>>} :
            SubmitBatchNow(c, entries)
       \/ \E p \in SubmitSlots, qr \in ClientQueues,
             entries \in BoundedSeq(syncTable[c] \X Values, MaxBatchSyncs) \ {<<>>} :
            SubmitBatchQueued(c, p, qr[1], qr[2], entries)
       \/ \E w \in WaitSlots, prefix \in BoundedSeq(syncTable[c] \X Values, MaxWaitSyncs - 1) :
            SyncWaitFail(c, w, prefix)
       \/ \E prefix \in BoundedSeq(syncTable[c] \X Values, MaxBatchSyncs) \ {<<>>} :
            SubmitBatchNowFail(c, prefix)
       \/ \E p \in SubmitSlots, prefix \in BoundedSeq(syncTable[c] \X Values, MaxBatchSyncs) :
            SubmitBatchQueuedFail(c, p, prefix)
       \/ \E order \in SetToSeqs(syncTable[c]) : Disconnect(c, order)

\* The renderer eventually retires the work submitted on every ring of
\* every context: weak fairness of FenceRetire on each ring, written out
\* with its enabling condition (FenceRetire(c, r, k) is enabled exactly
\* when the ring has a pending fence) so that TLC need not compute ENABLED
\* of the folds.
RetireOn(c, r) == \E k \in 1..Len(fences[c][r]) : FenceRetire(c, r, k)
Fairness == \A c \in Ctxs : \A r \in QueueIds :
              []<>(fences[c][r] = <<>>) \/ []<><<RetireOn(c, r)>>_vars

Spec == Init /\ [][Next]_vars
FairSpec == Spec /\ Fairness
-----------------------------------------------------------------------------
(***************************************************************************)
(* Properties.                                                             *)
(***************************************************************************)
Occurrences(seq, x) == Cardinality({i \in DOMAIN seq : seq[i] = x})

TypeOK ==
  /\ active \in SetToSeqs(Ctxs)
  /\ nextSyncId \in 1..MaxSyncs + 1
  /\ freeSyncs \in Seq(SyncIds)
  /\ refcount \in [SyncIds -> Nat]
  /\ value \in [SyncIds -> Values]
  /\ syncTable \in [Ctxs -> SUBSET (1..nextSyncId - 1)]
  /\ waitList \in [Ctxs -> Seq(WaitSlots)]
  /\ wait \in [WaitSlots -> WaitRec]
  /\ fdReady \in [WaitSlots -> BOOLEAN]
  /\ queues \in [Ctxs -> [QueueIdx -> Seq(SubmitSlots)]]
  /\ submit \in [SubmitSlots -> SubmitRec]
  /\ fences \in [Ctxs -> [QueueIds -> Seq(SubmitSlots)]]

\* The references a sync should have: its sync_table entries, one per slot
\* of a queued submit and one per uncleared slot of a listed wait.
RefsHeld(s) ==
  Cardinality({c \in Ctxs : s \in syncTable[c]})
  + MapThenSumSet(LAMBDA p : Occurrences(submit[p].syncs, s), QueuedSubmits)
  + MapThenSumSet(LAMBDA w : Occurrences(wait[w].syncs, s), ListedWaits)

\* Reference counting of vtest_sync across sync_table removal, queue
\* drains, wait wake-ups, garbage collection of expired waits and context
\* teardown: every allocated sync's refcount equals the references held on
\* it, it is on renderer.free_syncs exactly when that count is zero, and
\* no struct is on the free list twice (it would be handed out twice).
RefcountExact ==
  /\ \A s \in 1..nextSyncId - 1 :
       /\ refcount[s] = RefsHeld(s)
       /\ (refcount[s] = 0) <=> s \in Range(freeSyncs)
  /\ IsInjective(freeSyncs)

\* No missed wake-up in vtest_signal_sync / vtest_sync_wait_init: a wait on
\* the context's list never holds an uncleared slot whose threshold its
\* timeline has already reached (whatever order writes, queue drains and
\* registrations happened in).
NoMissedWakeup ==
  \A w \in ListedWaits : \A i \in DOMAIN wait[w].syncs :
    wait[w].syncs[i] # NULL => value[wait[w].syncs[i]] < wait[w].values[i]

\* A queued submit's timeline values are applied only after the renderer
\* has retired its fence (spec 4.4: writes gated on GPU completion): every
\* cookie of a fence still pending in the renderer names a submit that is
\* still on the sync queue it was appended to.
NoEarlySignal ==
  \A x \in Ctxs, r \in QueueIds : \A c \in Range(fences[x][r]) :
    c \in Range(queues[submit[c].ctx][submit[c].queue])

\* The wait condition of request rec holds for the timeline values val.
Reached(rec, val) ==
  LET met == {i \in DOMAIN rec.req : val[rec.req[i][1]] >= rec.req[i][2]}
  IN IF rec.flags = "ANY" THEN met # {} \/ rec.req = <<>>
                          ELSE met = DOMAIN rec.req

\* Spec 8: when vtest_signal_sync wakes a listed wait (write_ready makes
\* its eventfd readable), every <<sync, threshold>> of the request is
\* reached (ALL) or one is (ANY) at that moment.
WaitNotifySound ==
  [][\A w \in ListedWaits : fdReady'[w] => Reached(wait[w], value')]_vars

\* Expired waits are collected only by a walk of vtest_signal_sync, which
\* runs when a SYNC_WRITE or a drained batch raises a timeline: after any
\* step that raises the value of a live sync (one with references; a new
\* sync's initial value is no signal), no wait on the list has expired
\* (the walk reaches every wait, also those on no signalled timeline and
\* those behind a wait it wakes and frees).
ExpiredCollected ==
  [][(\E s \in SyncIds : refcount[s] > 0 /\ value'[s] > value[s]) =>
       \A c \in Ctxs : \A w \in Range(waitList'[c]) : ~wait'[w].expired]_vars

\* Every submit put on a sync queue is eventually taken off it again, by
\* the callback of its own fence or of a later one on its queue, or by
\* context teardown.
SubmitReleased ==
  \A p \in SubmitSlots : p \in QueuedSubmits ~> p \notin QueuedSubmits

\* The syncs context c holds: its sync_table, the slots of its queued
\* submits and the uncleared slots of its listed waits.
HeldBy(c) ==
  syncTable[c]
  \cup UNION {Range(submit[p].syncs) : p \in UNION {Range(queues[c][q]) : q \in QueueIdx}}
  \cup UNION {Range(wait[w].syncs) \ {NULL} : w \in Range(waitList[c])}

\* Clients are isolated although sync structs and ids are recycled through
\* one process-wide free list and a signal from one context walks (and
\* garbage-collects) the waits of every other: no sync is held by two
\* contexts at once, so no client can write, wait on or be woken by
\* another client's timeline.
ContextIsolation ==
  \A c, d \in Ctxs : c # d => HeldBy(c) \cap HeldBy(d) = {}
=============================================================================
