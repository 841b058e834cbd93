---------------------------- MODULE SyncTimelines ----------------------------
(***************************************************************************)
(* What the timeline store and the sync queues of vtest promise (spec     *)
(* sections 4.3 and 4.4), without the reference counts, free lists, wait  *)
(* lists and cookies that implement it.  A context has timelines with     *)
(* values; the client writes them directly, or attaches <<timeline,       *)
(* value>> signals to a batch that is put on a sync queue and whose fence *)
(* goes to a renderer ring.  When the renderer retires fences, the queue  *)
(* of the last one retired is drained in FIFO order up to and including   *)
(* that batch, and the signals of every drained batch are applied in      *)
(* order.  A timeline is created only under an id that no live timeline   *)
(* and no pending batch uses.  Teardown forgets every timeline and batch. *)
(*                                                                         *)
(* VtestSync implements this specification; MCVtestSync holds the        *)
(* refinement mapping.                                                     *)
(***************************************************************************)
EXTENDS Sequences, SequencesExt, FiniteSets

CONSTANTS
  SyncIds,     \* timeline ids
  Values,      \* timeline values
  QueueIdx,    \* sync queues
  QueueIds,    \* renderer rings
  Batches,     \* batch identities (a batch's id is free again once drained)
  MaxSignals   \* the most signals one batch carries

VARIABLES
  val,   \* the value of each timeline id
  tab,   \* the ids of the context's live timelines
  pend,  \* per sync queue, the batches not yet applied, oldest first
  ring   \* per renderer ring, the batches whose fence is pending, in order

avars == <<val, tab, pend, ring>>

\* A batch: its identity and its signals, in the order they are applied.
Signals == BoundedSeq(SyncIds \X Values, MaxSignals)
Batch == [id : Batches, sigs : Signals]

PendingIds == UNION {{pend[q][i].id : i \in DOMAIN pend[q]} : q \in QueueIdx}

\* The ids a pending batch will write.
Targets == UNION {UNION {{pend[q][i].sigs[j][1] : j \in DOMAIN pend[q][i].sigs} :
                           i \in DOMAIN pend[q]} : q \in QueueIdx}

\* The timeline values after the signals sigs are applied in order.
Apply(v, sigs) == FoldLeft(LAMBDA f, e : [f EXCEPT ![e[1]] = e[2]], v, sigs)

Init ==
  /\ val = [s \in SyncIds |-> 0]
  /\ tab = {}
  /\ pend = [q \in QueueIdx |-> <<>>]
  /\ ring = [r \in QueueIds |-> <<>>]

Create(s, v) ==
  /\ s \notin tab \cup Targets
  /\ tab' = tab \cup {s}
  /\ val' = [val EXCEPT ![s] = v]
  /\ UNCHANGED <<pend, ring>>

\* A sync outside the table that no pending batch writes holds a value
\* nobody can read; it may be overwritten (a create that fails after
\* setting the initial value).
Overwrite(s, v) ==
  /\ s \notin tab \cup Targets
  /\ val' = [val EXCEPT ![s] = v]
  /\ UNCHANGED <<tab, pend, ring>>

Destroy(s) ==
  /\ s \in tab
  /\ tab' = tab \ {s}
  /\ UNCHANGED <<val, pend, ring>>

\* SYNC_WRITE, or a batch signalled without a queue (several signals).
Signal(sigs) ==
  /\ \A j \in DOMAIN sigs : sigs[j][1] \in tab
  /\ val' = Apply(val, sigs)
  /\ UNCHANGED <<tab, pend, ring>>

Enqueue(q, r, b) ==
  /\ b.id \notin PendingIds
  /\ \A j \in DOMAIN b.sigs : b.sigs[j][1] \in tab
  /\ pend' = [pend EXCEPT ![q] = Append(@, b)]
  /\ ring' = [ring EXCEPT ![r] = Append(@, b.id)]
  /\ UNCHANGED <<val, tab>>

\* The renderer retires the first k fences of ring r; the queue holding the
\* k-th batch is drained up to and including it.
Complete(r, k) ==
  /\ k \in 1..Len(ring[r])
  /\ \E q \in QueueIdx : \E n \in DOMAIN pend[q] :
       /\ pend[q][n].id = ring[r][k]
       /\ val' = FoldLeft(LAMBDA f, b : Apply(f, b.sigs), val, SubSeq(pend[q], 1, n))
       /\ pend' = [pend EXCEPT ![q] = SubSeq(@, n + 1, Len(@))]
  /\ ring' = [ring EXCEPT ![r] = SubSeq(@, k + 1, Len(@))]
  /\ UNCHANGED tab

Teardown ==
  /\ tab' = {}
  /\ pend' = [q \in QueueIdx |-> <<>>]
  /\ ring' = [r \in QueueIds |-> <<>>]
  /\ UNCHANGED val

Next ==
  \/ \E s \in SyncIds, v \in Values : Create(s, v) \/ Overwrite(s, v) \/ Destroy(s)
  \/ \E sigs \in Signals : Signal(sigs)
  \/ \E q \in QueueIdx, r \in QueueIds, b \in Batch : Enqueue(q, r, b)
  \/ \E r \in QueueIds : \E k \in 1..Len(ring[r]) : Complete(r, k)
  \/ Teardown

Spec == Init /\ [][Next]_avars
====
