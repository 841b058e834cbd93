---------------------------- MODULE VtestResource ----------------------------
(***************************************************************************)
(* The resource registry of vtest (src/vtest/vtest_renderer.c): the        *)
(* vtest_resource structs, recycled through the process-wide list         *)
(* renderer.free_resources with the server_res_id each got when it was    *)
(* malloc'd; the context's resource_table, keyed by res_id (the client's   *)
(* handle in protocol < 3, else the server_res_id); and the renderer's    *)
(* resource namespace, into which res_id is passed.  The handlers that     *)
(* change them: PROTOCOL_VERSION, RESOURCE_CREATE / CREATE2 (through       *)
(* vtest_create_resource_internal), RESOURCE_CREATE_BLOB, RESOURCE_UNREF,  *)
(* the TRANSFER_GET / PUT family, and context teardown.                    *)
(*                                                                         *)
(* A handler that returns nonzero makes the server drop the connection:   *)
(* "failed" is set and the only step left is the teardown.  The renderer  *)
(* is outside src/: it refuses to create an id it already has, may fail   *)
(* any call (the outcome inputs), and ignores the unref of an id it does  *)
(* not have.  Data (formats, boxes, bytes) is abstracted to what decides  *)
(* the control flow: data_size zero or not, offset within the shm or not. *)
(* A struct is named by its server_res_id, fixed when it is malloc'd.      *)
(***************************************************************************)
EXTENDS Naturals, Sequences, SequencesExt, FiniteSets

CONSTANTS
  MaxResources,  \* vtest_resource structs ever malloc'd (bound on next_resource_id)
  Handles,       \* handles the client puts in RESOURCE_CREATE(2) (0: let the server pick)
  Versions,      \* versions the client sends in PROTOCOL_VERSION
  MultiClients,  \* renderer.multi_clients
  ShmSupported   \* the result of vtest_shm_check()

ASSUME /\ MaxResources \in Nat \ {0} /\ Handles \subseteq Nat /\ 0 \in Handles
       /\ Versions \subseteq Nat /\ MultiClients \in BOOLEAN
       /\ ShmSupported \in BOOLEAN

VTEST_PROTOCOL_VERSION == 3
ServerIds == 1..MaxResources                \* server_res_id, one per struct
Keys == (Handles \ {0}) \cup ServerIds      \* the res_id values that occur
NoRes == 0                                  \* util_hash_table_get returned NULL
Rets == {"zero", "neg", "pos"}              \* sign of a handler's return value
NoReply == [op |-> "none", rfail |-> FALSE, ret |-> "zero"]

VARIABLES
  nextResourceId, \* renderer.next_resource_id
  freeResources,  \* renderer.free_resources, LIFO (list_add at the head)
  resId,          \* res->res_id of each struct
  shm,            \* structs whose iov maps a shm object (iov_base != NULL)
  table,          \* ctx->resource_table: res_id -> struct, or NoRes
  live,           \* ids of the renderer's resources
  protocol,       \* ctx->protocol_version
  failed,         \* the last handler returned nonzero: the connection ends
  last            \* the last transfer: which, a renderer failure, its return

vars == <<nextResourceId, freeResources, resId, shm, table, live, protocol,
          failed, last>>

\* The state the registry functions transform, as one record.
Res == [next |-> nextResourceId, free |-> freeResources, resId |-> resId,
        shm |-> shm, table |-> table, live |-> live]

SetRes(st) ==
  /\ nextResourceId' = st.next  /\ freeResources' = st.free
  /\ resId' = st.resId          /\ shm' = st.shm
  /\ table' = st.table          /\ live' = st.live

Init ==
  /\ nextResourceId = 1
  /\ freeResources = <<>>
  /\ resId = [s \in ServerIds |-> 0]
  /\ shm = {}
  /\ table = [k \in Keys |-> NoRes]
  /\ live = {}
  /\ protocol = 0
  /\ failed = FALSE
  /\ last = NoReply

\* The struct vtest_new_resource returns: the head of the free list, or a
\* new one numbered renderer.next_resource_id.
NewRes(st) == IF st.free # <<>> THEN Head(st.free) ELSE st.next
CanAlloc == freeResources # <<>> \/ nextResourceId <= MaxResources

\* Mutant: the struct is taken from the free list without list_del.
NewResourceNoDel(st, h) ==
  LET s == NewRes(st)
  IN [st EXCEPT !.next = IF st.free # <<>> THEN @ ELSE @ + 1,
                !.resId[s] = IF h # 0 THEN h ELSE s, !.shm = @ \ {s}]

\* vtest_new_resource(client_res_id).
vtest_new_resource(st, h) ==
  LET s == NewRes(st)
  IN [st EXCEPT !.free = IF @ # <<>> THEN Tail(@) ELSE @,
                !.next = IF st.free # <<>> THEN @ ELSE @ + 1,
                !.resId[s] = IF h # 0 THEN h ELSE s, !.shm = @ \ {s}]

\* vtest_unref_resource: the renderer drops res_id, the shm is unmapped and
\* the struct goes on the head of the free list.
vtest_unref_resource(st, s) ==
  [st EXCEPT !.live = @ \ {st.resId[s]}, !.shm = @ \ {s}, !.free = <<s>> \o @]

\* A handler's nonzero return: the connection ends.
Fail == failed' = TRUE

\* Mutant: a failure after the renderer created the resource returns without
\* vtest_unref_resource.
CreateUnwindNoUnref(st, s, created) ==
  IF created THEN [st EXCEPT !.shm = @ \ {s}, !.free = <<s>> \o @]
             ELSE vtest_unref_resource(st, s)

\* The error paths of the create handlers after vtest_new_resource: every
\* one calls vtest_unref_resource, whether or not the renderer created it.
CreateUnwind(st, s, created) == vtest_unref_resource(st, s)

\* VCMD_RESOURCE_CREATE (sized = FALSE) and VCMD_RESOURCE_CREATE2 with a
\* nonzero shm size (sized = TRUE), after the arguments are decoded:
\* vtest_create_resource_internal with handle h.  out is where it fails.
vtest_create_resource_internal(h, sized, out) ==
  /\ ~failed
  /\ IF protocol >= 3 /\ h # 0 THEN Fail /\ UNCHANGED <<nextResourceId,
                                     freeResources, resId, shm, table, live>>
     ELSE IF protocol < 3 /\ h # 0 /\ table[h] # NoRes
       THEN Fail /\ UNCHANGED <<nextResourceId, freeResources, resId, shm,
                                table, live>>
     ELSE
       LET s   == NewRes(Res)
           st1 == vtest_new_resource(Res, h)
           id  == st1.resId[s]
           st2 == [st1 EXCEPT !.live = @ \cup {id}]
       IN /\ CanAlloc
          /\ id \in live => out = "render_fail"
          /\ out = "write_fail" => protocol >= 3
          /\ out \in {"shm_fail", "send_fail"} => sized
          /\ CASE out = "render_fail" -> SetRes(CreateUnwind(st1, s, FALSE)) /\ Fail
               [] out \in {"write_fail", "shm_fail"} ->
                    SetRes(CreateUnwind(st2, s, TRUE)) /\ Fail
               [] out = "send_fail" ->
                    SetRes(CreateUnwind([st2 EXCEPT !.shm = @ \cup {s}], s, TRUE))
                    /\ Fail
               [] out = "ok" ->
                    SetRes([st2 EXCEPT !.shm = IF sized THEN @ \cup {s} ELSE @,
                                       !.table[id] = s])
                    /\ UNCHANGED failed
  /\ UNCHANGED <<protocol, last>>

CreateOutcomes == {"ok", "render_fail", "write_fail", "shm_fail", "send_fail"}

\* VCMD_RESOURCE_CREATE_BLOB of memory type mem: the struct takes its
\* server_res_id (no check against the table); a GUEST blob is backed by a
\* new shm, a HOST3D one is exported by the renderer.  out is where it fails.
vtest_resource_create_blob(mem, out) ==
  LET s   == NewRes(Res)
      st1 == vtest_new_resource(Res, 0)
      id  == st1.resId[s]
      st2 == [st1 EXCEPT !.live = @ \cup {id},
                         !.shm = IF mem = "guest" THEN @ \cup {s} ELSE @]
  IN
  /\ ~failed
  /\ CanAlloc
  /\ mem = "bad" => out = "bad_type"
  /\ out = "bad_type" => mem = "bad"
  /\ out = "shm_fail" => mem = "guest"
  /\ out \in {"export_fail", "fd_type"} => mem = "host3d"
  /\ id \in live /\ mem # "bad" /\ out # "shm_fail" => out = "render_fail"
  /\ CASE out \in {"bad_type", "shm_fail"} ->
            SetRes(CreateUnwind(st1, s, FALSE)) /\ Fail
       [] out = "render_fail" ->
            SetRes(CreateUnwind([st1 EXCEPT !.shm = st2.shm], s, FALSE)) /\ Fail
       [] out \in {"export_fail", "fd_type", "write_fail", "send_fail"} ->
            SetRes(CreateUnwind(st2, s, TRUE)) /\ Fail
       [] out = "ok" ->
            SetRes([st2 EXCEPT !.table[id] = s]) /\ UNCHANGED failed
  /\ UNCHANGED <<protocol, last>>

BlobOutcomes == {"ok", "bad_type", "shm_fail", "render_fail", "export_fail",
                 "fd_type", "write_fail", "send_fail"}

\* VCMD_RESOURCE_UNREF (vtest_resource_unref): util_hash_table_remove,
\* whose destroy callback (resource_destroy_func) unrefs the struct.
vtest_resource_unref(h) ==
  /\ ~failed
  /\ IF table[h] # NoRes
       THEN SetRes([vtest_unref_resource(Res, table[h]) EXCEPT !.table[h] = NoRes])
       ELSE UNCHANGED <<nextResourceId, freeResources, resId, shm, table, live>>
  /\ UNCHANGED <<protocol, failed, last>>
\* VCMD_PROTOCOL_VERSION (vtest_protocol_version) with version v from the
\* client: the server answers MIN2(v, VTEST_PROTOCOL_VERSION), 1 falling
\* back to 0, anything falling back to 0 without shm; a multi-client server
\* refuses a result below 3.  It may be sent at any time.
vtest_protocol_version(v) ==
  LET m   == IF v < VTEST_PROTOCOL_VERSION THEN v ELSE VTEST_PROTOCOL_VERSION
      ver == IF m = 1 \/ ~ShmSupported THEN 0 ELSE m
  IN /\ ~failed
     /\ IF MultiClients /\ ver < 3
          THEN Fail /\ UNCHANGED protocol
          ELSE protocol' = ver /\ UNCHANGED failed
     /\ UNCHANGED <<nextResourceId, freeResources, resId, shm, table, live, last>>

\* The return of a transfer handler, and the connection ending on nonzero.
Return(op, rfail, ret) ==
  /\ last' = [op |-> op, rfail |-> rfail, ret |-> ret]
  /\ failed' = (ret # "zero")

\* vtest_transfer_get_internal for TRANSFER_GET (v1, sized = data_size # 0),
\* TRANSFER_GET2 (sized = FALSE) and their _NOP forms (do = FALSE).  The
\* resource is looked up by handle h; with no inline data the offset must
\* fall inside the shm (inShm); the renderer's read may fail (rok).  The
\* inline data, when there is some, is written back and ret becomes 0.
vtest_transfer_get_internal(h, sized, inShm, do, rok) ==
  LET s     == table[h]
      rfail == do /\ ~(rok /\ resId[s] \in live)
  IN
  /\ ~failed
  /\ ~do => rok
  /\ sized => inShm
  /\ CASE s = NoRes -> Return("lookup", FALSE, "neg")
       [] ~sized /\ ~(s \in shm /\ inShm) -> Return("offset", FALSE, "neg")
       [] sized -> Return(IF do THEN "get" ELSE "get_nop", rfail, "zero")
       [] OTHER -> Return(IF do THEN "get" ELSE "get_nop", rfail,
                          IF rfail THEN "neg" ELSE "zero")
  /\ UNCHANGED <<nextResourceId, freeResources, resId, shm, table, live, protocol>>

\* vtest_transfer_put_internal for TRANSFER_PUT (v1) and TRANSFER_PUT2 and
\* their _NOP forms.  With inline data, ret is first the byte count the
\* read returned; the renderer's write, when made, overwrites it.
vtest_transfer_put_internal(h, sized, do, rok) ==
  LET s     == table[h]
      rfail == do /\ ~(rok /\ resId[s] \in live)
  IN
  /\ ~failed
  /\ ~do => rok
  /\ CASE s = NoRes -> Return("lookup", FALSE, "neg")
       [] do  -> Return("put", rfail, IF rfail THEN "neg" ELSE "zero")
       [] OTHER -> Return("put_nop", FALSE, IF sized THEN "pos" ELSE "zero")
  /\ UNCHANGED <<nextResourceId, freeResources, resId, shm, table, live, protocol>>

\* The eight transfer commands: TRANSFER_GET / PUT (v1, decoded by
\* vtest_transfer_decode_args, with inline data_size) and TRANSFER_GET2 /
\* PUT2 (vtest_transfer_decode_args2, data in the shm, data_size 0), each
\* also as a _NOP form that skips the renderer.
TransferCmds == [v1 : BOOLEAN, get : BOOLEAN, do : BOOLEAN]

\* A transfer command: a v1 header whose data_size exceeds
\* renderer.max_length (big) is refused with -ENOMEM before any lookup;
\* otherwise the command's internal function runs.
vtest_transfer(cmd, h, sized, big, inShm, rok) ==
  \/ /\ cmd.v1 /\ sized /\ big
     /\ ~failed
     /\ Return("decode", FALSE, "neg")
     /\ UNCHANGED <<nextResourceId, freeResources, resId, shm, table, live, protocol>>
  \/ /\ ~big
     /\ IF cmd.get
          THEN vtest_transfer_get_internal(h, cmd.v1 /\ sized, inShm, cmd.do, rok)
          ELSE vtest_transfer_put_internal(h, cmd.v1 /\ sized, cmd.do, rok)

\* The connection ends (the client leaves, or a handler failed):
\* vtest_destroy_context clears the resource_table, whose destroy callback
\* unrefs every struct in the table's iteration order; the context struct
\* is reused by the next client, whose protocol_version starts at 0.
Disconnect(order) ==
  /\ SetRes([FoldLeft(LAMBDA a, k : vtest_unref_resource(a, table[k]), Res, order)
               EXCEPT !.table = [k \in Keys |-> NoRes]])
  /\ protocol' = 0
  /\ failed' = FALSE
  /\ last' = NoReply

Next ==
  \/ \E h \in Handles, sized \in BOOLEAN, out \in CreateOutcomes :
       vtest_create_resource_internal(h, sized, out)
  \/ \E mem \in {"guest", "host3d", "bad"}, out \in BlobOutcomes :
       vtest_resource_create_blob(mem, out)
  \/ \E h \in Keys : vtest_resource_unref(h)
  \/ \E v \in Versions : vtest_protocol_version(v)
  \/ \E cmd \in TransferCmds, h \in Keys, sized, big, inShm, rok \in BOOLEAN :
       vtest_transfer(cmd, h, sized, big, inShm, rok)
  \/ \E order \in SetToSeqs({k \in Keys : table[k] # NoRes}) : Disconnect(order)

Spec == Init /\ [][Next]_vars
-----------------------------------------------------------------------------
(***************************************************************************)
(* Properties.                                                             *)
(***************************************************************************)
\* Every vtest_resource struct ever malloc'd is, between handlers, either
\* on renderer.free_resources (once) or the value of exactly one
\* resource_table entry, across creation error paths, RESOURCE_UNREF,
\* teardown in hash order and reuse by later clients: none is lost and
\* none is handed out twice.
ResourceOwnership ==
  /\ IsInjective(freeResources)
  /\ \A s \in 1..nextResourceId - 1 :
       Cardinality({k \in Keys : table[k] = s})
         + (IF s \in Range(freeResources) THEN 1 ELSE 0) = 1

\* The renderer's resources are exactly those of the resource_table
\* entries, each under the key it is known by (spec 4.2: lookup(handle)
\* finds the resource the renderer holds under that id): no error path of
\* RESOURCE_CREATE(2) or CREATE_BLOB leaks a renderer resource, and none
\* unrefs one that an entry still names.
RendererMatchesTable ==
  /\ \A k \in Keys : table[k] # NoRes => resId[table[k]] = k
  /\ live = {k \in Keys : table[k] # NoRes}

\* A transfer handler's return tells the dispatcher whether the transfer
\* was made: it is zero exactly when data_size was within max_length, the
\* handle was found, the offset fitted and the renderer call, if one was
\* made, succeeded (spec 7:
\* renderer failures are converted to Invalid; spec 6: the nop forms skip
\* the renderer but still move the bytes, for benchmarking).
TransferResultExact ==
  last.op # "none" =>
    ((last.ret = "zero") <=> (last.op \notin {"decode", "lookup", "offset"} /\ ~last.rfail))
====
