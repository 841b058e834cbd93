----------------------------- MODULE VtestFrame -----------------------------
(***************************************************************************)
(* The length and offset checks with which vtest accepts a command frame  *)
(* (src/vtest/vtest_renderer.c): VCMD_SUBMIT_CMD, VCMD_SUBMIT_CMD2 and    *)
(* VCMD_SYNC_WAIT each compare length_dw with renderer.max_length, malloc *)
(* length_dw * 4 bytes, read the payload and then index it with words     *)
(* the client chose.  The checks are written in uint32_t arithmetic.      *)
(*                                                                         *)
(* The model keeps that arithmetic at a width of W bits in place of 32    *)
(* (U below), W even so that 2^W - 1 is, like 2^32 - 1, a multiple of 3.  *)
(* Pointer arithmetic on the payload (&buf[offset], syncs + 3 * i) is not *)
(* wrapped: it is done in 64-bit addresses.  reach records, per kind of   *)
(* read, one past the highest payload word the command has read; the     *)
(* properties compare it with length_dw.  Word values the client sends   *)
(* are drawn from Words; a word read past the payload is just as          *)
(* arbitrary.                                                              *)
(*                                                                         *)
(* Handlers run on the single server thread; the SUBMIT_CMD2 loop takes  *)
(* one step per batch.  A check that fails returns an error and the       *)
(* connection is torn down, which leaves nothing of interest here, so the *)
(* model returns to "idle".                                              *)
(***************************************************************************)
EXTENDS Naturals

CONSTANTS
  W,           \* width standing for the 32 bits of uint32_t
  MaxLengths,  \* values renderer.max_length can be given
  Words,       \* values of the payload words the model enumerates
  Lengths,     \* length_dw values the model enumerates
  MaxBatchSteps \* bound on the SUBMIT_CMD2 loop iterations explored

ASSUME /\ W \in Nat /\ W >= 8 /\ W % 2 = 0
       /\ MaxLengths \subseteq 0..(2^W - 1)
       /\ Words \subseteq 0..(2^W - 1) /\ 0 \in Words
       /\ Lengths \subseteq 0..(2^W - 1) /\ MaxBatchSteps \in Nat

UINT_MAX == 2^W - 1
U(x) == x % 2^W                  \* uint32_t arithmetic, at width W
VTEST_MAX_SYNC_QUEUE_COUNT == 64

\* Word index of batch_count in the SUBMIT_CMD2 payload.
VCMD_SUBMIT_CMD2_BATCH_COUNT == 0

\* Word index of field k of SUBMIT_CMD2 batch i: the payload is
\* batch_count followed by 8-word batch entries (VCMD_SUBMIT_CMD2_BATCH_*).
BatchField(i, k) == U(VCMD_SUBMIT_CMD2_BATCH_COUNT + 1 + 8 * i + k)

VARIABLES
  maxLength,   \* renderer.max_length
  pc,          \* "idle", or "cmd2" inside the SUBMIT_CMD2 batch loop
  lengthDw,    \* length_dw of the command being (or last) handled
  alloc,       \* bytes passed to malloc for the payload
  batchCount,  \* batch_count read from the SUBMIT_CMD2 payload
  i,           \* the SUBMIT_CMD2 loop index
  reach        \* one past the highest payload word read, per kind of read

vars == <<maxLength, pc, lengthDw, alloc, batchCount, i, reach>>

NoReach == [hdr |-> 0, ranges |-> 0, wait |-> 0]

Max2(a, b) == IF a >= b THEN a ELSE b
Min2(a, b) == IF a <= b THEN a ELSE b

\* The guard every variable-length command starts with.
LengthOkBytes(len) == len <= maxLength
LengthOk(len) == len <= maxLength \div 4

\* Receiving the payload: malloc(length_dw * 4) and a read of that many bytes.
Receive(len) ==
  /\ lengthDw' = len
  /\ alloc' = U(len * 4)

Init ==
  /\ maxLength \in MaxLengths
  /\ pc = "idle"
  /\ lengthDw = 0
  /\ alloc = 0
  /\ batchCount = 0
  /\ i = 0
  /\ reach = NoReach

\* VCMD_SUBMIT_CMD: the payload goes to the renderer whole.
vtest_submit_cmd(len) ==
  /\ pc = "idle"
  /\ LengthOk(len)
  /\ Receive(len)
  /\ reach' = NoReach
  /\ UNCHANGED <<maxLength, pc, batchCount, i>>

\* VCMD_SUBMIT_CMD2 up to the batch loop: batch_count is read from word
\* VCMD_SUBMIT_CMD2_BATCH_COUNT and the batch table checked to fit, with
\* that word index (not the count of words before the table) added to
\* 8 * batch_count.
vtest_submit_cmd2(len, count) ==
  /\ pc = "idle"
  /\ LengthOk(len)
  /\ Receive(len)
  /\ reach' = [NoReach EXCEPT !.hdr = 1]
  /\ batchCount' = count
  /\ i' = 0
  /\ pc' = IF U(VCMD_SUBMIT_CMD2_BATCH_COUNT + 8 * count) > len THEN "idle" ELSE "cmd2"
  /\ UNCHANGED maxLength

\* One iteration of the SUBMIT_CMD2 loop.  The batch's eight header words
\* are read and checked.  vtest_submit_cmd2_batch then hands cmd_size words
\* at cmd_offset to the renderer, which may refuse them, and decodes the
\* (sync_id, value) triples at sync_offset; the decoding stops with an error
\* at the first id the context does not know, and the whole batch may still
\* fail after it (malloc, context fence).  The outcomes that differ in what
\* is read: the renderer refuses the commands ("none": nothing more read),
\* the first triple names no sync ("first"), all triples are decoded and the
\* batch fails ("all") or succeeds ("ok").
BatchOk(len, b) ==
  ~ \/ U(b.cmd_offset + b.cmd_size) > len
    \/ U(b.sync_offset + U(b.sync_count * 3)) > len
    \/ b.sync_queue_index >= VTEST_MAX_SYNC_QUEUE_COUNT

Batches == [cmd_offset : Words, cmd_size : Words, sync_offset : Words,
            sync_count : Words, sync_queue_index : Words]

Outcomes == {"none", "first", "all", "ok"}

\* One past the highest of the eight header words of batch n.
HeaderEnd(n) ==
  LET words == {BatchField(n, k) : k \in 0..7}
  IN  Max2(reach.hdr, 1 + CHOOSE m \in words : \A x \in words : x <= m)

RangesEnd(b, out) ==
  LET cmdEnd  == IF b.cmd_size > 0 THEN b.cmd_offset + b.cmd_size ELSE 0
      triples == CASE out = "none"  -> 0
                   [] out = "first" -> Min2(1, b.sync_count)
                   [] OTHER         -> b.sync_count
      syncEnd == IF triples > 0 THEN b.sync_offset + 3 * triples ELSE 0
  IN  Max2(reach.ranges, Max2(cmdEnd, syncEnd))

Cmd2Batch(b, out) ==
  /\ pc = "cmd2"
  /\ i < batchCount
  /\ i < MaxBatchSteps
  /\ out = "first" => b.sync_count > 0
  /\ IF BatchOk(lengthDw, b)
       THEN /\ reach' = [reach EXCEPT !.hdr = HeaderEnd(i),
                                      !.ranges = RangesEnd(b, out)]
            /\ pc' = IF out = "ok" THEN "cmd2" ELSE "idle"
            /\ i' = i + 1
       ELSE /\ reach' = [reach EXCEPT !.hdr = HeaderEnd(i)]
            /\ pc' = "idle"
            /\ UNCHANGED i
  /\ UNCHANGED <<maxLength, lengthDw, alloc, batchCount>>

\* The loop ends: SUBMIT_CMD2 returns 0.
Cmd2Done ==
  /\ pc = "cmd2"
  /\ i = batchCount
  /\ pc' = "idle"
  /\ UNCHANGED <<maxLength, lengthDw, alloc, batchCount, i, reach>>

\* The exploration bound: the batches after the first MaxBatchSteps are
\* not explored, and the model moves on to the next command.
BatchBoundReached ==
  /\ pc = "cmd2"
  /\ i = MaxBatchSteps /\ i < batchCount
  /\ pc' = "idle"
  /\ UNCHANGED <<maxLength, lengthDw, alloc, batchCount, i, reach>>

\* VCMD_SYNC_WAIT up to the end of vtest_sync_wait_init: the frame must
\* hold flags, timeout and whole triples; flags and timeout are read from
\* words 0 and 1, then the wait struct is malloc'd (which may fail for a
\* huge sync_count, as may the eventfd: "none") and the triples decoded up
\* to the first unknown id ("first") or to the end ("all", "ok").
vtest_sync_wait(len, out) ==
  LET count   == U(len - 2 + 2^W) \div 3
      triples == CASE out = "none"  -> 0
                   [] out = "first" -> Min2(1, count)
                   [] OTHER         -> count
  IN
  /\ pc = "idle"
  /\ LengthOk(len)
  /\ U(len - 2 + 2^W) % 3 = 0
  /\ out = "first" => count > 0
  /\ Receive(len)
  /\ reach' = [NoReach EXCEPT !.wait = 2 + 3 * triples]
  /\ UNCHANGED <<maxLength, pc, batchCount, i>>

Next ==
  \/ \E len \in Lengths : vtest_submit_cmd(len)
  \/ \E len \in Lengths, count \in Words : vtest_submit_cmd2(len, count)
  \/ \E b \in Batches, out \in Outcomes : Cmd2Batch(b, out)
  \/ Cmd2Done
  \/ BatchBoundReached
  \/ \E len \in Lengths, out \in Outcomes : vtest_sync_wait(len, out)

Spec == Init /\ [][Next]_vars

(***************************************************************************)
(* Properties.                                                             *)
(***************************************************************************)
\* The buffer vtest_submit_cmd, vtest_submit_cmd2 and vtest_sync_wait
\* malloc for the payload holds the whole payload: length_dw * 4 does not
\* wrap for any length that passes the renderer.max_length check, whatever
\* max_length vtest_set_max_length gave.
AllocFits == alloc = lengthDw * 4

\* Every word SUBMIT_CMD2 reads lies inside the payload: batch_count, the
\* eight header words of each batch it visits, the command words
\* vtest_submit_cmd2_batch hands to the renderer and the sync triples it
\* decodes (spec section 6: the batch offsets and sizes index the payload).
Cmd2InFrame == reach.hdr <= lengthDw /\ reach.ranges <= lengthDw

\* The flags, timeout and sync triples SYNC_WAIT reads lie inside the
\* payload.
WaitInFrame == reach.wait <= lengthDw
====
