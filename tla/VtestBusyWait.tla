---------------------------- MODULE VtestBusyWait ----------------------------
(***************************************************************************)
(* The legacy implicit fences of vtest (src/vtest/vtest_renderer.c).      *)
(* Every VCMD_SUBMIT_CMD asks the renderer for a fence with id            *)
(* ++renderer.implicit_fence_submitted; the renderer retires fences in   *)
(* order and reports, through the write_fence callback                   *)
(* vtest_write_implicit_fence, the id of the last one retired, which is   *)
(* stored in renderer.implicit_fence_completed.  VCMD_RESOURCE_BUSY_WAIT *)
(* answers "busy" while the two counters differ and, with the WAIT flag,  *)
(* loops on the renderer's poll fd inside the handler until they agree:   *)
(* the single server thread serves no other client meanwhile.            *)
(*                                                                         *)
(* The counters are C ints and the ids uint32_t; both keep their wrap-    *)
(* around at a width of W bits (signed overflow of the ++ is undefined    *)
(* behaviour; the build wraps it).                                       *)
(***************************************************************************)
EXTENDS Integers, Sequences

CONSTANTS
  Clients,     \* connected clients (model values)
  W,           \* width standing for the 32 bits of int and uint32_t
  MaxPending,  \* bound on the implicit fences the renderer holds at once
  None         \* no client, no reply (a model value)

ASSUME W \in Nat \ {0} /\ MaxPending \in Nat \ {0} /\ None \notin Clients

IntMin == -(2^(W - 1))
IntMax == 2^(W - 1) - 1
Ints == IntMin..IntMax
U(x) == x % 2^W                                 \* int -> uint32_t
ToInt(u) == IF u > IntMax THEN u - 2^W ELSE u   \* uint32_t -> int
Inc(x) == IF x = IntMax THEN IntMin ELSE x + 1  \* ++ on an int, wrapping

VARIABLES
  submitted,   \* renderer.implicit_fence_submitted
  completed,   \* renderer.implicit_fence_completed
  pending,     \* the renderer's fences not yet retired, oldest first
  waiting,     \* the client whose BUSY_WAIT loop holds the server, or None
  replied      \* the busy reply sent by the last step, or None

vars == <<submitted, completed, pending, waiting, replied>>

Init ==
  /\ submitted = 0
  /\ completed = 0
  /\ pending = <<>>
  /\ waiting = None
  /\ replied = None

\* A post-increment in place of the pre-increment.
CreateImplicitFencePost ==
  /\ submitted' = Inc(submitted)
  /\ pending' = Append(pending, U(submitted))

\* vtest_create_implicit_fence.
vtest_create_implicit_fence ==
  /\ submitted' = Inc(submitted)
  /\ pending' = Append(pending, U(Inc(submitted)))

\* VCMD_SUBMIT_CMD after the renderer accepted the commands (a refusal
\* ends the connection before any fence is created).
vtest_submit_cmd(c) ==
  /\ waiting = None
  /\ Len(pending) < MaxPending
  /\ vtest_create_implicit_fence
  /\ replied' = None
  /\ UNCHANGED <<completed, waiting>>

\* VCMD_RESOURCE_BUSY_WAIT up to the first test of its loop: without the
\* WAIT flag, or when nothing is busy, the reply is sent at once; otherwise
\* the handler starts waiting on the renderer's poll fd.
vtest_resource_busy_wait(c, wait) ==
  LET busy == completed # submitted
  IN
  /\ waiting = None
  /\ IF busy /\ wait
       THEN /\ waiting' = c
            /\ replied' = None
       ELSE /\ replied' = [client |-> c, busy |-> busy]
            /\ UNCHANGED waiting
  /\ UNCHANGED <<submitted, completed, pending>>

\* The busy test hoisted out of the loop: the loop keeps seeing the value
\* read on entry, which was "busy", and polls again instead of leaving.
BusyWaitDoneHoisted(c) ==
  /\ waiting = c
  /\ UNCHANGED vars

\* The loop's test after virgl_renderer_poll: once the counters agree the
\* handler leaves the loop and replies "not busy".
BusyWaitDone(c) ==
  /\ waiting = c
  /\ completed = submitted
  /\ waiting' = None
  /\ replied' = [client |-> c, busy |-> FALSE]
  /\ UNCHANGED <<submitted, completed, pending>>

\* A merged callback naming the first retired fence rather than the last.
RetireReportFirst(k) ==
  /\ completed' = ToInt(pending[1])
  /\ pending' = SubSeq(pending, k + 1, Len(pending))

\* The renderer retires its k oldest fences and calls write_fence once
\* with the id of the last of them (vtest_write_implicit_fence).  The call
\* comes from virgl_renderer_poll, made by the BUSY_WAIT loop or by the
\* server loop (vtest_poll_resource_busy_wait).
vtest_write_implicit_fence(k) ==
  /\ completed' = ToInt(pending[k])
  /\ pending' = SubSeq(pending, k + 1, Len(pending))

Retire(k) ==
  /\ vtest_write_implicit_fence(k)
  /\ replied' = None
  /\ UNCHANGED <<submitted, waiting>>

RetireSome == \E k \in 1..Len(pending) : Retire(k)

Next ==
  \/ \E c \in Clients : vtest_submit_cmd(c)
  \/ \E c \in Clients, wait \in BOOLEAN : vtest_resource_busy_wait(c, wait)
  \/ \E c \in Clients : BusyWaitDone(c)
  \/ RetireSome

\* The renderer retires every fence it was given (its fence thread runs
\* independently of vtest), and the loop of a blocked BUSY_WAIT runs on
\* the server thread as soon as its poll returns.  Clients get no fairness.
Fairness ==
  /\ WF_vars(RetireSome)
  /\ \A c \in Clients : WF_vars(BusyWaitDone(c))

Spec == Init /\ [][Next]_vars
FairSpec == Spec /\ Fairness

(***************************************************************************)
(* Properties.                                                             *)
(***************************************************************************)
\* The busy flag RESOURCE_BUSY_WAIT replies with, computed from the two
\* counters, is exactly whether the renderer still holds an unretired
\* SUBMIT_CMD fence of any client: across merged write_fence callbacks
\* and the wraparound of the int counter and the uint32_t fence ids.
BusyReplyExact ==
  replied # None => (replied.busy <=> pending # <<>>)

\* A client whose RESOURCE_BUSY_WAIT blocks the server in the WAIT loop is
\* eventually answered, so the server serves the other clients again.
BusyWaitReturns == \A c \in Clients : waiting = c ~> waiting # c
====
