------------------------------ MODULE SendPath ------------------------------
(***************************************************************************)
(* The send path of the bridge: H3SendStream (poll_ready, poll_finish,     *)
(* reset, drop) hands commands to the worker, which applies them to a per  *)
(* stream operation queue and services the queues round robin against the  *)
(* capacity quiche reports, holding a write that fits so that the FIN can  *)
(* ride on it.  Streams share the connection's send capacity.              *)
(*                                                                         *)
(* The front end and the worker are different threads; they meet in the    *)
(* command channel, the status cell, the write-completion slot and the     *)
(* finish oneshot.  One worker step is one command, one writable id or one *)
(* transport call of a round-robin turn.  quiche is external.              *)
(***************************************************************************)
EXTENDS Integers, Sequences, FiniteSets

CONSTANTS
  Streams,
  Bidi,             \* the streams that may also have a receive half
  Sizes,            \* sizes of a write, in units the transport may split
  MaxWrites,        \* bound: writes per stream
  InitCredit,       \* send capacity of the connection at the start
  MaxCredit,        \* bound: capacity ever granted
  MAX_WRITE_CHUNK, CMD_BUDGET, WRITABLE_BUDGET, WRITE_BUDGET,
  Stoppable,        \* bound: streams whose peer may send STOP_SENDING
  Resettable,       \* bound: streams the application may reset or drop early
  MayClose          \* bound: whether the connection may close

ASSUME SendBoundsAssumption ==
  /\ Bidi \subseteq Streams /\ Stoppable \subseteq Streams /\ Resettable \subseteq Streams
  /\ IsFiniteSet(Streams)
  /\ Sizes \subseteq Nat /\ MaxWrites \in Nat /\ InitCredit \in Nat /\ MaxCredit \in Nat
  /\ MAX_WRITE_CHUNK \in Nat \ {0} /\ CMD_BUDGET \in Nat \ {0}
  /\ WRITABLE_BUDGET \in Nat \ {0} /\ WRITE_BUDGET \in Nat \ {0}
  /\ MayClose \in BOOLEAN

VARIABLES
  \* front end: H3SendStream
  fpc, size,        \* where its task stands, size of the write being flushed
  submitted,        \* history: sizes of the writes sent to the worker
  finalized, local_terminal, finish_result, failed,
  \* shared
  status, slot, finslot, cmd, ingress,
  \* worker
  send,             \* the registry: id -> StreamSendState
  recv, admit,      \* ids with a live receive half; peer streams registered
  runnable_send, needs_iteration, conn_terminal,
  wpc, left, cur,
  \* quiche (external)
  cap, granted, qsend, qarmed, wire, qconn

frontVars  == <<fpc, size, submitted, finalized, local_terminal, finish_result, failed>>
sharedVars == <<status, slot, finslot, cmd, ingress>>
regVars    == <<send, recv, admit>>
loopVars   == <<wpc, left, cur>>
quicheVars == <<cap, granted, qsend, qarmed, wire, qconn>>
vars == <<frontVars, sharedVars, regVars, runnable_send, needs_iteration,
          conn_terminal, loopVars, quicheVars>>

-----------------------------------------------------------------------------
(* Helpers *)

Elems(q) == {q[i] : i \in DOMAIN q}
Least(a, b) == IF a < b THEN a ELSE b
Copies(x, n) == [i \in 1..n |-> x]
FIN == 0                        \* a unit on the wire is its write's number
RESET == -1
NoStream == "no stream"
NoSlot == "none"

WriteOp(n, k) == [kind |-> "write", n |-> n, rem |-> k]
FinishOp == [kind |-> "finish", n |-> 0, rem |-> 0]
NoHeld == [n |-> 0, rem |-> 0]

Send(s, n, k) == [op |-> "Send", id |-> s, n |-> n, size |-> k]
Finish(s) == [op |-> "Finish", id |-> s, n |-> 0, size |-> 0]
Reset(s) == [op |-> "Reset", id |-> s, n |-> 0, size |-> 0]

\* StreamSendState; `shared` says that its status cell is the handle's.
NewState(sh) == [send_ops |-> <<>>, pending_reset |-> FALSE, terminal |-> "none",
                 finished |-> FALSE, held |-> NoHeld, shared |-> sh]

Entry(s) == IF s \in DOMAIN send THEN send[s] ELSE NewState(FALSE)
HasHeld(s) == s \in DOMAIN send /\ send[s].held # NoHeld
Put(f, s, e) == [t \in DOMAIN f \cup {s} |-> IF t = s THEN e ELSE f[t]]
Remove(f, s) == [t \in DOMAIN f \ {s} |-> f[t]]

\* mark_send_runnable and its inverse.  runnable_send_set keeps an id at most
\* once in the round robin, so there is one place to take it from.
Enqueue(q, s) == IF s \in Elems(q) THEN q ELSE Append(q, s)
Without(q, s) ==
  IF s \in Elems(q)
    THEN LET i == CHOOSE i \in DOMAIN q : q[i] = s IN
         SubSeq(q, 1, i - 1) \o SubSeq(q, i + 1, Len(q))
    ELSE q

\* The orders in which the members of a finite set may come.
Orders(S) == {q \in [1..Cardinality(S) -> S] :
                Elems(q) = S /\ \A i, j \in DOMAIN q : q[i] = q[j] => i = j}

\* The generation of the front end's latest write.
Generation(s) == Len(submitted[s])

\* SendOp::complete and WriteCompletion::set_if_current for a list of ops.
Complete(s, ops, result) ==
  /\ slot' = [slot EXCEPT ![s] =
       IF @ = NoSlot /\ \E op \in Elems(ops) : op.kind = "write" /\ op.n = Generation(s)
         THEN result ELSE @]
  /\ finslot' = [finslot EXCEPT ![s] =
       IF @ = NoSlot /\ \E op \in Elems(ops) : op.kind = "finish" THEN result ELSE @]

\* The status cell of an entry is first-writer-wins; an entry that was made
\* again by enqueue_send_op has a cell no handle reads.
SetStatus(s, end) ==
  status' = [status EXCEPT ![s] = IF @ = "none" /\ Entry(s).shared THEN end ELSE @]

-----------------------------------------------------------------------------
\* build_send: a half that was stopped before its admission, off the writable
\* queue, gets a preset cell and no entry.
BuildSend(retained) ==
  /\ status = [s \in Streams |-> IF s \in retained THEN "stopped" ELSE "none"]
  /\ send = [s \in Streams \ retained |-> NewState(TRUE)]
  /\ qsend = [s \in Streams |-> IF s \in retained THEN "stopped" ELSE "open"]
  /\ qarmed = Streams \ retained

Init ==
  /\ fpc = [s \in Streams |-> "idle"] /\ size = [s \in Streams |-> 0]
  /\ submitted = [s \in Streams |-> <<>>]
  /\ finalized = [s \in Streams |-> FALSE]
  /\ local_terminal = [s \in Streams |-> "none"]
  /\ finish_result = [s \in Streams |-> NoSlot] /\ failed = [s \in Streams |-> NoSlot]
  /\ slot = [s \in Streams |-> NoSlot] /\ finslot = [s \in Streams |-> NoSlot]
  /\ cmd = <<>> /\ ingress = TRUE
  /\ recv \in SUBSET Bidi              \* opened here or by the peer
  /\ \E peer \in SUBSET recv : \E retained \in SUBSET (peer \cap Stoppable) :
       /\ admit = [s \in peer |-> [send_done |-> s \in retained, recv_done |-> FALSE]]
       /\ BuildSend(retained)
  /\ runnable_send = <<>> /\ needs_iteration = FALSE /\ conn_terminal = FALSE
  /\ wpc = "wait" /\ left = 0 /\ cur = NoStream
  /\ cap = InitCredit /\ granted = InitCredit
  /\ wire = [s \in Streams |-> <<>>] /\ qconn = "open"

-----------------------------------------------------------------------------
(* Front end.  A write is send_data followed by poll_ready until it is done.*)

workerVars == <<regVars, runnable_send, needs_iteration, conn_terminal,
                loopVars, quicheVars>>

\* terminal_now: a local reset outranks the worker's status cell.
TerminalNow(s) == IF local_terminal[s] # "none" THEN local_terminal[s] ELSE status[s]

\* sticky_or_internal.
StickyOrInternal(s) == IF TerminalNow(s) = "none" THEN "internal" ELSE TerminalNow(s)

\* send_data, then poll_ready (2): a sticky terminal rejects new work.
StartWrite(s, k) ==
  /\ fpc[s] = "idle" /\ Len(submitted[s]) < MaxWrites
  /\ IF TerminalNow(s) # "none"
       THEN /\ fpc' = [fpc EXCEPT ![s] = "over"]
            /\ failed' = [failed EXCEPT ![s] = TerminalNow(s)]
            /\ UNCHANGED size
       ELSE /\ fpc' = [fpc EXCEPT ![s] = "flush"]
            /\ size' = [size EXCEPT ![s] = k]
            /\ UNCHANGED failed
  /\ UNCHANGED <<submitted, finalized, local_terminal, finish_result, sharedVars,
                 workerVars>>

\* poll_ready (4): begin a generation and enqueue exactly one Send.
FlushWrite(s) ==
  /\ fpc[s] = "flush"
  /\ submitted' = [submitted EXCEPT ![s] = Append(@, size[s])]
  /\ size' = [size EXCEPT ![s] = 0]
  /\ slot' = [slot EXCEPT ![s] = NoSlot]
  /\ IF ingress
       THEN /\ cmd' = Append(cmd, Send(s, Generation(s) + 1, size[s]))
            /\ fpc' = [fpc EXCEPT ![s] = "inflight"]
            /\ UNCHANGED failed
       ELSE /\ fpc' = [fpc EXCEPT ![s] = "over"]
            /\ failed' = [failed EXCEPT ![s] = StickyOrInternal(s)]
            /\ UNCHANGED cmd
  /\ UNCHANGED <<finalized, local_terminal, finish_result, status, finslot,
                 ingress, workerVars>>

\* poll_ready (1): an in-flight completion is reported once.
PollWrite(s) ==
  /\ fpc[s] = "inflight" /\ slot[s] # NoSlot
  /\ slot' = [slot EXCEPT ![s] = NoSlot]
  /\ IF slot[s] = "ok"
       THEN fpc' = [fpc EXCEPT ![s] = "idle"] /\ UNCHANGED failed
       ELSE /\ fpc' = [fpc EXCEPT ![s] = "over"]
            /\ failed' = [failed EXCEPT ![s] = slot[s]]
  /\ UNCHANGED <<size, submitted, finalized, local_terminal, finish_result,
                 status, finslot, cmd, ingress, workerVars>>

\* poll_finish: finalized by a reset, or the sticky terminal, else enqueue.
StartFinish(s) ==
  /\ fpc[s] = "idle" /\ finish_result[s] = NoSlot
  /\ IF finalized[s] \/ TerminalNow(s) # "none"
       THEN /\ finish_result' = [finish_result EXCEPT ![s] =
                 IF TerminalNow(s) = "none" THEN "ok" ELSE TerminalNow(s)]
            /\ fpc' = [fpc EXCEPT ![s] = "over"]
       ELSE /\ fpc' = [fpc EXCEPT ![s] = "fin"]
            /\ UNCHANGED finish_result
  /\ finalized' = [finalized EXCEPT ![s] = TRUE]
  /\ UNCHANGED <<size, submitted, local_terminal, failed, sharedVars, workerVars>>

FlushFinish(s) ==
  /\ fpc[s] = "fin"
  /\ IF ingress
       THEN /\ cmd' = Append(cmd, Finish(s))
            /\ fpc' = [fpc EXCEPT ![s] = "finwait"]
            /\ UNCHANGED finish_result
       ELSE /\ fpc' = [fpc EXCEPT ![s] = "over"]
            /\ finish_result' = [finish_result EXCEPT ![s] = StickyOrInternal(s)]
            /\ UNCHANGED cmd
  /\ UNCHANGED <<size, submitted, finalized, local_terminal, failed, status,
                 slot, finslot, ingress, workerVars>>

PollFinish(s) ==
  /\ fpc[s] = "finwait" /\ finslot[s] # NoSlot
  /\ finish_result' = [finish_result EXCEPT ![s] = finslot[s]]
  /\ finslot' = [finslot EXCEPT ![s] = NoSlot]
  /\ fpc' = [fpc EXCEPT ![s] = "over"]
  /\ UNCHANGED <<size, submitted, finalized, local_terminal, failed, status,
                 slot, cmd, ingress, workerVars>>

\* reset: once, and never over a terminal the worker already published.
CallReset(s) ==
  /\ s \in Resettable
  /\ fpc[s] \in {"idle", "inflight", "over"} /\ ~finalized[s]
  /\ finalized' = [finalized EXCEPT ![s] = TRUE]
  /\ local_terminal' = [local_terminal EXCEPT ![s] =
       IF status[s] = "none" THEN "reset" ELSE @]
  /\ cmd' = IF ingress THEN Append(cmd, Reset(s)) ELSE cmd
  /\ UNCHANGED <<fpc, size, submitted, finish_result, failed, status, slot,
                 finslot, ingress, workerVars>>

\* Drop: a graceful Finish unless finalized or ended.
\* Mutant: the handle is dropped without a word.
FinishOnDrop_Never(s) == FALSE
FinishOnDrop(s) == ingress /\ ~finalized[s] /\ TerminalNow(s) = "none"

DropHandle(s) ==
  /\ \/ s \in Resettable /\ fpc[s] \in {"idle", "inflight", "finwait"}
     \/ fpc[s] = "over"
  /\ cmd' = IF FinishOnDrop(s) THEN Append(cmd, Finish(s)) ELSE cmd
  /\ finalized' = [finalized EXCEPT ![s] = TRUE]
  /\ fpc' = [fpc EXCEPT ![s] = "dropped"]
  /\ UNCHANGED <<size, submitted, local_terminal, finish_result, failed, status,
                 slot, finslot, ingress, workerVars>>

-----------------------------------------------------------------------------
(* quiche: packets are fed to it while the worker waits.                    *)

packetUnchanged == <<frontVars, sharedVars, regVars, runnable_send, conn_terminal, cur>>

\* Every wakeup that may change quiche starts an iteration.
BeginIteration == wpc' = "apply" /\ left' = CMD_BUDGET /\ needs_iteration' = FALSE

GrantCredit ==
  /\ wpc = "wait" /\ qconn = "open" /\ granted < MaxCredit
  /\ cap' = cap + 1 /\ granted' = granted + 1
  /\ BeginIteration
  /\ UNCHANGED <<packetUnchanged, qsend, qarmed, wire, qconn>>

PeerStops(s) ==
  /\ s \in Stoppable
  /\ wpc = "wait" /\ qconn = "open" /\ qsend[s] = "open"
  /\ qsend' = [qsend EXCEPT ![s] = "stopped"]
  /\ qarmed' = qarmed \cup {s}
  /\ BeginIteration
  /\ UNCHANGED <<packetUnchanged, cap, granted, wire, qconn>>

\* quiche collects a stream whose two directions are over.
Collect(s) ==
  /\ wpc = "wait" /\ qsend[s] \in {"stopped", "fin", "shut"} /\ s \notin recv
  /\ qsend' = [qsend EXCEPT ![s] = "gone"]
  /\ qarmed' = qarmed \ {s}
  /\ UNCHANGED <<packetUnchanged, needs_iteration, wpc, left, cap,
                 granted, wire, qconn>>

ConnectionClosing ==
  /\ MayClose /\ wpc = "wait" /\ qconn = "open"
  /\ qconn' = "closing"
  /\ UNCHANGED <<packetUnchanged, needs_iteration, wpc, left, cap,
                 granted, qsend, qarmed, wire>>

\* What a stream call answers: an error on a stopped, finished or collected
\* stream, perhaps one on a closing connection, Done without capacity.  On a
\* shut stream only data is refused, and none but data is offered: a handle
\* that resets sends no Finish.
Answers(s) ==
  (CASE qsend[s] = "stopped" -> {"Stopped"}
     [] qsend[s] \in {"fin", "shut", "gone"} -> {"ConnGone"}
     [] OTHER -> {"Ok"})
  \cup (IF qconn = "closing" THEN {"ConnGone"} ELSE {})

-----------------------------------------------------------------------------
(* Registry transitions shared by the worker's stages.                      *)

\* terminal_transition: a peer stream with both directions done leaves admit.
TerminalTransition(a, s) ==
  IF s \in DOMAIN a /\ a[s].send_done /\ a[s].recv_done THEN Remove(a, s) ELSE a

AdmitSendDone(a, s) ==
  TerminalTransition(IF s \in DOMAIN a THEN [a EXCEPT ![s].send_done = TRUE] ELSE a, s)
AdmitRecvDone(a, s) ==
  TerminalTransition(IF s \in DOMAIN a THEN [a EXCEPT ![s].recv_done = TRUE] ELSE a, s)

\* reclaim_finished_send on the registry r, when the recv half is not live.
\* Mutant: the entry is kept for ever.
Reclaimable_Never(r, live, s) == FALSE
Reclaimable(r, live, s) == s \in DOMAIN r /\ r[s].finished /\ s \notin live

\* The operations a terminal completes: all of them.
\* Mutant: the head operation, which is partly on the wire, is forgotten.
Drained_NotHead(e) == SelectSeq(e.send_ops, LAMBDA op : op # Head(e.send_ops))
Drained(e) == e.send_ops

\* The terminal those operations get: the first one that was published.
\* Mutant: operations the transport no longer wants are acknowledged.
Effective_FabricatesOk(e, end) == "ok"
Effective(e, end) == IF e.terminal = "none" THEN end ELSE e.terminal

\* send_terminal_transition: publish, drop the held write, drain the ops with
\* the effective terminal, mark_send_done.
SendTerminal(s, end) ==
  LET e == send[s]
      t == Effective(e, end) IN
  /\ SetStatus(s, end)
  /\ Complete(s, Drained(e), t)
  /\ send' = [send EXCEPT ![s] = [e EXCEPT !.terminal = t, !.held = NoHeld,
                                           !.send_ops = <<>>, !.finished = TRUE]]
  /\ admit' = AdmitSendDone(admit, s)
  /\ runnable_send' = Without(runnable_send, s)
  /\ UNCHANGED recv

-----------------------------------------------------------------------------
(* Stage (a): apply_inbox.                                                  *)

\* wait_for_data: deferred work or a command.
NoPacketIteration ==
  /\ wpc = "wait"
  /\ needs_iteration \/ cmd # <<>>
  /\ BeginIteration
  /\ UNCHANGED <<packetUnchanged, quicheVars>>

\* has_quiescent_held_write.
\* Mutant: a held write waits for the next command.
QuiescentHeld_Never == {}
QuiescentHeld == {s \in DOMAIN send : send[s].terminal = "none" /\ HasHeld(s)
                                        /\ send[s].send_ops = <<>>}

\* wait_for_data with a held write that nothing follows: if no command came
\* after one scheduler turn, the streams go back to the send stage, in the
\* order the registry happens to have.
FlushQuiescent ==
  /\ wpc = "wait" /\ ~needs_iteration /\ cmd = <<>>
  /\ QuiescentHeld # {}
  /\ runnable_send' \in Orders(QuiescentHeld)
  /\ BeginIteration
  /\ UNCHANGED <<frontVars, sharedVars, regVars, conn_terminal, cur, quicheVars>>

\* enqueue_send_op: a terminal half completes the op at once; an absent entry
\* is made afresh.
enqueue_send_op(s, op) ==
  LET e == Entry(s) IN
  IF e.terminal # "none"
    THEN Complete(s, <<op>>, e.terminal) /\ UNCHANGED <<send, runnable_send>>
    ELSE /\ send' = Put(send, s, [e EXCEPT !.send_ops = Append(@, op)])
         /\ runnable_send' = Enqueue(runnable_send, s)
         /\ UNCHANGED <<slot, finslot>>

\* apply_reset: the first effective reset preempts the queue.
apply_reset(s) ==
  LET e == Entry(s) IN
  IF e.pending_reset \/ e.terminal # "none"
    THEN /\ send' = Put(send, s, e)
         /\ UNCHANGED <<runnable_send, status, slot, finslot>>
    ELSE /\ SetStatus(s, "reset")
         /\ Complete(s, Drained(e), "reset")
         /\ send' = Put(send, s, [e EXCEPT !.pending_reset = TRUE, !.terminal = "reset",
                                           !.send_ops = <<>>, !.held = NoHeld])
         /\ runnable_send' = Enqueue(runnable_send, s)

apply_inbox ==
  /\ wpc = "apply" /\ left > 0 /\ cmd # <<>>
  /\ LET c == Head(cmd) IN
       /\ \/ /\ c.op = "Send"
             /\ enqueue_send_op(c.id, WriteOp(c.n, c.size))
             /\ UNCHANGED status
          \/ /\ c.op = "Finish"
             /\ enqueue_send_op(c.id, FinishOp)
             /\ UNCHANGED status
          \/ c.op = "Reset" /\ apply_reset(c.id)
  /\ cmd' = Tail(cmd)
  /\ left' = left - 1
  /\ UNCHANGED <<frontVars, ingress, recv, admit, needs_iteration, conn_terminal,
                 wpc, cur, quicheVars>>

\* The receive half ends, by the read pump or a StopSending command:
\* mark_recv_done with the terminal transition and reclaim_finished_send.
mark_recv_done(s) ==
  /\ wpc = "apply" /\ s \in recv
  /\ recv' = recv \ {s}
  /\ IF Reclaimable(send, recv', s)
       THEN send' = Remove(send, s) /\ admit' = Remove(admit, s)
       ELSE admit' = AdmitRecvDone(admit, s) /\ UNCHANGED send
  /\ UNCHANGED <<frontVars, sharedVars, runnable_send, needs_iteration,
                 conn_terminal, loopVars, quicheVars>>

EndApply ==
  /\ wpc = "apply"
  /\ left = 0 \/ cmd = <<>>
  /\ wpc' = "writable" /\ left' = WRITABLE_BUDGET
  /\ UNCHANGED <<frontVars, sharedVars, regVars, runnable_send, needs_iteration,
                 conn_terminal, cur, quicheVars>>

-----------------------------------------------------------------------------
(* Stage (d): stage_writable takes ids out of quiche's writable queue.  An  *)
(* id surfaces only while the connection has capacity, stopped or not.      *)

\* A stream that is already ending keeps its terminal and its pending reset.
AlreadyEnding(e) == e.pending_reset \/ e.terminal # "none"

stage_writable(s) ==
  /\ wpc = "writable" /\ left > 0
  /\ s \in qarmed /\ cap > 0
  /\ qarmed' = qarmed \ {s}
  /\ left' = left - 1
  /\ LET e == Entry(s)
         has_work == e.send_ops # <<>> \/ e.pending_reset IN
       \/ /\ s \in DOMAIN send /\ "Stopped" \in Answers(s)
          /\ IF AlreadyEnding(e)
               THEN UNCHANGED <<regVars, runnable_send, status, slot, finslot>>
               ELSE SendTerminal(s, "stopped")
       \/ /\ s \in DOMAIN send /\ Answers(s) \ {"Stopped"} # {}
          /\ runnable_send' = IF has_work THEN Enqueue(runnable_send, s) ELSE runnable_send
          /\ UNCHANGED <<regVars, status, slot, finslot>>
       \/ /\ s \notin DOMAIN send
          /\ UNCHANGED <<regVars, runnable_send, status, slot, finslot>>
  /\ UNCHANGED <<frontVars, cmd, ingress, needs_iteration, conn_terminal, wpc,
                 cur, cap, granted, qsend, wire, qconn>>

EndWritable ==
  /\ wpc = "writable"
  /\ left = 0 \/ cap = 0 \/ qarmed = {}
  /\ needs_iteration' = (needs_iteration \/ left = 0)
  /\ wpc' = "send" /\ left' = WRITE_BUDGET
  /\ UNCHANGED <<frontVars, sharedVars, regVars, runnable_send, conn_terminal,
                 cur, quicheVars>>

-----------------------------------------------------------------------------
(* Stage (e): stage_send, round robin.  A turn is one or two steps: a held  *)
(* write is flushed first, then the head operation is serviced.             *)

TurnAvailable == left > 0 /\ runnable_send # <<>>

BeginTurn ==
  /\ wpc = "send" /\ TurnAvailable
  /\ cur' = Head(runnable_send)
  /\ runnable_send' = Tail(runnable_send)
  /\ left' = left - 1
  /\ wpc' = "turn"
  /\ UNCHANGED <<frontVars, sharedVars, regVars, needs_iteration, conn_terminal,
                 quicheVars>>

EndSend ==
  /\ wpc = "send"
  /\ left = 0 \/ runnable_send = <<>>
  /\ needs_iteration' = (needs_iteration \/ runnable_send # <<>>)
  /\ wpc' = "wait" /\ left' = 0
  /\ UNCHANGED <<frontVars, sharedVars, regVars, runnable_send, conn_terminal,
                 cur, quicheVars>>

\* TurnOutcome::Requeue, Park and Drop.
EndTurn == wpc' = "send" /\ cur' = NoStream
Requeue == /\ runnable_send' = Enqueue(runnable_send, cur)
           /\ needs_iteration' = TRUE /\ EndTurn
Drop    == UNCHANGED <<runnable_send, needs_iteration>> /\ EndTurn

\* Mutant: the stream parks without re-arming the low-water mark.
Park_NoRearm == UNCHANGED <<runnable_send, needs_iteration, qarmed>> /\ EndTurn

\* rearm_send: quiche reports the id again as soon as it can take a unit.
Park == /\ qarmed' = qarmed \cup {cur}
        /\ UNCHANGED <<runnable_send, needs_iteration>> /\ EndTurn

\* runnable_after_pop, for the entry with the op popped.
\* Mutant: a serviced stream always leaves the round robin.
AfterPop_Drops(e) == Drop
AfterPop(e) == IF e.send_ops # <<>> THEN Requeue ELSE Drop

\* service_send_turn past the pending reset.  Its early return for a stale id
\* has no action: WorkIsCovered shows that no id is stale when popped.
Working == wpc = "turn" /\ cur \in DOMAIN send /\ ~send[cur].pending_reset
             /\ send[cur].terminal = "none"

\* service_send_turn 1: a pending reset goes before everything else.
TurnReset ==
  /\ wpc = "turn" /\ Entry(cur).pending_reset
  /\ send' = [send EXCEPT ![cur].pending_reset = FALSE, ![cur].finished = TRUE]
  /\ qsend' = [qsend EXCEPT ![cur] = IF @ = "gone" THEN @ ELSE "shut"]
  /\ wire' = [wire EXCEPT ![cur] = IF qsend[cur] = "gone" THEN @ ELSE Append(@, RESET)]
  /\ admit' = AdmitSendDone(admit, cur)
  /\ qarmed' = qarmed \ {cur}
  /\ Drop
  /\ UNCHANGED <<frontVars, sharedVars, recv, conn_terminal, left, cap, granted, qconn>>

\* classify_send_err for Stopped and for ConnGone before the connection
\* terminal is known: the ops stay for on_conn_close.
TurnError ==
  /\ Working /\ (send[cur].send_ops # <<>> \/ HasHeld(cur))
  /\ \/ /\ "Stopped" \in Answers(cur)
        /\ SendTerminal(cur, "stopped")
     \/ /\ "ConnGone" \in Answers(cur)
        /\ runnable_send' = Without(runnable_send, cur)
        /\ UNCHANGED <<regVars, status, slot, finslot>>
  /\ EndTurn
  /\ UNCHANGED <<frontVars, cmd, ingress, needs_iteration, conn_terminal, left,
                 quicheVars>>

\* One accepted stream_send of n units of write w, with or without FIN.
Transmit(s, w, n, fin) ==
  /\ wire' = [wire EXCEPT ![s] = @ \o Copies(w, n) \o (IF fin THEN <<FIN>> ELSE <<>>)]
  /\ cap' = cap - n
  /\ qsend' = IF fin THEN [qsend EXCEPT ![s] = "fin"] ELSE qsend

\* complete_finish_op on entry e: pop, mark_send_done, reclaim.
FinishOpDone(e) ==
  LET done == [e EXCEPT !.send_ops = Tail(@), !.held = NoHeld, !.finished = TRUE] IN
  /\ Complete(cur, <<Head(e.send_ops)>>, "ok")
  /\ IF Reclaimable(Put(send, cur, done), recv, cur)
       THEN send' = Remove(send, cur) /\ admit' = Remove(admit, cur)
       ELSE send' = [send EXCEPT ![cur] = done] /\ admit' = AdmitSendDone(admit, cur)

\* Whether the FIN goes with the n units offered next.
FinRides(e, n) ==
  e.send_ops # <<>> /\ Head(e.send_ops).kind = "finish" /\ n = e.held.rem

\* flush_held_once: the FIN rides on the chunk that empties the buffer.  A
\* short acceptance parks, an accepted chunk with more behind it requeues.
FlushHeld ==
  /\ Working /\ HasHeld(cur) /\ "Ok" \in Answers(cur)
  /\ LET e == send[cur]
         offered == Least(e.held.rem, MAX_WRITE_CHUNK)
         n == Least(offered, cap)
         left_over == e.held.rem - n
         fin == e.send_ops # <<>> /\ Head(e.send_ops).kind = "finish" IN
       /\ Transmit(cur, e.held.n, n, FinRides(e, n))
       /\ \/ /\ left_over = 0 /\ fin
             /\ FinishOpDone(e)
             /\ Drop /\ qarmed' = qarmed \ {cur}
          \/ /\ left_over = 0 /\ ~fin
             /\ send' = [send EXCEPT ![cur].held = NoHeld]
             /\ IF e.send_ops = <<>>
                  THEN Drop
                  ELSE UNCHANGED <<wpc, cur, runnable_send, needs_iteration>>
             /\ UNCHANGED <<admit, slot, finslot, qarmed>>
          \/ /\ left_over > 0
             /\ send' = [send EXCEPT ![cur].held.rem = left_over]
             /\ IF n = offered THEN Requeue /\ UNCHANGED qarmed ELSE Park
             /\ UNCHANGED <<admit, slot, finslot>>
  /\ UNCHANGED <<frontVars, status, cmd, ingress, recv, conn_terminal, left,
                 granted, qconn>>

\* The head operation is serviced once no held write is before it.
\* Mutant: the held write is not flushed first.
HeadIs_BeforeHeld(kind) ==
  Working /\ send[cur].send_ops # <<>>
    /\ Head(send[cur].send_ops).kind = kind /\ "Ok" \in Answers(cur)
HeadIs(kind) == Working /\ ~HasHeld(cur) /\ send[cur].send_ops # <<>>
                  /\ Head(send[cur].send_ops).kind = kind /\ "Ok" \in Answers(cur)

\* service_write_turn (b): the whole buffer fits, so it is held and the write
\* completes Ok before a byte has left.
HoldWrite ==
  /\ HeadIs("write")
  /\ LET op == Head(send[cur].send_ops)
         e == [send[cur] EXCEPT !.send_ops = Tail(@),
                                !.held = [n |-> op.n, rem |-> op.rem]] IN
       /\ op.rem > 0 /\ cap >= op.rem
       /\ Complete(cur, <<op>>, "ok")
       /\ send' = [send EXCEPT ![cur] = e]
       /\ AfterPop(e)
  /\ UNCHANGED <<frontVars, status, cmd, ingress, recv, admit, conn_terminal,
                 left, quicheVars>>

\* service_write_turn (c): one bounded partial write; a zero-byte write is
\* accepted without a call.
PartialWrite ==
  /\ HeadIs("write")
  /\ LET op == Head(send[cur].send_ops)
         offered == Least(op.rem, MAX_WRITE_CHUNK)
         n == Least(offered, cap)
         e == [send[cur] EXCEPT !.send_ops = Tail(@)] IN
       /\ op.rem = 0 \/ cap < op.rem
       /\ Transmit(cur, op.n, n, FALSE)
       /\ \/ /\ op.rem = n
             /\ Complete(cur, <<op>>, "ok")
             /\ send' = [send EXCEPT ![cur] = e]
             /\ AfterPop(e) /\ UNCHANGED qarmed
          \/ /\ op.rem > n
             /\ send' = [send EXCEPT ![cur].send_ops[1].rem = op.rem - n]
             /\ IF n = offered THEN Requeue /\ UNCHANGED qarmed ELSE Park
             /\ UNCHANGED <<slot, finslot>>
  /\ UNCHANGED <<frontVars, status, cmd, ingress, recv, admit, conn_terminal,
                 left, granted, qconn>>

\* service_finish_turn without a held write: a lone FIN, even at capacity 0.
LoneFin ==
  /\ HeadIs("finish")
  /\ Transmit(cur, FIN, 0, TRUE)
  /\ FinishOpDone(send[cur])
  /\ Drop /\ qarmed' = qarmed \ {cur}
  /\ UNCHANGED <<frontVars, status, cmd, ingress, recv, conn_terminal, left,
                 granted, qconn>>

-----------------------------------------------------------------------------
(* do_on_conn_close: publish and drain the registry, then close ingress and *)
(* complete the commands that are left.                                     *)

\* Cells of live entries that have no terminal yet get the connection's.
ClosedStatus(s) ==
  IF s \in DOMAIN send /\ send[s].shared /\ status[s] = "none" THEN "conn" ELSE status[s]

ClosePublish ==
  /\ wpc = "wait" /\ qconn = "closing"
  /\ conn_terminal' = TRUE
  /\ status' = [s \in Streams |-> ClosedStatus(s)]
  /\ LET drained(kind, s) == s \in DOMAIN send /\ \E op \in Elems(send[s].send_ops) : op.kind = kind IN
       /\ slot' = [s \in Streams |->
            IF slot[s] = NoSlot /\ drained("write", s) THEN "conn" ELSE slot[s]]
       /\ finslot' = [s \in Streams |->
            IF finslot[s] = NoSlot /\ drained("finish", s) THEN "conn" ELSE finslot[s]]
  /\ send' = [s \in DOMAIN send |->
       [send[s] EXCEPT !.terminal = IF @ = "none" THEN "conn" ELSE @,
                       !.held = NoHeld, !.send_ops = <<>>]]
  /\ wpc' = "close"
  /\ UNCHANGED <<frontVars, cmd, ingress, recv, admit, runnable_send,
                 needs_iteration, left, cur, quicheVars>>

CloseIngress ==
  /\ wpc = "close"
  /\ ingress' = FALSE
  /\ LET queued(op, s) == \E c \in Elems(cmd) : c.op = op /\ c.id = s IN
       /\ slot' = [s \in Streams |->
            IF slot[s] = NoSlot /\ queued("Send", s) THEN "conn" ELSE slot[s]]
       /\ finslot' = [s \in Streams |->
            IF finslot[s] = NoSlot /\ queued("Finish", s) THEN "conn" ELSE finslot[s]]
  /\ cmd' = <<>>
  /\ wpc' = "exited" /\ qconn' = "closed"
  /\ UNCHANGED <<frontVars, status, regVars, runnable_send, needs_iteration,
                 conn_terminal, left, cur, cap, granted, qsend, qarmed, wire>>

-----------------------------------------------------------------------------
Turn == \/ TurnReset \/ TurnError \/ FlushHeld \/ HoldWrite
        \/ PartialWrite \/ LoneFin

Worker ==
  \/ NoPacketIteration \/ FlushQuiescent \/ apply_inbox \/ EndApply
  \/ (\E s \in Streams : stage_writable(s)) \/ EndWritable
  \/ BeginTurn \/ Turn \/ EndSend \/ ClosePublish \/ CloseIngress

\* The application polls what it waits for; what it writes is its choice.
Polls(s) == FlushWrite(s) \/ PollWrite(s) \/ FlushFinish(s) \/ PollFinish(s)

Peer ==
  \/ GrantCredit \/ ConnectionClosing
  \/ \E s \in Streams : PeerStops(s) \/ Collect(s) \/ mark_recv_done(s)

Next ==
  \/ Worker \/ Peer
  \/ \E s \in Streams :
       \/ Polls(s) \/ StartFinish(s) \/ CallReset(s) \/ DropHandle(s)
       \/ \E k \in Sizes : StartWrite(s, k)

Spec == Init /\ [][Next]_vars

\* The worker and the polling tasks are scheduled, the peer keeps granting
\* capacity (up to the bound), and quiche's drain timer ends a closing
\* connection however often the worker iterates meanwhile.
Fairness ==
  /\ WF_vars(Worker) /\ SF_vars(GrantCredit) /\ SF_vars(ClosePublish)
  /\ \A s \in Streams : WF_vars(Polls(s))

FairSpec == Spec /\ Fairness

-----------------------------------------------------------------------------
(* Properties *)

Ends == {"none", "reset", "stopped", "conn"}
Results == {NoSlot, "ok", "reset", "stopped", "conn", "internal"}
Ops == [kind : {"write", "finish"}, n : Nat, rem : Nat]
Commands == [op : {"Send", "Finish", "Reset"}, id : Streams, n : Nat, size : Nat]
Entries == [send_ops : Seq(Ops), pending_reset : BOOLEAN, terminal : Ends,
            finished : BOOLEAN, held : [n : Nat, rem : Nat], shared : BOOLEAN]

TypeFront ==
  /\ fpc \in [Streams -> {"idle", "flush", "inflight", "fin", "finwait", "over", "dropped"}]
  /\ size \in [Streams -> Nat] /\ submitted \in [Streams -> Seq(Nat)]
  /\ finalized \in [Streams -> BOOLEAN] /\ local_terminal \in [Streams -> Ends]
  /\ finish_result \in [Streams -> Results] /\ failed \in [Streams -> Results]

TypeShared ==
  /\ status \in [Streams -> Ends] /\ slot \in [Streams -> Results]
  /\ finslot \in [Streams -> Results] /\ ingress \in BOOLEAN /\ cmd \in Seq(Commands)

TypeWorker ==
  /\ DOMAIN send \subseteq Streams /\ send \in [DOMAIN send -> Entries]
  /\ recv \subseteq Bidi /\ DOMAIN admit \subseteq Bidi
  /\ runnable_send \in Seq(Streams) /\ needs_iteration \in BOOLEAN /\ conn_terminal \in BOOLEAN
  /\ wpc \in {"wait", "apply", "writable", "send", "turn", "close", "exited"}
  /\ left \in Nat /\ cur \in Streams \cup {NoStream}

TypeQuiche ==
  /\ cap \in Nat /\ granted \in Nat
  /\ qsend \in [Streams -> {"open", "stopped", "fin", "shut", "gone"}]
  /\ qarmed \subseteq Streams /\ qconn \in {"open", "closing", "closed"}
  /\ wire \in [Streams -> Seq(Nat \cup {RESET})]

\* The variables of this module keep their types; the capacity never goes
\* below zero, so no call offers quiche more than it asked for.
TypeOK == TypeFront /\ TypeShared /\ TypeWorker /\ TypeQuiche

UnitsOf(s, n) == Cardinality({i \in DOMAIN wire[s] : wire[s][i] = n})

\* What quiche accepted on a stream is a prefix of what was written, in write
\* order and without gaps, through holding, partial writes and requeues; no
\* unit follows a FIN or a RESET_STREAM; and a FIN on the wire means the whole
\* body is: finish-on-drop and the FIN that rides on a held write never
\* overtake or truncate a write.
WireIsBody ==
  \A s \in Streams :
    /\ \A j \in DOMAIN wire[s] :
         /\ \A i \in 1..j - 1 : wire[s][i] > 0
         /\ wire[s][j] > 0 =>
              /\ UnitsOf(s, wire[s][j]) <= submitted[s][wire[s][j]]
              /\ \A i \in 1..j - 1 : wire[s][i] <= wire[s][j]
              /\ \A n \in 1..wire[s][j] - 1 : UnitsOf(s, n) = submitted[s][n]
    /\ FIN \in Elems(wire[s]) =>
         \A n \in 1..Len(submitted[s]) : UnitsOf(s, n) = submitted[s][n]

\* Exactly-once completion: the write a front end waits for is in exactly one
\* place - the command channel, the stream's queue, or its completion slot.
InFlightAccounted ==
  \A s \in Streams :
    LET queued == {i \in DOMAIN cmd : cmd[i].id = s /\ cmd[i].op = "Send"}
        ops == IF s \in DOMAIN send
                 THEN {i \in DOMAIN send[s].send_ops : send[s].send_ops[i].kind = "write"}
                 ELSE {} IN
    fpc[s] = "inflight" =>
      Cardinality(queued) + Cardinality(ops) + (IF slot[s] = NoSlot THEN 0 ELSE 1) = 1

\* The streams that have a turn in the round robin, now or later.
HasTurn == Elems(runnable_send) \cup (IF wpc = "turn" THEN {cur} ELSE {})

\* The round robin and its work agree.  A live stream with queued ops has a
\* turn coming, or quiche will report it writable, unless quiche collected the
\* stream (an entry made again for a dead id, as in SendZombie, or a stopped
\* stream that went before the writable scan reached it).  A reset that was
\* applied keeps its turn until RESET_STREAM is emitted, whatever STOP_SENDING
\* or terminal races it.  And no id stays after its work is gone, so
\* service_send_turn's eviction of a stale id never happens.
WorkIsCovered ==
  /\ \A s \in DOMAIN send :
       qconn = "open" =>
         /\ send[s].pending_reset => s \in HasTurn
         /\ send[s].terminal = "none" /\ send[s].send_ops # <<>> =>
              s \in HasTurn \cup qarmed \/ qsend[s] = "gone"
  /\ \A s \in HasTurn :
       ~conn_terminal => \/ Entry(s).pending_reset
                         \/ /\ Entry(s).terminal = "none"
                            /\ Entry(s).send_ops # <<>> \/ Entry(s).held # NoHeld

\* The answers of the front end are true: poll_finish answers Ok only if the
\* transport accepted the FIN, and neither call falls back to the "without a
\* terminal" internal error, however it races the close.
AnswersAreTrue ==
  \A s \in Streams :
    /\ finish_result[s] = "ok" => FIN \in Elems(wire[s])
    /\ failed[s] # "internal" /\ finish_result[s] # "internal"

\* After a graceful FIN with the receive half gone the registry entry is
\* reclaimed: no entry leaks per handled request.
FinishedIsReclaimed ==
  \A s \in Streams :
    FIN \in Elems(wire[s]) /\ s \notin recv /\ wpc # "turn" => s \notin DOMAIN send

\* A write that was handed over is answered, by its acceptance, the peer's
\* stop, a reset or the close, unless quiche collected the stream under it.
WriteResolvesOrCollected ==
  \A s \in Streams : fpc[s] = "inflight" ~> fpc[s] # "inflight" \/ qsend[s] = "gone"

\* A write that was handed over is answered.
WriteResolves == \A s \in Streams : fpc[s] = "inflight" ~> fpc[s] # "inflight"

\* A held write leaves without another application write.
HeldLeaves == \A s \in Streams : HasHeld(s) ~> ~HasHeld(s)

\* A send half the application finished, reset or dropped is closed at the
\* peer, unless the peer stopped it or the connection ends.
FinalizedIsClosed ==
  \A s \in Streams :
    fpc[s] = "dropped" ~> (wire[s] # <<>> /\ wire[s][Len(wire[s])] <= 0)
                           \/ qsend[s] # "open" \/ qconn # "open"
=============================================================================
