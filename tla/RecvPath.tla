------------------------------ MODULE RecvPath ------------------------------
(***************************************************************************)
(* The receive path of the bridge: the worker's read pump (intake of       *)
(* readable ids, resumed drain, registered drain, reserve-before-read) and *)
(* the H3RecvStream front end that polls the bounded byte channel and then *)
(* the out-of-band terminal.  The two sides share, per stream, the byte    *)
(* channel, the terminal cell and the flags `blocked` and `resume`, and    *)
(* they run on different threads: every access to shared state is a step   *)
(* of its own, worker-private work is merged into the step next to it.     *)
(*                                                                         *)
(* quiche is external: a stream holds the chunks 1..qsent[s] in order, the *)
(* worker has read those below qnext[s].                                   *)
(***************************************************************************)
EXTENDS Integers, Sequences

CONSTANTS
  Streams,          \* registered receive halves
  Depth,            \* recv_channel_depth.max(1)
  MaxChunks,        \* bound: chunks the peer sends on a stream
  READ_BUDGET, CHUNK_BUDGET, READABLE_BUDGET, DISCOVERY_BUDGET,
  RECV_RESUME_BUDGET, CMD_BUDGET,
  PeerEnds,         \* bound: how the peer may end a stream
  Leavers,          \* bound: streams the application may stop or drop early
  MayClose,         \* bound: whether the connection may close
  SeqCst            \* TRUE: stores are visible at once; FALSE: the worker's
                    \* Release/Relaxed stores may be overtaken by its loads

ASSUME BoundsAssumption ==
  /\ Depth \in Nat \ {0} /\ MaxChunks \in Nat
  /\ READ_BUDGET \in Nat \ {0} /\ CHUNK_BUDGET \in Nat \ {0}
  /\ READABLE_BUDGET \in Nat \ {0} /\ DISCOVERY_BUDGET \in Nat \ {0}
  /\ RECV_RESUME_BUDGET \in Nat \ {0} /\ CMD_BUDGET \in Nat \ {0}
  /\ PeerEnds \subseteq {"fin", "reset"} /\ Leavers \subseteq Streams
  /\ MayClose \in BOOLEAN /\ SeqCst \in BOOLEAN

VARIABLES
  \* quiche (external)
  qsent, qnext,     \* chunks arrived, next chunk stream_recv returns
  qend,             \* "none", "fin" or "reset", as received from the peer
  qarmed,           \* in quiche's readable queue (stream_readable_next)
  qshut,            \* stream_shutdown(Read) was issued
  received,         \* packets were fed to quiche in this wakeup
  qconn,            \* "open", "closing" (a close is known) or "closed"
  \* worker
  recv,             \* the registry: ids with a StreamRecvState
  pending_readable, pending_resume,
  needs_iteration, read_budget,
  wpc, packet, left, cur, chunks, ret,
  \* shared between the worker and the front end
  chan, terminal, blocked, resume, cmd, storebuf,
  \* front end
  cpc, waker, woken, delivered, seen, stop_sent, dropped

quicheVars == <<qsent, qnext, qend, qarmed, qshut, received, qconn>>
queueVars  == <<pending_readable, pending_resume>>
loopVars   == <<wpc, packet, left, cur, chunks, ret>>
workerVars == <<recv, queueVars, needs_iteration, read_budget, loopVars>>
sharedVars == <<chan, terminal, blocked, resume, cmd, storebuf>>
frontVars  == <<cpc, waker, woken, delivered, seen, stop_sent, dropped>>
vars == <<quicheVars, workerVars, sharedVars, frontVars>>

-----------------------------------------------------------------------------
(* Helpers *)

Elems(q) == {q[i] : i \in DOMAIN q}

NoStream == "no stream"

\* requeue_readable / enqueue_resume: exact-once membership of a cursor.
Enqueue(q, s) == IF s \in Elems(q) THEN q ELSE Append(q, s)

\* drop_recv_memberships: s is taken out of the cursor. The cursor holds an id
\* at most once, so there is one place to take it from.
Without(q, s) ==
  IF s \in Elems(q)
    THEN LET i == CHOOSE i \in DOMAIN q : q[i] = s IN
         SubSeq(q, 1, i - 1) \o SubSeq(q, i + 1, Len(q))
    ELSE q

RecvResume(s)  == [op |-> "RecvResume", id |-> s]
StopSending(s) == [op |-> "StopSending", id |-> s]
Commands == [op : {"RecvResume", "StopSending"}, id : Streams]

\* quiche: stream_readable(id) - unread data, or an end not yet reported.
stream_readable(s) ==
  ~qshut[s] /\ (qnext[s] <= qsent[s] \/ qend[s] # "none")

\* The byte channel's Sender is gone once the registry entry is removed and
\* the clone held by a running drain_stream is dropped.
Draining(s) == cur = s /\ wpc \in {"drain", "recheck", "read", "fin", "seal"}
SenderGone(s) == s \notin recv /\ ~Draining(s)

\* A push, a close or a terminal wakes the task that registered there.
Wake(s, source) ==
  /\ woken' = [woken EXCEPT ![s] = @ \/ source \in waker[s]]
  /\ waker' = [waker EXCEPT ![s] = @ \ {source}]

\* cmd_tx.send: fails silently once the worker closed command ingress.
SendCmd(c) == cmd' = IF qconn = "closed" THEN cmd ELSE Append(cmd, c)

-----------------------------------------------------------------------------
Init ==
  /\ qsent = [s \in Streams |-> 0] /\ qnext = [s \in Streams |-> 1]
  /\ qend = [s \in Streams |-> "none"] /\ qarmed = [s \in Streams |-> FALSE]
  /\ qshut = [s \in Streams |-> FALSE] /\ qconn = "open" /\ received = FALSE
  /\ recv = Streams
  /\ pending_readable = <<>> /\ pending_resume = <<>>
  /\ needs_iteration = FALSE /\ read_budget = READ_BUDGET
  /\ wpc = "wait" /\ packet = FALSE /\ left = 0 /\ chunks = 0
  /\ cur = NoStream /\ ret = "resumed"
  /\ chan = [s \in Streams |-> <<>>] /\ terminal = [s \in Streams |-> "none"]
  /\ blocked = [s \in Streams |-> FALSE] /\ resume = [s \in Streams |-> FALSE]
  /\ cmd = <<>> /\ storebuf = <<>>
  /\ cpc = [s \in Streams |-> "idle"] /\ waker = [s \in Streams |-> {}]
  /\ woken = [s \in Streams |-> FALSE] /\ delivered = [s \in Streams |-> <<>>]
  /\ seen = [s \in Streams |-> "none"]
  /\ stop_sent = [s \in Streams |-> FALSE] /\ dropped = [s \in Streams |-> FALSE]

-----------------------------------------------------------------------------
(* The worker's stores.  `blocked` and `resume` are written with Release or *)
(* Relaxed stores; without SeqCst they become visible later, in order, and  *)
(* a following load may be performed first.  Read-modify-writes and locks   *)
(* wait for the buffer.                                                     *)

StoreBlocked(s, v) == storebuf' = Append(storebuf, <<"blocked", s, v>>)

Visible == storebuf = <<>>
LoadAllowed == SeqCst => Visible

Flush ==
  /\ storebuf # <<>>
  /\ LET st == Head(storebuf) IN
       IF st[1] = "blocked"
         THEN /\ blocked' = [blocked EXCEPT ![st[2]] = st[3]]
              /\ UNCHANGED resume
         ELSE /\ resume' = [resume EXCEPT ![st[2]] = st[3]]
              /\ UNCHANGED blocked
  /\ storebuf' = Tail(storebuf)
  /\ UNCHANGED <<quicheVars, workerVars, chan, terminal, cmd, frontVars>>

-----------------------------------------------------------------------------
(* Worker loop: packet iterations run the pump and then apply commands,     *)
(* no-packet iterations apply commands first.                               *)

BeginIteration(p, at) ==
  /\ needs_iteration' = FALSE
  /\ read_budget' = READ_BUDGET
  /\ packet' = p
  /\ wpc' = at

\* A packet the worker receives carries a chunk, the FIN or a RESET of stream
\* s.  quiche arms the stream unless its receive side was shut down.
FrameArrives(s) ==
  /\ wpc = "wait" /\ Visible /\ qconn = "open" /\ qend[s] = "none"
  /\ \/ /\ qsent[s] < MaxChunks
        /\ qsent' = [qsent EXCEPT ![s] = @ + 1]
        /\ UNCHANGED qend
     \/ /\ \E e \in PeerEnds : qend' = [qend EXCEPT ![s] = e]
        /\ UNCHANGED qsent
  /\ qarmed' = [qarmed EXCEPT ![s] = ~qshut[s]]
  /\ received' = TRUE
  /\ UNCHANGED <<qnext, qshut, qconn, workerVars, sharedVars, frontVars>>

\* do_process_reads, after the packets of one wakeup were fed to quiche.
PacketIteration ==
  /\ wpc = "wait" /\ Visible /\ received
  /\ received' = FALSE
  /\ BeginIteration(TRUE, "intake")
  /\ left' = DISCOVERY_BUDGET
  /\ UNCHANGED <<qsent, qnext, qend, qarmed, qshut, qconn, recv, queueVars,
                 cur, chunks, ret, sharedVars, frontVars>>

\* wait_for_data returns: deferred work, or a command in the channel.
NoPacketIteration ==
  /\ wpc = "wait" /\ Visible /\ ~received
  /\ needs_iteration \/ cmd # <<>>
  /\ BeginIteration(FALSE, "apply")
  /\ left' = CMD_BUDGET
  /\ UNCHANGED <<quicheVars, recv, queueVars, cur, chunks, ret, sharedVars,
                 frontVars>>

\* The peer's or our own close, or a timeout: quiche's stream calls fail.
ConnectionClosing ==
  /\ MayClose
  /\ wpc = "wait" /\ Visible /\ qconn = "open"
  /\ qconn' = "closing"
  /\ UNCHANGED <<qsent, qnext, qend, qarmed, qshut, received, workerVars, sharedVars,
                 frontVars>>

-----------------------------------------------------------------------------
(* mark_recv_done: drop the registry entry (and with it the Sender) and the *)
(* cursor memberships.                                                      *)

mark_recv_done(s) ==
  /\ recv' = recv \ {s}
  /\ pending_readable' = Without(pending_readable, s)
  /\ pending_resume' = Without(pending_resume, s)

Shutdown(s) ==
  /\ qshut' = [qshut EXCEPT ![s] = TRUE]
  /\ qarmed' = [qarmed EXCEPT ![s] = FALSE]
  /\ UNCHANGED <<qsent, qnext, qend, received, qconn>>

\* One command of apply_inbox: RecvResume queues the id, StopSending shuts
\* the receive side down and releases the entry without a terminal.
apply_inbox ==
  /\ wpc = "apply" /\ Visible
  /\ IF left = 0 \/ cmd = <<>>
       THEN /\ IF packet THEN /\ wpc' = "finish" /\ UNCHANGED left
                         ELSE /\ wpc' = "intake" /\ left' = DISCOVERY_BUDGET
            /\ UNCHANGED <<quicheVars, recv, queueVars, cmd, waker, woken>>
       ELSE LET c == Head(cmd) IN
            /\ cmd' = Tail(cmd)
            /\ left' = left - 1
            /\ \/ /\ c.op = "RecvResume"
                  /\ pending_resume' = Enqueue(pending_resume, c.id)
                  /\ UNCHANGED <<quicheVars, recv, pending_readable, waker, woken>>
               \/ /\ c.op = "StopSending"
                  /\ Shutdown(c.id)
                  /\ mark_recv_done(c.id)
                  /\ Wake(c.id, "chan")
            /\ UNCHANGED wpc
  /\ UNCHANGED <<needs_iteration, read_budget, packet, cur, chunks, ret, chan,
                 terminal, blocked, resume, storebuf, cpc, delivered, seen,
                 stop_sent, dropped>>

\* intake_readable: each id is taken out of quiche's queue for good; one that
\* is registered goes to the registered-drain cursor, another one is left to
\* the admission bookkeeping, which ignores a half that is already done.
intake_readable ==
  /\ wpc = "intake" /\ Visible
  /\ \/ \E s \in Streams :
          /\ left > 0 /\ qarmed[s]
          /\ qarmed' = [qarmed EXCEPT ![s] = FALSE]
          /\ pending_readable' = IF s \in recv THEN Enqueue(pending_readable, s)
                                               ELSE pending_readable
          /\ left' = left - 1
          /\ UNCHANGED <<needs_iteration, wpc>>
     \/ /\ left = 0 \/ \A s \in Streams : ~qarmed[s]
        /\ needs_iteration' = (needs_iteration \/ left = 0)
        /\ left' = RECV_RESUME_BUDGET
        /\ wpc' = "resumed"
        /\ UNCHANGED <<qarmed, pending_readable>>
  /\ UNCHANGED <<qsent, qnext, qend, qshut, received, qconn, recv, pending_resume,
                 read_budget, packet, cur, chunks, ret, sharedVars, frontVars>>

\* Mutant: the resume bit is not cleared before the retry.
ClearResume_KeepsBit(s) == storebuf' = <<<<"blocked", s, FALSE>>>>

\* The worker's two Relaxed stores of drain_resumed.
ClearResume(s) == storebuf' = <<<<"resume", s, FALSE>>, <<"blocked", s, FALSE>>>>

\* drain_resumed: clear the resume bit and the park flag, then retry.
drain_resumed ==
  /\ wpc = "resumed" /\ Visible
  /\ IF left = 0 \/ pending_resume = <<>>
       THEN /\ wpc' = "phase1" /\ left' = READABLE_BUDGET
            /\ UNCHANGED <<pending_resume, storebuf, cur, chunks, ret>>
       ELSE LET s == Head(pending_resume) IN
            /\ pending_resume' = Tail(pending_resume)
            /\ left' = left - 1
            /\ IF s \in recv
                 THEN /\ ClearResume(s)
                      /\ wpc' = "drain" /\ cur' = s
                      /\ chunks' = CHUNK_BUDGET /\ ret' = "resumed"
                 ELSE UNCHANGED <<storebuf, wpc, cur, chunks, ret>>
  /\ UNCHANGED <<quicheVars, recv, pending_readable, needs_iteration,
                 read_budget, packet, chan, terminal, blocked, resume, cmd,
                 frontVars>>

\* phase1_registered_drain: stop when the shared budget or the attempts are
\* used up; an id that lost its entry since it was queued is skipped.
phase1_registered_drain ==
  /\ wpc = "phase1" /\ Visible
  /\ IF left = 0 \/ read_budget = 0 \/ pending_readable = <<>>
       THEN /\ needs_iteration' = (needs_iteration \/
                 (left > 0 /\ read_budget = 0 /\ pending_readable # <<>>))
            /\ IF packet THEN wpc' = "apply" /\ left' = CMD_BUDGET
                         ELSE wpc' = "finish" /\ UNCHANGED left
            /\ UNCHANGED <<pending_readable, cur, chunks, ret>>
       ELSE LET s == Head(pending_readable) IN
            /\ pending_readable' = Tail(pending_readable)
            /\ left' = left - 1
            /\ IF s \in recv
                 THEN /\ wpc' = "drain" /\ cur' = s
                      /\ chunks' = CHUNK_BUDGET /\ ret' = "phase1"
                 ELSE UNCHANGED <<wpc, cur, chunks, ret>>
            /\ UNCHANGED needs_iteration
  /\ UNCHANGED <<quicheVars, recv, pending_resume, read_budget, packet,
                 sharedVars, frontVars>>

\* The end of do_process_writes: has_runnable_remainder.
finish_iteration ==
  /\ wpc = "finish" /\ Visible
  /\ needs_iteration' = (needs_iteration \/ pending_resume # <<>>
                                         \/ pending_readable # <<>>)
  /\ wpc' = "wait" /\ packet' = FALSE /\ left' = 0
  /\ UNCHANGED <<quicheVars, recv, queueVars, read_budget, cur,
                 chunks, ret, sharedVars, frontVars>>

-----------------------------------------------------------------------------
(* drain_stream(cur), one iteration of its chunk loop in several steps.     *)

\* The end of a drain: back to the stage that called it, its locals gone.
Return == wpc' = ret /\ chunks' = 0 /\ cur' = NoStream /\ ret' = "resumed"

\* Dropped H3RecvStream: abandon_recv.
AbandonRecv ==
  /\ dropped[cur]
  /\ Shutdown(cur)
  /\ mark_recv_done(cur)
  /\ Return
  /\ UNCHANGED <<needs_iteration, read_budget, packet, left, sharedVars, frontVars>>

\* The loop header and the first test of drain_stream's body.
BudgetUsed == chunks = 0 \/ read_budget = 0

\* A budget is used up: keep the id queued for the next pump.
DrainBudgetUsed ==
  /\ wpc = "drain" /\ Visible
  /\ BudgetUsed
  /\ LET again == chunks > 0 \/ stream_readable(cur) IN
       /\ pending_readable' = IF again THEN Enqueue(pending_readable, cur)
                                       ELSE pending_readable
       /\ needs_iteration' = (needs_iteration \/ again)
  /\ Return
  /\ UNCHANGED <<quicheVars, recv, pending_resume, read_budget, packet, left,
                 sharedVars, frontVars>>

\* First try_reserve: Full publishes `blocked` before the re-check.
DrainReserve ==
  /\ wpc = "drain" /\ ~BudgetUsed
  /\ \/ Visible /\ AbandonRecv
     \/ /\ ~dropped[cur]
        /\ \/ /\ Len(chan[cur]) < Depth /\ Visible
              /\ wpc' = "read"
              /\ UNCHANGED <<storebuf, chunks, cur, ret>>
           \/ /\ Len(chan[cur]) >= Depth /\ LoadAllowed
              /\ StoreBlocked(cur, TRUE)
              /\ wpc' = "recheck"
              /\ UNCHANGED <<chunks, cur, ret>>
        /\ UNCHANGED <<quicheVars, recv, queueVars, needs_iteration,
                       read_budget, packet, left, chan,
                       terminal, blocked, resume, cmd, frontVars>>

\* Mutant: park without the second look at the channel.
DrainRecheck_AlwaysParks ==
  /\ wpc = "recheck" /\ Visible
  /\ Return
  /\ UNCHANGED <<quicheVars, recv, queueVars, needs_iteration, read_budget,
                 packet, left, sharedVars, frontVars>>

\* Second try_reserve: park only if the channel is still full.
DrainRecheck ==
  /\ wpc = "recheck"
  /\ \/ Visible /\ AbandonRecv
     \/ /\ ~dropped[cur]
        /\ \/ /\ Len(chan[cur]) < Depth /\ Visible
              /\ StoreBlocked(cur, FALSE)
              /\ wpc' = "read"
              /\ UNCHANGED <<chunks, cur, ret>>
           \/ /\ Len(chan[cur]) >= Depth /\ LoadAllowed
              /\ Return
              /\ UNCHANGED storebuf
        /\ UNCHANGED <<quicheVars, recv, queueVars, needs_iteration,
                       read_budget, packet, left, chan,
                       terminal, blocked, resume, cmd, frontVars>>

\* permit.send(chunk); a Receiver dropped since the reserve gets nothing.
PermitSend(s, c) ==
  chan' = [chan EXCEPT ![s] = IF dropped[s] THEN @ ELSE Append(@, c)]

\* stream_recv returned bytes: send them through the permit.
DrainChunk ==
  /\ wpc = "read" /\ Visible
  /\ qend[cur] # "reset" /\ qnext[cur] <= qsent[cur]
  /\ PermitSend(cur, qnext[cur])
  /\ Wake(cur, "chan")
  /\ qnext' = [qnext EXCEPT ![cur] = @ + 1]
  /\ read_budget' = read_budget - 1
  /\ \/ /\ qnext[cur] < qsent[cur]
        /\ wpc' = "drain" /\ chunks' = chunks - 1 /\ UNCHANGED <<cur, ret>>
     \/ /\ qnext[cur] = qsent[cur] /\ qend[cur] = "fin"
        /\ wpc' = "fin" /\ UNCHANGED <<chunks, cur, ret>>
     \/ /\ qnext[cur] = qsent[cur] /\ qend[cur] = "none"
        /\ Return
  /\ UNCHANGED <<qsent, qend, qarmed, qshut, received, qconn, recv, queueVars,
                 needs_iteration, packet, left, terminal, blocked,
                 resume, cmd, storebuf, cpc, delivered, seen, stop_sent, dropped>>

\* stream_recv returned (0, true), a reset, Done, or an error of a closing
\* connection (resolve_recv_via_conn: the entry stays for on_conn_close).
DrainNoBytes ==
  /\ wpc = "read" /\ Visible
  /\ \/ /\ qend[cur] = "reset" \/ (qend[cur] = "fin" /\ qnext[cur] > qsent[cur])
        /\ wpc' = "fin"
        /\ UNCHANGED <<chunks, cur, ret, queueVars>>
     \/ /\ qend[cur] = "none" /\ qnext[cur] > qsent[cur]
        /\ Return
        /\ UNCHANGED queueVars
     \/ /\ qconn = "closing"
        /\ pending_readable' = Without(pending_readable, cur)
        /\ pending_resume' = Without(pending_resume, cur)
        /\ Return
  /\ UNCHANGED <<quicheVars, recv, needs_iteration, read_budget, packet, left,
                 sharedVars, frontVars>>

\* Into the out-of-band cell, never the byte channel; first writer wins.
publish_recv_terminal(s, e) ==
  terminal' = [terminal EXCEPT ![s] = IF @ = "none" THEN e ELSE @]

\* The terminal goes out before the entry is released.
PublishTerminal ==
  /\ wpc = "fin" /\ Visible
  /\ publish_recv_terminal(cur, qend[cur])
  /\ Wake(cur, "term")
  /\ wpc' = "seal"
  /\ UNCHANGED <<quicheVars, recv, queueVars, needs_iteration, read_budget,
                 packet, left, cur, chunks, ret, chan, blocked, resume, cmd,
                 storebuf, cpc, delivered, seen, stop_sent, dropped>>

\* mark_recv_done after the terminal, and return.
SealRecv ==
  /\ wpc = "seal" /\ Visible
  /\ mark_recv_done(cur)
  /\ Wake(cur, "chan")
  /\ Return
  /\ UNCHANGED <<quicheVars, needs_iteration, read_budget, packet, left,
                 sharedVars, cpc, delivered, seen, stop_sent, dropped>>

-----------------------------------------------------------------------------
(* do_on_conn_close: publish into every registered cell, close ingress and  *)
(* drop the remaining commands; the driver's drop then releases the Senders.*)

CloseBegin ==
  /\ wpc = "wait" /\ Visible /\ qconn = "closing"
  /\ wpc' = "close"
  /\ UNCHANGED <<quicheVars, recv, queueVars, needs_iteration, read_budget,
                 packet, left, cur, chunks, ret, sharedVars, frontVars>>

ClosePublish(s) ==
  /\ wpc = "close"
  /\ s \in recv /\ terminal[s] = "none"
  /\ publish_recv_terminal(s, "conn")
  /\ Wake(s, "term")
  /\ UNCHANGED <<quicheVars, workerVars, chan, blocked, resume, cmd, storebuf,
                 cpc, delivered, seen, stop_sent, dropped>>

CloseDrop ==
  /\ wpc = "close"
  /\ \A s \in recv : terminal[s] # "none"
  /\ wpc' = "exited"
  /\ qconn' = "closed"
  /\ cmd' = <<>>
  /\ recv' = {}
  /\ woken' = [s \in Streams |-> woken[s] \/ (s \in recv /\ "chan" \in waker[s])]
  /\ waker' = [s \in Streams |-> IF s \in recv THEN waker[s] \ {"chan"} ELSE waker[s]]
  /\ UNCHANGED <<qsent, qnext, qend, qarmed, qshut, received, queueVars, needs_iteration,
                 read_budget, packet, left, cur, chunks, ret, chan, terminal,
                 blocked, resume,
                 storebuf, cpc, delivered, seen, stop_sent, dropped>>

-----------------------------------------------------------------------------
(* Front end: H3RecvStream of stream s.                                     *)

\* h3 polls again when it wants more, or when its task is woken.
PollData(s) ==
  /\ seen[s] = "none" /\ ~dropped[s]
  /\ cpc[s] = "idle" \/ (cpc[s] = "parked" /\ woken[s])
  /\ cpc' = [cpc EXCEPT ![s] = "poll"]
  /\ woken' = [woken EXCEPT ![s] = FALSE]
  /\ UNCHANGED <<quicheVars, workerVars, sharedVars, waker, delivered, seen,
                 stop_sent, dropped>>

TakeChunk(s) ==
  /\ chan[s] # <<>>
  /\ delivered' = [delivered EXCEPT ![s] = Append(@, Head(chan[s]))]
  /\ chan' = [chan EXCEPT ![s] = Tail(@)]
  /\ cpc' = [cpc EXCEPT ![s] = "swap"]
  /\ UNCHANGED <<waker, seen>>

\* resolve_terminal, or the error for a channel closed without a terminal.
Resolve(s, end) ==
  /\ seen' = [seen EXCEPT ![s] = end]
  /\ cpc' = [cpc EXCEPT ![s] = "idle"]
  /\ UNCHANGED <<chan, waker, delivered>>

\* Mutant: a closed channel is looked at before the bytes it still holds.
PollRecv_ClosedFirst(s) ==
  /\ cpc[s] = "poll"
  /\ \/ /\ SenderGone(s)
        /\ cpc' = [cpc EXCEPT ![s] = "closed"]
        /\ UNCHANGED <<chan, delivered, seen, waker>>
     \/ ~SenderGone(s) /\ TakeChunk(s)
     \/ /\ ~SenderGone(s) /\ chan[s] = <<>>
        /\ cpc' = [cpc EXCEPT ![s] = "open"]
        /\ waker' = [waker EXCEPT ![s] = @ \cup {"chan"}]
        /\ UNCHANGED <<chan, delivered, seen>>
  /\ UNCHANGED <<quicheVars, workerVars, terminal, blocked, resume, cmd,
                 storebuf, woken, stop_sent, dropped>>

\* bytes.poll_recv: bytes first, then closed, else register for a wake.
PollRecv(s) ==
  /\ cpc[s] = "poll"
  /\ \/ TakeChunk(s)
     \/ /\ chan[s] = <<>>
        /\ IF SenderGone(s)
             THEN /\ cpc' = [cpc EXCEPT ![s] = "closed"]
                  /\ UNCHANGED waker
             ELSE /\ cpc' = [cpc EXCEPT ![s] = "open"]
                  /\ waker' = [waker EXCEPT ![s] = @ \cup {"chan"}]
        /\ UNCHANGED <<chan, delivered, seen>>
  /\ UNCHANGED <<quicheVars, workerVars, terminal, blocked, resume, cmd,
                 storebuf, woken, stop_sent, dropped>>

\* Mutant: the terminal is returned without the second look at the channel.
Recheck_Skipped(s) == Resolve(s, terminal[s])

\* The sealing-edge recheck: a byte that raced in comes before the end.
Recheck(s) == TakeChunk(s) \/ (chan[s] = <<>> /\ Resolve(s, terminal[s]))

\* terminal.poll on a closed channel, on an open empty one, and the recheck
\* of the channel once a terminal was observed.
PollTerminal(s) ==
  /\ \/ /\ cpc[s] = "closed"
        /\ Resolve(s, IF terminal[s] = "none" THEN "internal" ELSE terminal[s])
     \/ /\ cpc[s] = "open" /\ terminal[s] # "none"
        /\ cpc' = [cpc EXCEPT ![s] = "recheck"]
        /\ UNCHANGED <<chan, waker, delivered, seen>>
     \/ /\ cpc[s] = "open" /\ terminal[s] = "none"
        /\ cpc' = [cpc EXCEPT ![s] = "parked"]
        /\ waker' = [waker EXCEPT ![s] = @ \cup {"term"}]
        /\ UNCHANGED <<chan, delivered, seen>>
     \/ cpc[s] = "recheck" /\ Recheck(s)
  /\ UNCHANGED <<quicheVars, workerVars, terminal, blocked, resume, cmd,
                 storebuf, woken, stop_sent, dropped>>

\* signal_resume: blocked.swap(false), then resume.swap(true), then the send.
SignalResume(s) ==
  /\ \/ /\ cpc[s] = "swap"
        /\ cpc' = [cpc EXCEPT ![s] = IF blocked[s] THEN "resume" ELSE "idle"]
        /\ blocked' = [blocked EXCEPT ![s] = FALSE]
        /\ UNCHANGED <<resume, cmd>>
     \/ /\ cpc[s] = "resume"
        /\ cpc' = [cpc EXCEPT ![s] = IF resume[s] THEN "idle" ELSE "send"]
        /\ resume' = [resume EXCEPT ![s] = TRUE]
        /\ UNCHANGED <<blocked, cmd>>
     \/ /\ cpc[s] = "send"
        /\ SendCmd(RecvResume(s))
        /\ cpc' = [cpc EXCEPT ![s] = "idle"]
        /\ UNCHANGED <<blocked, resume>>
  /\ UNCHANGED <<quicheVars, workerVars, chan, terminal, storebuf, waker,
                 woken, delivered, seen, stop_sent, dropped>>

\* quic::RecvStream::stop_sending, between two polls.
CallStopSending(s) ==
  /\ s \in Leavers
  /\ cpc[s] \in {"idle", "parked"} /\ ~dropped[s] /\ ~stop_sent[s]
  /\ stop_sent' = [stop_sent EXCEPT ![s] = TRUE]
  /\ SendCmd(StopSending(s))
  /\ UNCHANGED <<quicheVars, workerVars, chan, terminal, blocked, resume,
                 storebuf, cpc, waker, woken, delivered, seen, dropped>>

\* Mutant: dropping the handle tells the worker nothing.
StopOnDrop_Silent(s) == UNCHANGED cmd

\* STOP_SENDING(0) unless already stopped, ended, or about to be told so.
StopOnDrop(s) ==
  IF stop_sent[s] \/ seen[s] \notin {"none", "internal"} \/ terminal[s] # "none"
    THEN UNCHANGED cmd
    ELSE SendCmd(StopSending(s))

\* Drop for H3RecvStream: first the body, then the fields go and with them
\* the Receiver and what it still held.
DropHandle(s) ==
  /\ \/ /\ s \in Leavers \/ seen[s] # "none"
        /\ cpc[s] \in {"idle", "parked"} /\ ~dropped[s]
        /\ StopOnDrop(s)
        /\ cpc' = [cpc EXCEPT ![s] = "dropping"]
        /\ UNCHANGED <<chan, waker, dropped>>
     \/ /\ cpc[s] = "dropping"
        /\ chan' = [chan EXCEPT ![s] = <<>>]
        /\ waker' = [waker EXCEPT ![s] = {}]
        /\ dropped' = [dropped EXCEPT ![s] = TRUE]
        /\ cpc' = [cpc EXCEPT ![s] = "idle"]
        /\ UNCHANGED cmd
  /\ UNCHANGED <<quicheVars, workerVars, terminal, blocked, resume, storebuf,
                 woken, delivered, seen, stop_sent>>

-----------------------------------------------------------------------------
Drain ==
  \/ DrainBudgetUsed \/ DrainReserve \/ DrainRecheck \/ DrainChunk
  \/ DrainNoBytes \/ PublishTerminal \/ SealRecv

Worker ==
  \/ PacketIteration \/ NoPacketIteration \/ apply_inbox \/ intake_readable \/ drain_resumed
  \/ phase1_registered_drain \/ finish_iteration \/ Drain
  \/ CloseBegin \/ CloseDrop \/ \E s \in Streams : ClosePublish(s)

Reader(s) == PollData(s) \/ PollRecv(s) \/ PollTerminal(s) \/ SignalResume(s)

Next ==
  \/ Worker \/ Flush \/ ConnectionClosing
  \/ \E s \in Streams :
       FrameArrives(s) \/ Reader(s) \/ CallStopSending(s) \/ DropHandle(s)

Spec == Init /\ [][Next]_vars

\* The worker task is scheduled, stores become visible, the application keeps
\* polling a stream it has not ended or dropped.  Packets and closes may stop.
Fairness ==
  /\ WF_vars(Worker) /\ WF_vars(Flush)
  /\ \A s \in Streams : WF_vars(Reader(s))
  /\ \A s \in Streams : WF_vars(cpc[s] = "dropping" /\ DropHandle(s))

FairSpec == Spec /\ Fairness

-----------------------------------------------------------------------------
(* Properties *)

Chunk == 1..MaxChunks
Ends == {"none", "fin", "reset", "conn"}
Interval(n) == [i \in 1..n |-> i]

\* The variables of this module keep their types and stay within the bounds.
TypeOK ==
  /\ qsent \in [Streams -> 0..MaxChunks] /\ qnext \in [Streams -> 1..MaxChunks + 1]
  /\ qend \in [Streams -> {"none", "fin", "reset"}]
  /\ qarmed \in [Streams -> BOOLEAN] /\ qshut \in [Streams -> BOOLEAN]
  /\ qconn \in {"open", "closing", "closed"} /\ received \in BOOLEAN
  /\ recv \subseteq Streams
  /\ pending_readable \in Seq(Streams) /\ pending_resume \in Seq(Streams)
  /\ needs_iteration \in BOOLEAN /\ read_budget \in 0..READ_BUDGET
  /\ wpc \in {"wait", "apply", "intake", "resumed", "phase1", "finish", "drain",
              "recheck", "read", "fin", "seal", "close", "exited"}
  /\ packet \in BOOLEAN /\ left \in Nat /\ cur \in Streams \cup {NoStream}
  /\ chunks \in 0..CHUNK_BUDGET /\ ret \in {"resumed", "phase1"}
  /\ chan \in [Streams -> Seq(Chunk)] /\ terminal \in [Streams -> Ends]
  /\ blocked \in [Streams -> BOOLEAN] /\ resume \in [Streams -> BOOLEAN]
  /\ cmd \in Seq(Commands)
  /\ storebuf \in Seq({"blocked", "resume"} \X Streams \X BOOLEAN)
  /\ cpc \in [Streams -> {"idle", "poll", "swap", "resume", "send", "open",
                          "closed", "recheck", "parked", "dropping"}]
  /\ waker \in [Streams -> SUBSET {"chan", "term"}] /\ woken \in [Streams -> BOOLEAN]
  /\ delivered \in [Streams -> Seq(Chunk)]
  /\ seen \in [Streams -> Ends \cup {"internal"}]
  /\ stop_sent \in [Streams -> BOOLEAN] /\ dropped \in [Streams -> BOOLEAN]

\* What the application got and what waits in the channel are exactly the
\* chunks drain_stream read from quiche, in order: none lost, duplicated or
\* reordered by the channel, the parking and the resumes.  poll_data reports an
\* end, of any kind, only after all of them (the sealing edge), and Fin only
\* when that is the whole stream.
NothingLost ==
  \A s \in Streams :
    /\ ~dropped[s] => delivered[s] \o chan[s] = Interval(qnext[s] - 1)
    /\ seen[s] # "none" => Len(delivered[s]) = qnext[s] - 1
    /\ seen[s] = "fin" => qend[s] = "fin" /\ Len(delivered[s]) = qsent[s]

\* A registered stream with something to read that no cursor, readable queue,
\* command or running drain will come back to.
Forgotten(s) ==
  /\ qconn = "open" /\ s \in recv /\ ~dropped[s] /\ stream_readable(s)
  /\ ~qarmed[s] /\ ~Draining(s)
  /\ s \notin Elems(pending_readable) \cup Elems(pending_resume)
  /\ RecvResume(s) \notin Elems(cmd) /\ StopSending(s) \notin Elems(cmd)

\* drain_stream's claim that it never parks with a slot already free: a
\* forgotten stream has a full channel and a published `blocked`, so that the
\* next pop resumes it, or the front end is about to send the resume.
NeverParksWithFreeSlot ==
  \A s \in Streams :
    Forgotten(s) =>
      \/ Len(chan[s]) = Depth /\ (blocked[s] \/ ~Visible)
      \/ cpc[s] = "swap" /\ (blocked[s] \/ ~Visible)
      \/ cpc[s] \in {"resume", "send", "dropping"}

\* The receive path implements the byte stream h3 expects. In particular
\* poll_data's "recv byte channel closed without a published terminal" is seen
\* only by an application that called stop_sending itself.
BS == INSTANCE ByteStream WITH
        sent <- qsent, peer <- qend, closing <- (qconn # "open"),
        stopped <- stop_sent, rcvd <- delivered, end <- seen
RefinesByteStream == BS!Spec

\* An end that reached quiche, or a close of the connection, reaches an
\* application that keeps polling.
EndReached ==
  \A s \in Streams :
    (qend[s] # "none" \/ qconn = "closing") ~> (seen[s] # "none" \/ dropped[s])

\* Dropping H3RecvStream releases the worker's registry entry.
DroppedIsReleased ==
  \A s \in Streams : dropped[s] ~> s \notin recv
=============================================================================
