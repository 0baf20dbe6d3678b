----------------------------- MODULE ConnWorker -----------------------------
(***************************************************************************)
(* The life of one connection: the setup wait, the streams the application *)
(* opens, the close barrier, the teardown after the last handle and the    *)
(* connection terminal everyone is told.                                   *)
(*                                                                         *)
(* The worker's steps (wpc) interleave with the tasks that own a           *)
(* StreamOpener each.  A step is one access to what they share: the command *)
(* channel, the oneshot of an open request, the terminal cell, the strong  *)
(* count of command senders.  quiche changes at "wait" only.               *)
(*                                                                         *)
(* What happens inside an opened stream is RecvPath and SendPath; a half   *)
(* here is in the registry or not, and quiche accepts the FIN of a half    *)
(* that is dropped.                                                        *)
(***************************************************************************)
EXTENDS Integers, Sequences, FiniteSets, Functions

CONSTANTS
  Openers, First,   \* StreamOpener clones; First is the Connection's own
  BidiUsers, UniUsers, \* the openers that poll_open_bidi and poll_open_send use
  IsServer,
  OPEN_BUDGET, CMD_BUDGET,
  MaxBidi, MaxUni,  \* bounds: streams of a class the peer allows
  MaxCloses         \* bound: close() calls; the k-th one has the code k

ASSUME ConnWorkerAssumption ==
  /\ First \in Openers
  /\ BidiUsers \subseteq Openers /\ UniUsers \subseteq Openers
  /\ IsServer \in BOOLEAN
  /\ OPEN_BUDGET \in Nat \ {0} /\ CMD_BUDGET \in Nat \ {0}
  /\ MaxBidi \in Nat /\ MaxUni \in Nat /\ MaxCloses \in Nat

Classes == {"bidi", "uni"}
Users(c) == IF c = "bidi" THEN BidiUsers ELSE UniUsers
H3_NO_ERROR == 256
None == -1          \* no code, no id

VARIABLES
  \* quiche
  credit,           \* credit[c]: peer_streams_left_bidi and _uni
  peer_error, local_error, timed_out,
  \* QuicheDriver
  wpc, left,
  est,              \* the established oneshot
  cmd,              \* inbox and command channel
  open,             \* open_bidi and open_uni
  next_id,          \* next_bidi_id and next_uni_id
  cur,              \* the request and id whose reply is being sent
  registry,         \* <<id, direction>>: the entries of send and recv
  finishing,        \* send entries with a Finish in send_ops
  pending_close, explicit_close_attempted, local_close, close_bug,
  graceful_close_issued, last_handle_teardown, needs_iteration,
  conn_terminal,    \* the terminal cell
  \* front end
  setup,            \* the task in into_established_connection
  opener,           \* none, live, tx_gone (being dropped) or gone
  slot,             \* pending_bidi and pending_uni of an opener
  held,             \* ids of the streams the application holds
  \* history
  told,             \* the errors poll_open_* returned
  materialized,     \* ids given to stream_priority with success
  closes,           \* Close commands sent
  calls             \* calls of qconn.close

quicheVars == <<credit, peer_error, local_error, timed_out>>
closeVars == <<pending_close, explicit_close_attempted, local_close, close_bug,
               graceful_close_issued>>
openVars == <<open, next_id, cur, registry, finishing, materialized>>
frontVars == <<setup, opener, slot, held, told, closes>>
vars == <<quicheVars, wpc, left, est, cmd, openVars, closeVars,
          last_handle_teardown, needs_iteration, conn_terminal, frontVars, calls>>

\* The seeds of with_buffers: ids of one side and class are 4 apart.
Seed == [c \in Classes |-> (IF c = "bidi" THEN 0 ELSE 2) + (IF IsServer THEN 1 ELSE 0)]
ClassOf(id) == IF (id \div 2) % 2 = 0 THEN "bidi" ELSE "uni"
Dirs(c) == IF c = "bidi" THEN {"send", "recv"} ELSE {"send"}
MaterializedIn(c) == {id \in materialized : ClassOf(id) = c}
Entries(id) == {<<id, d>> : d \in Dirs(ClassOf(id))}

\* A slot of an opener: none, send (checked, not sent), queued, ok or err.
Slot(st, id, err) == [st |-> st, id |-> id, err |-> err]
Idle == Slot("none", None, "none")

Init ==
  /\ credit = [c \in Classes |-> 0]
  /\ peer_error = "none" /\ local_error = "none"
  /\ timed_out = FALSE
  /\ wpc = "handshake" /\ left = 0 /\ est = "none" /\ cmd = <<>>
  /\ open = [c \in Classes |-> <<>>] /\ next_id = Seed
  /\ cur = <<>> /\ registry = {} /\ finishing = {}
  /\ pending_close = None /\ explicit_close_attempted = FALSE
  /\ local_close = None /\ close_bug = FALSE
  /\ graceful_close_issued = FALSE /\ last_handle_teardown = FALSE
  /\ needs_iteration = FALSE
  /\ conn_terminal = [kind |-> "none", origin |-> "none", code |-> None]
  /\ setup = "waiting"
  /\ opener = [o \in Openers |-> "none"]
  /\ slot = [o \in Openers |-> [c \in Classes |-> Idle]]
  /\ held = {} /\ told = {} /\ materialized = {}
  /\ closes = 0 /\ calls = 0

-----------------------------------------------------------------------------
(* Errors.                                                                 *)

Terminal(kind, origin, code) == [kind |-> kind, origin |-> origin, code |-> code]
Internal == Terminal("Internal", "none", None)

\* conn_terminal_from_error for peer_error() or local_error().
conn_terminal_from_error(origin, err) ==
  Terminal(IF err = "app" THEN "AppClose" ELSE "Transport", origin, None)

\* Mutant: our own close outranks the peer's.
classify_conn_terminal_LocalFirst ==
  IF ~close_bug /\ local_close # None
    THEN Terminal("AppClose", "Local", local_close)
  ELSE IF ~close_bug /\ peer_error # "none" THEN conn_terminal_from_error("Peer", peer_error)
  ELSE IF ~close_bug /\ timed_out THEN Terminal("Timeout", "none", None)
  ELSE IF ~close_bug /\ local_error # "none" THEN conn_terminal_from_error("Local", local_error)
  ELSE Internal

\* classify_conn_terminal: the first cause in the order of precedence.
classify_conn_terminal ==
  IF close_bug THEN Internal
  ELSE IF peer_error # "none" THEN conn_terminal_from_error("Peer", peer_error)
  ELSE IF timed_out THEN Terminal("Timeout", "none", None)
  ELSE IF local_close # None THEN Terminal("AppClose", "Local", local_close)
  ELSE IF local_error # "none" THEN conn_terminal_from_error("Local", local_error)
  ELSE Internal

\* ConnTerminal::to_h3: only a close by the peer is an ApplicationClose.
to_h3(t) ==
  CASE t.kind = "AppClose" /\ t.origin = "Peer" -> "ApplicationClose"
    [] t.kind = "AppClose" /\ t.origin = "Local" -> "Undefined"
    [] t.kind = "Transport" -> "Undefined"
    [] t.kind = "Timeout" -> "Timeout"
    [] OTHER -> "InternalError"

-----------------------------------------------------------------------------
(* The command channel.                                                    *)

OpenCmd(o, c) == [op |-> "Open", req |-> <<o, c>>]
CloseCmd(code) == [op |-> "Close", code |-> code]
Finish(id) == [op |-> "Finish", id |-> id]
StopSending(id) == [op |-> "StopSending", id |-> id]

\* Mutant: the cleanup of a bidi handoff stops at its send half.
HandoffCleanup_SendOnly(id) == <<Finish(id)>>

\* Dropping both halves of a handoff or of an H3Stream, the send half first.
HandoffCleanup(id) ==
  IF ClassOf(id) = "bidi" THEN <<Finish(id), StopSending(id)>> ELSE <<Finish(id)>>

\* quiche is closing, draining or closed.
Closing == peer_error # "none" \/ local_error # "none" \/ timed_out

\* cmd_rx is open until on_conn_close has published the terminal.
IngressOpen == wpc # "exited"

\* cmd_tx.send of commands without a reply: an error is ignored.
Send(cs) == cmd' = IF IngressOpen THEN cmd \o cs ELSE cmd

\* A strong command sender exists: the setup task, an opener, a stream, or a
\* handoff in an oneshot nobody has polled yet.
HasHandles ==
  \/ setup = "waiting"
  \/ \E o \in Openers : opener[o] = "live"
  \/ held # {}
  \/ \E o \in Openers, c \in Classes : slot[o][c].st = "ok"

\* reply.is_closed(): the receiver went with its opener.
Cancelled(req) == opener[req[1]] = "gone"

-----------------------------------------------------------------------------
(* quiche and the runtime, between two callbacks.                          *)

WorkerRest ==
  UNCHANGED <<est, openVars, closeVars, conn_terminal, frontVars, calls>>

\* A packet brings stream credit or a close by the peer, or makes quiche end
\* the connection over a violation.  A closing connection takes only a close.
Packet ==
  /\ wpc = "wait"
  /\ \/ \E c \in Classes : /\ ~Closing
                           /\ credit[c] + Cardinality(MaterializedIn(c)) <
                                IF c = "bidi" THEN MaxBidi ELSE MaxUni
                           /\ credit' = [credit EXCEPT ![c] = @ + 1]
                           /\ UNCHANGED <<peer_error, local_error>>
     \/ /\ peer_error = "none"
        /\ peer_error' \in {"app", "transport"}
        /\ UNCHANGED <<credit, local_error>>
     \/ /\ ~Closing /\ local_error' = "transport"
        /\ UNCHANGED <<credit, peer_error>>
  /\ needs_iteration' = FALSE
  /\ wpc' = "apply" /\ left' = CMD_BUDGET
  /\ UNCHANGED <<timed_out, cmd, last_handle_teardown>>
  /\ WorkerRest

\* The idle timeout, before anybody closed: quiche is closed at once, and the
\* worker's loop ends without another iteration.
TimesOut ==
  /\ wpc = "wait" /\ ~Closing
  /\ timed_out' = TRUE
  /\ wpc' = "ended"
  /\ UNCHANGED <<credit, peer_error, local_error, left, cmd,
                 last_handle_teardown, needs_iteration>>
  /\ WorkerRest

\* The handshake completes: on_conn_established answers the oneshot.
on_conn_established ==
  /\ wpc = "handshake"
  /\ est' = "ok" /\ wpc' = "wait"
  /\ UNCHANGED <<quicheVars, left, cmd, openVars, closeVars, last_handle_teardown,
                 needs_iteration, conn_terminal, frontVars, calls>>

\* It fails: QuicheDriver::drop answers, without on_conn_close.
PreHandshakeWorkerExit ==
  /\ wpc = "handshake"
  /\ est' = "err" /\ wpc' = "exited"
  /\ UNCHANGED <<quicheVars, left, cmd, openVars, closeVars, last_handle_teardown,
                 needs_iteration, conn_terminal, frontVars, calls>>

-----------------------------------------------------------------------------
(* The worker.                                                             *)

wait_decision ==
  CASE graceful_close_issued -> "Pending"
    [] ~graceful_close_issued /\ needs_iteration -> "Yield"
    [] OTHER -> "Recv"

\* wait_for_data: deferred work, a command, or the end of the channel.
wait_for_data ==
  /\ wpc = "wait"
  /\ \/ wait_decision = "Yield" /\ UNCHANGED last_handle_teardown
     \/ wait_decision = "Recv" /\ cmd # <<>> /\ UNCHANGED last_handle_teardown
     \/ /\ wait_decision = "Recv" /\ cmd = <<>> /\ ~HasHandles
        /\ last_handle_teardown' = TRUE
  /\ needs_iteration' = FALSE
  /\ wpc' = "apply" /\ left' = CMD_BUDGET
  /\ UNCHANGED <<quicheVars, cmd>>
  /\ WorkerRest

Stage == [bidi |-> "open_bidi", uni |-> "open_uni"]

\* Go on with the first of the stages that has a request, or with stage_send.
GoTo(stages, queue) ==
  \/ /\ \A c \in stages : queue[c] = <<>>
     /\ wpc' = "finish" /\ left' = 0
  \/ \E c \in stages : /\ queue[c] # <<>>
                       /\ c = "uni" /\ "bidi" \in stages => queue["bidi"] = <<>>
                       /\ wpc' = Stage[c] /\ left' = OPEN_BUDGET

\* stage_open_bidi is followed by stage_open_uni.
StageEnds(c) == GoTo(IF c = "bidi" THEN {"uni"} ELSE {}, open)

\* Mutant: the last close wins.
StageClose_Last(code) == pending_close' = code

\* A Close is staged unless one is staged or was attempted.
StageClose(code) ==
  pending_close' = IF pending_close = None /\ ~explicit_close_attempted
                     THEN code ELSE pending_close

\* apply_inbox, one command.  A Finish recreates a send entry that is gone.
apply_inbox ==
  /\ wpc = "apply"
  /\ IF cmd = <<>>
       THEN /\ GoTo(Classes, open)
            /\ UNCHANGED <<cmd, open, pending_close, registry, finishing>>
       ELSE LET m == Head(cmd) IN
            /\ \/ /\ m.op = "Open"
                  /\ open' = [open EXCEPT ![m.req[2]] = Append(@, m.req)]
                  /\ UNCHANGED <<pending_close, registry, finishing>>
               \/ /\ m.op = "Close"
                  /\ StageClose(m.code)
                  /\ UNCHANGED <<open, registry, finishing>>
               \/ /\ m.op = "Finish"
                  /\ finishing' = finishing \cup {m.id}
                  /\ registry' = registry \cup {<<m.id, "send">>}
                  /\ UNCHANGED <<open, pending_close>>
               \/ /\ m.op = "StopSending"
                  /\ registry' = registry \ {<<m.id, "recv">>}
                  /\ UNCHANGED <<open, pending_close, finishing>>
            /\ cmd' = Tail(cmd)
            /\ IF left > 1 THEN left' = left - 1 /\ UNCHANGED wpc
                           ELSE GoTo(Classes, open')
  /\ UNCHANGED <<quicheVars, est, next_id, cur, materialized,
                 explicit_close_attempted, local_close, close_bug,
                 graceful_close_issued, last_handle_teardown, needs_iteration,
                 conn_terminal, frontVars, calls>>

\* open_terminal and submit_terminal.
published_terminal ==
  IF conn_terminal.kind = "none" THEN Internal ELSE conn_terminal

\* reply.send(Err(..)) on a request: nothing happens if its poller is gone.
Answer(reqs, t) ==
  slot' = [o \in Openers |-> [c \in Classes |->
             IF <<o, c>> \in reqs /\ ~Cancelled(<<o, c>>)
               THEN Slot("err", None, to_h3(t)) ELSE slot[o][c]]]

\* Mutant: a backlog left by the budget does not force another iteration.
Backlog_Ignored(c) == FALSE

\* Requests are left when the budget ends.
Backlog(c) == open[c] # <<>>

\* Mutant: the counter advances whatever became of the request.
Advance_Always(c, ok) == next_id' = [next_id EXCEPT ![c] = @ + 4]

\* The counter advances only after materialization succeeded.
Advance(c, ok) == next_id' = IF ok THEN [next_id EXCEPT ![c] = @ + 4] ELSE next_id

\* stage_open_*, up to the reply: the stage ends, there is no credit for the
\* request, it was cancelled, it is declined because the last sender is gone,
\* or its stream materializes (stream_priority succeeds within the credit).
stage_open(c) ==
  /\ wpc = Stage[c]
  /\ \/ /\ left = 0 \/ open[c] = <<>>
        /\ needs_iteration' = (needs_iteration \/ Backlog(c))
        /\ StageEnds(c)
        /\ UNCHANGED <<credit, slot, openVars>>
     \/ /\ left > 0 /\ open[c] # <<>>
        /\ LET req == Head(open[c]) IN LET id == next_id[c] IN
           \/ /\ ~Cancelled(req) /\ credit[c] = 0
              /\ StageEnds(c)
              /\ UNCHANGED <<credit, slot, openVars>>
           \/ /\ Cancelled(req) \/ credit[c] > 0
              /\ open' = [open EXCEPT ![c] = Tail(@)]
              /\ left' = left - 1
              /\ \/ /\ Cancelled(req)
                    /\ Advance(c, FALSE)
                    /\ UNCHANGED <<wpc, credit, slot, cur, registry, materialized>>
                 \/ /\ ~Cancelled(req) /\ ~HasHandles
                    /\ Answer({req}, published_terminal)
                    /\ Advance(c, FALSE)
                    /\ UNCHANGED <<wpc, credit, cur, registry, materialized>>
                 \/ /\ ~Cancelled(req) /\ HasHandles
                    /\ Advance(c, TRUE)
                    /\ materialized' = materialized \cup {id}
                    /\ credit' = [credit EXCEPT ![c] = @ - 1]
                    /\ registry' = registry \cup Entries(id)
                    /\ cur' = <<req, id>>
                    /\ wpc' = "reply"
                    /\ UNCHANGED slot
              /\ UNCHANGED finishing
        /\ UNCHANGED needs_iteration
  /\ UNCHANGED <<peer_error, local_error, timed_out, est, cmd,
                 closeVars, last_handle_teardown, conn_terminal, setup, opener,
                 held, told, closes, calls>>

\* reply.send(Ok(handoff)): the handoff of a poller that is gone is dropped,
\* then cleanup_undeliverable_open forgets the stream and shuts it down.
deliver ==
  /\ wpc = "reply"
  /\ LET req == cur[1] IN LET id == cur[2] IN
     /\ \/ /\ ~Cancelled(req)
           /\ slot' = [slot EXCEPT ![req[1]][req[2]] = Slot("ok", id, "none")]
           /\ UNCHANGED <<cmd, registry>>
        \/ /\ Cancelled(req)
           /\ Send(HandoffCleanup(id))
           /\ registry' = registry \ Entries(id)
           /\ UNCHANGED slot
     /\ wpc' = Stage[req[2]]
  /\ cur' = <<>>
  /\ UNCHANGED <<quicheVars, left, est, open, next_id, finishing, materialized,
                 closeVars, last_handle_teardown, needs_iteration,
                 conn_terminal, setup, opener, held, told, closes, calls>>

\* Mutant: no synthetic close after the last handle.
CloseDue_ExplicitOnly == ~explicit_close_attempted /\ pending_close # None

\* apply_close_barrier calls qconn.close: for a staged Close, or after the last
\* handle if nothing else ended the connection; once in any case.
CloseDue ==
  /\ ~explicit_close_attempted
  /\ \/ pending_close # None
     \/ last_handle_teardown /\ ~Closing /\ local_close = None

\* The answer of qconn.close: Done if the connection is ending already.
apply_close_barrier ==
  IF ~CloseDue
    THEN wpc' = "wait" /\ UNCHANGED <<closeVars, local_error, calls>>
    ELSE /\ explicit_close_attempted' = TRUE
         /\ pending_close' = None
         /\ calls' = calls + 1
         /\ \/ /\ ~Closing
               /\ local_close' = IF pending_close # None THEN pending_close
                                                        ELSE H3_NO_ERROR
               /\ local_error' = "app"
               /\ graceful_close_issued' = TRUE
               /\ wpc' = "wait"
               /\ UNCHANGED close_bug
            \/ /\ Closing
               /\ graceful_close_issued' = TRUE
               /\ wpc' = "wait"
               /\ UNCHANGED <<local_close, local_error, close_bug>>
            \/ /\ close_bug' = TRUE
               /\ wpc' = "ended"
               /\ UNCHANGED <<local_close, local_error, graceful_close_issued>>

\* stage_send and the barrier.  The FIN of a dropped half is sent and its
\* entry reclaimed once the receive half is gone too.
finish_iteration ==
  /\ wpc = "finish"
  /\ LET over == {id \in finishing : <<id, "recv">> \notin registry} IN
     /\ finishing' = finishing \ over
     /\ registry' = registry \ {<<id, "send">> : id \in over}
  /\ apply_close_barrier
  /\ UNCHANGED <<credit, peer_error, timed_out, left, est, cmd, open,
                 next_id, cur, materialized, last_handle_teardown,
                 needs_iteration, conn_terminal, frontVars>>

\* do_on_conn_close publishes the terminal; entered when quiche's drain timer ends
\* a closing connection, at once after the idle timeout, or when a callback fails.
on_conn_close ==
  /\ wpc = "ended" \/ (wpc = "wait" /\ Closing)
  /\ conn_terminal' = classify_conn_terminal
  /\ wpc' = "drain"
  /\ UNCHANGED <<quicheVars, left, est, cmd, openVars, closeVars,
                 last_handle_teardown, needs_iteration, frontVars, calls>>

\* It closes the channel, answers what is left in it and in the open queues,
\* and the worker ends.
drain_on_close ==
  /\ wpc = "drain"
  /\ LET inCmd == {m.req : m \in {n \in Range(cmd) : n.op = "Open"}} IN
     Answer(inCmd \cup Range(open["bidi"]) \cup Range(open["uni"]), conn_terminal)
  /\ cmd' = <<>> /\ open' = [c \in Classes |-> <<>>]
  /\ registry' = {} /\ finishing' = {}
  /\ wpc' = "exited"
  /\ UNCHANGED <<quicheVars, left, est, next_id, cur, materialized,
                 closeVars, last_handle_teardown, needs_iteration, conn_terminal,
                 setup, opener, held, told, closes, calls>>

Worker ==
  \/ on_conn_established \/ PreHandshakeWorkerExit
  \/ wait_for_data \/ apply_inbox \/ (\E c \in Classes : stage_open(c)) \/ deliver
  \/ finish_iteration \/ drain_on_close

-----------------------------------------------------------------------------
(* The front end.                                                          *)

workerVars == <<quicheVars, wpc, left, est, openVars, closeVars,
                last_handle_teardown, needs_iteration, conn_terminal, calls>>

\* into_established_connection, called by the acceptor and by connect().
into_established_connection ==
  /\ setup = "waiting" /\ est # "none"
  /\ setup' = IF est = "ok" THEN "connected" ELSE "failed"
  /\ opener' = [opener EXCEPT ![First] = IF est = "ok" THEN "live" ELSE @]
  /\ UNCHANGED <<workerVars, cmd, slot, held, told, closes>>

\* The task that waits is dropped, and the handles with it.
AbandonSetup ==
  /\ setup = "waiting"
  /\ setup' = "failed"
  /\ UNCHANGED <<workerVars, cmd, opener, slot, held, told, closes>>

\* opener() or StreamOpener::clone: both slots of the clone are empty.
Clone(o) ==
  /\ opener[o] = "none" /\ \E p \in Openers : opener[p] = "live"
  /\ opener' = [opener EXCEPT ![o] = "live"]
  /\ UNCHANGED <<workerVars, cmd, setup, slot, held, told, closes>>

\* The task of an opener is not in the middle of a poll.
Free(o) == opener[o] = "live" /\ \A c \in Classes : slot[o][c].st # "send"

\* poll_open_* with an empty slot: a published terminal answers at once.
poll_open(o, c) ==
  /\ o \in Users(c) /\ Free(o) /\ slot[o][c] = Idle
  /\ IF conn_terminal.kind # "none"
       THEN told' = told \cup {to_h3(conn_terminal)} /\ UNCHANGED slot
       ELSE slot' = [slot EXCEPT ![o][c] = Slot("send", None, "none")] /\ UNCHANGED told
  /\ UNCHANGED <<workerVars, cmd, setup, opener, held, closes>>

\* The request is sent; a closed channel answers with the terminal.
Submit(o, c) ==
  /\ slot[o][c].st = "send"
  /\ IF IngressOpen
       THEN /\ cmd' = Append(cmd, OpenCmd(o, c))
            /\ slot' = [slot EXCEPT ![o][c] = Slot("queued", None, "none")]
            /\ UNCHANGED told
       ELSE /\ slot' = [slot EXCEPT ![o][c] = Idle]
            /\ told' = told \cup {to_h3(published_terminal)}
            /\ UNCHANGED cmd
  /\ UNCHANGED <<workerVars, setup, opener, held, closes>>

\* poll_open_* finds the reply.
poll_reply(o, c) ==
  /\ Free(o)
  /\ \/ /\ slot[o][c].st = "ok"
        /\ held' = held \cup {slot[o][c].id}
        /\ UNCHANGED told
     \/ /\ slot[o][c].st = "err"
        /\ told' = told \cup {slot[o][c].err}
        /\ UNCHANGED held
  /\ slot' = [slot EXCEPT ![o][c] = Idle]
  /\ UNCHANGED <<workerVars, cmd, setup, opener, closes>>

\* OpenStreams::close.
close(o) ==
  /\ Free(o) /\ closes < MaxCloses /\ IngressOpen
  /\ Send(<<CloseCmd(closes + 1)>>)
  /\ closes' = closes + 1
  /\ UNCHANGED <<workerVars, setup, opener, slot, held, told>>

\* An opener is dropped: its command sender first, then its slots, if any is
\* full, with any handoff nobody polled.
DropSender(o) ==
  /\ Free(o)
  /\ opener' = [opener EXCEPT ![o] =
       IF \A c \in Classes : slot[o][c] = Idle THEN "gone" ELSE "tx_gone"]
  /\ UNCHANGED <<workerVars, cmd, setup, slot, held, told, closes>>

DropSlots(o) ==
  /\ opener[o] = "tx_gone"
  /\ opener' = [opener EXCEPT ![o] = "gone"]
  /\ LET cleanup(c) == IF slot[o][c].st = "ok" THEN HandoffCleanup(slot[o][c].id)
                                              ELSE <<>>
     IN Send(cleanup("bidi") \o cleanup("uni"))
  /\ slot' = [slot EXCEPT ![o] = [c \in Classes |-> Idle]]
  /\ UNCHANGED <<workerVars, setup, held, told, closes>>

\* The application drops a stream.
StreamDrop(id) ==
  /\ held' = held \ {id}
  /\ Send(HandoffCleanup(id))
  /\ UNCHANGED <<workerVars, setup, opener, slot, told, closes>>

Next ==
  \/ Packet \/ TimesOut \/ Worker \/ on_conn_close
  \/ into_established_connection \/ AbandonSetup
  \/ \E o \in Openers : \/ Clone(o) \/ DropSender(o) \/ DropSlots(o)
                        \/ close(o)
                        \/ \E c \in Classes : \/ poll_open(o, c) \/ Submit(o, c)
                                              \/ poll_reply(o, c)
  \/ \E id \in held : StreamDrop(id)

Spec == Init /\ [][Next]_vars

\* The runtime keeps polling the worker, whose select gives the timers of a
\* closing connection priority; a destructor and a poll run to their end.
Fairness ==
  /\ WF_vars(Worker)
  /\ SF_vars(on_conn_close)
  /\ WF_vars(into_established_connection)
  /\ \A o \in Openers : /\ WF_vars(DropSlots(o))
                         /\ \A c \in Classes : WF_vars(Submit(o, c))

FairSpec == Spec /\ Fairness

-----------------------------------------------------------------------------
(* Properties.                                                             *)

(* Everyone hears one cause and it is the right one.  Every opener, polled *)
(* before, during or after the end, is told the published terminal; a close *)
(* of ours is never reported as one by the peer, and the peer's is never    *)
(* hidden behind ours.  A request that races the end, wherever it is caught *)
(* (before the check, before the send, in the channel, in a queue), is not  *)
(* answered with an internal error unless quiche broke its contract.        *)
TellsTheCause ==
  /\ told \subseteq {to_h3(conn_terminal)}
  /\ "ApplicationClose" \in told => peer_error = "app"
  /\ peer_error = "app" /\ ~close_bug => told \subseteq {"ApplicationClose"}
  /\ "InternalError" \in told => close_bug

(* The first Close sent is the one applied, qconn.close is called at most   *)
(* once, and the close of the last handle never overtakes an explicit one.  *)
FirstCloseWins ==
  /\ calls <= 1
  /\ local_close # None =>
       local_close = IF closes = 0 THEN H3_NO_ERROR ELSE 1

GivenOut == {slot[o][c].id : o \in Openers, c \in Classes} \ {None}

(* Stream ids: those quiche was given are consecutive in each class, so that *)
(* quiche opens none implicitly, whatever was cancelled, declined or         *)
(* undeliverable, and no id reaches two owners.                             *)
IdsDense ==
  /\ \A c \in Classes :
       MaterializedIn(c) = {Seed[c] + 4 * k :
                              k \in 0..(Cardinality(MaterializedIn(c)) - 1)}
  /\ GivenOut \cap held = {}
  /\ \A o, p \in Openers, c, d \in Classes :
       (slot[o][c].st = "ok" /\ slot[o][c].id = slot[p][d].id) => o = p /\ c = d

(* No half leaks: with no command left to apply, the registry has the       *)
(* halves of the streams somebody owns and no other, even if the poller     *)
(* went away before, while or after the stream was handed over.             *)
NoLeakedHalf ==
  wpc = "wait" /\ cmd = <<>> =>
    registry = UNION {Entries(id) : id \in held \cup GivenOut}

(* Under fair scheduling an open request is answered as soon as the peer's  *)
(* credit or the end of the connection allows it: no backlog is stranded.   *)
OpenAnswered ==
  \A c \in Classes : \A o \in Users(c) :
    LET waiting == slot[o][c].st = "queued" /\ opener[o] = "live"
        able == credit[c] > 0 \/ Closing
    IN (waiting /\ able) ~> (~waiting \/ ~able)

(* A connection without handles winds down: the worker ends, whoever else   *)
(* closes it in the meantime.                                               *)
WindsDown == (~HasHandles /\ wpc # "handshake") ~> (wpc = "exited")

(* Once the end of the channel was consumed by an iteration, the wait does  *)
(* not return on it again (section 5 (g) of the design).                    *)
EofWaitsPending ==
  (wpc = "wait" /\ last_handle_teardown) => wait_decision = "Pending"
=============================================================================
