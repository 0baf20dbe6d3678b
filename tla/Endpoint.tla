------------------------------ MODULE Endpoint ------------------------------
(***************************************************************************)
(* The server endpoint: the registry of connection workers behind one      *)
(* mutex, the acceptors that register and start workers, the workers that  *)
(* deregister when their driver is dropped, close() and wait_idle().       *)
(*                                                                         *)
(* Every lock section of EndpointShared.state is one step; what the code   *)
(* does outside the lock (notify_waiters, the broadcast, the await) is a   *)
(* step of its own.  tokio's Notify and the connection workers' transport  *)
(* are external.  A close frame is named after the caller it came from.    *)
(***************************************************************************)
EXTENDS Integers, Sequences, FiniteSets

CONSTANTS
  Acceptors,                 \* acceptors of one bind() call
  Closers,                   \* tasks that call close(), once each
  Waiters,                   \* tasks that call wait_idle(), once each
  MaxConns,                  \* bound: connections ever started
  MAX_IN_FLIGHT_HANDSHAKES,
  NoFrame, NoError           \* no frame yet; the frame of the last-handle teardown

Ids == 0..MaxConns - 1

ASSUME EndpointAssumption ==
  /\ MaxConns \in Nat
  /\ MAX_IN_FLIGHT_HANDSHAKES \in Nat \ {0}
  /\ NoFrame \notin Closers /\ NoError \notin Closers /\ NoFrame # NoError

VARIABLES
  \* EndpointState
  conns, live, closing, close_frame, next_id,
  \* H3QuicheAcceptor
  apc, snap, awake, handshakes, incoming_done, yielded,
  \* connection workers: state, establishment signal, close commands, the
  \* frame the connection closed with, the front end's strong sender
  wstate, established, inbox, closed_with, handle,
  \* close() and wait_idle() calls
  cpc, cframe, recipients,
  ipc, woken

stateVars    == <<conns, live, closing, close_frame, next_id>>
acceptorVars == <<apc, snap, awake, handshakes, incoming_done, yielded>>
workerVars   == <<wstate, established, inbox, closed_with, handle>>
closerVars   == <<cpc, cframe, recipients>>
waiterVars   == <<ipc, woken>>
vars == <<stateVars, acceptorVars, workerVars, closerVars, waiterVars>>

Running == {"handshake", "established", "closing"}

\* WeakUnboundedSender::upgrade: some strong sender is left.
Upgradable(id) == handle[id] \/ \E c \in Closers : id \in recipients[c]

Init ==
  /\ conns = {} /\ live = 0 /\ closing = FALSE /\ close_frame = NoFrame /\ next_id = 0
  /\ apc = [a \in Acceptors |-> "out"] /\ snap = [a \in Acceptors |-> FALSE]
  /\ awake = [a \in Acceptors |-> FALSE] /\ handshakes = [a \in Acceptors |-> {}]
  /\ incoming_done = [a \in Acceptors |-> FALSE] /\ yielded = {}
  /\ wstate = [i \in Ids |-> "none"] /\ established = [i \in Ids |-> "none"]
  /\ inbox = [i \in Ids |-> <<>>] /\ closed_with = [i \in Ids |-> NoFrame]
  /\ handle = [i \in Ids |-> FALSE]
  /\ cpc = [c \in Closers |-> "start"] /\ cframe = [c \in Closers |-> NoFrame]
  /\ recipients = [c \in Closers |-> {}]
  /\ ipc = [w \in Waiters |-> "start"] /\ woken = [w \in Waiters |-> FALSE]

-----------------------------------------------------------------------------
(* H3QuicheAcceptor::accept.  A turn of its loop arms accept_wake, reads     *)
(* closing, and selects.                                                     *)

\* Arming is creating and enabling the Notified future.
Arm(a) == /\ apc' = [apc EXCEPT ![a] = "check"]
          /\ awake' = [awake EXCEPT ![a] = FALSE]
          /\ snap' = [snap EXCEPT ![a] = FALSE]

\* The accept call is over, and its Notified and its snapshot with it.
Leave(a, where) == /\ apc' = [apc EXCEPT ![a] = where]
                   /\ awake' = [awake EXCEPT ![a] = FALSE]
                   /\ snap' = [snap EXCEPT ![a] = FALSE]

CallAccept(a) ==
  /\ apc[a] = "out"
  /\ Arm(a)
  /\ UNCHANGED <<stateVars, handshakes, incoming_done, yielded, workerVars,
                 closerVars, waiterVars>>

\* is_closing(), and Ok(None) when admission is done and no handshake is left.
AcceptCheck(a) ==
  /\ apc[a] = "check"
  /\ IF (incoming_done[a] \/ closing) /\ handshakes[a] = {}
       THEN Leave(a, "ended")
       ELSE /\ snap' = [snap EXCEPT ![a] = closing]
            /\ apc' = [apc EXCEPT ![a] = "poll"]
            /\ UNCHANGED awake
  /\ UNCHANGED <<stateVars, handshakes, incoming_done, yielded, workerVars,
                 closerVars, waiterVars>>

\* The lock is released before select! polls its arms.
AcceptPoll(a) ==
  /\ apc[a] = "poll"
  /\ apc' = [apc EXCEPT ![a] = "select"]
  /\ UNCHANGED <<stateVars, snap, awake, handshakes, incoming_done, yielded,
                 workerVars, closerVars, waiterVars>>

\* Arm 0: close() woke the accept call.
AcceptWoken(a) ==
  /\ apc[a] = "select" /\ ~snap[a] /\ awake[a]
  /\ Arm(a)
  /\ UNCHANGED <<stateVars, handshakes, incoming_done, yielded, workerVars,
                 closerVars, waiterVars>>

\* Whether a connection whose handshake is over may be yielded: closing is
\* read again under the lock.
\* Mutant: the snapshot of the top of the loop is trusted.
MayYield_Snapshot(a) == ~snap[a]
MayYield(a) == ~(snap[a] \/ closing)

\* Arm 1: a handshake is over; its connection is yielded or dropped.
AcceptHandshake(a, id) ==
  /\ apc[a] = "select" /\ id \in handshakes[a] /\ established[id] # "none"
  /\ handshakes' = [handshakes EXCEPT ![a] = @ \ {id}]
  /\ IF established[id] = "ok" /\ MayYield(a)
       THEN /\ yielded' = yielded \cup {id}
            /\ Leave(a, "out")
            /\ UNCHANGED handle
       ELSE /\ handle' = [handle EXCEPT ![id] = FALSE]
            /\ Arm(a)
            /\ UNCHANGED yielded
  /\ UNCHANGED <<stateVars, incoming_done, wstate, established, inbox,
                 closed_with, closerVars, waiterVars>>

Polling(a) ==
  /\ apc[a] = "select" /\ ~(incoming_done[a] \/ snap[a])
  /\ Cardinality(handshakes[a]) < MAX_IN_FLIGHT_HANDSHAKES

\* try_register's admission fence.
\* Mutant: the check at the top of the accept loop is thought to be enough.
Admits_Unfenced == TRUE
Admits == ~closing

\* Arm 2: try_register and, on success, start the worker.
AcceptIncoming(a) ==
  /\ Polling(a) /\ next_id < MaxConns
  /\ IF Admits
       THEN /\ next_id' = next_id + 1
            /\ conns' = conns \cup {next_id}
            /\ live' = live + 1
            /\ wstate' = [wstate EXCEPT ![next_id] = "handshake"]
            /\ handle' = [handle EXCEPT ![next_id] = TRUE]
            /\ handshakes' = [handshakes EXCEPT ![a] = @ \cup {next_id}]
       ELSE UNCHANGED <<next_id, conns, live, wstate, handle, handshakes>>
  /\ Arm(a)
  /\ UNCHANGED <<closing, close_frame, incoming_done, yielded, established,
                 inbox, closed_with, closerVars, waiterVars>>

\* Arm 2: the listener ended.
ListenerEnds(a) ==
  /\ Polling(a)
  /\ incoming_done' = [incoming_done EXCEPT ![a] = TRUE]
  /\ Arm(a)
  /\ UNCHANGED <<stateVars, handshakes, yielded, workerVars, closerVars, waiterVars>>

\* The caller drops the accept future at its await; handshakes go on.
CancelAccept(a) ==
  /\ apc[a] = "select"
  /\ Leave(a, "out")
  /\ UNCHANGED <<stateVars, handshakes, incoming_done, yielded,
                 workerVars, closerVars, waiterVars>>

\* The acceptor is dropped, and the handles of its handshakes with it.
DropAcceptor(a) ==
  /\ apc[a] \in {"out", "ended"}
  /\ apc' = [apc EXCEPT ![a] = "dropped"]
  /\ handle' = [i \in Ids |-> handle[i] /\ i \notin handshakes[a]]
  /\ handshakes' = [handshakes EXCEPT ![a] = {}]
  /\ UNCHANGED <<stateVars, snap, awake, incoming_done, yielded, wstate, established,
                 inbox, closed_with, closerVars, waiterVars>>

\* The application drops the last handle of a connection it was given.
DropConnection(id) ==
  /\ id \in yielded /\ handle[id]
  /\ handle' = [handle EXCEPT ![id] = FALSE]
  /\ UNCHANGED <<stateVars, acceptorVars, wstate, established, inbox, closed_with,
                 closerVars, waiterVars>>

-----------------------------------------------------------------------------
(* Connection workers.                                                       *)

\* on_conn_established.
Establish(id) ==
  /\ wstate[id] = "handshake"
  /\ wstate' = [wstate EXCEPT ![id] = "established"]
  /\ established' = [established EXCEPT ![id] = "ok"]
  /\ UNCHANGED <<stateVars, acceptorVars, inbox, closed_with, handle, closerVars, waiterVars>>

\* A worker that ends before its handshake: should_act is still false, so
\* commands are not read; dropping the driver resolves `established`.
SetupFails(id) ==
  /\ wstate[id] = "handshake"
  /\ wstate' = [wstate EXCEPT ![id] = "closing"]
  /\ established' = [established EXCEPT ![id] = "err"]
  /\ UNCHANGED <<stateVars, acceptorVars, inbox, closed_with, handle, closerVars, waiterVars>>

\* An established worker applies the first Close command of its channel.
ApplyClose(id) ==
  /\ wstate[id] = "established" /\ inbox[id] # <<>>
  /\ wstate' = [wstate EXCEPT ![id] = "closing"]
  /\ closed_with' = [closed_with EXCEPT ![id] = Head(inbox[id])]
  /\ inbox' = [inbox EXCEPT ![id] = Tail(@)]
  /\ UNCHANGED <<stateVars, acceptorVars, established, handle, closerVars, waiterVars>>

\* The command channel is at its end: last-handle teardown.
Teardown(id) ==
  /\ wstate[id] = "established" /\ inbox[id] = <<>> /\ ~Upgradable(id)
  /\ wstate' = [wstate EXCEPT ![id] = "closing"]
  /\ closed_with' = [closed_with EXCEPT ![id] = NoError]
  /\ UNCHANGED <<stateVars, acceptorVars, established, inbox, handle, closerVars, waiterVars>>

\* The peer closes, or the connection times out.
PeerCloses(id) ==
  /\ wstate[id] = "established"
  /\ wstate' = [wstate EXCEPT ![id] = "closing"]
  /\ UNCHANGED <<stateVars, acceptorVars, established, inbox, closed_with, handle,
                 closerVars, waiterVars>>

\* state.live.saturating_sub(1).
\* Mutant: the registration is accounted for twice.
LiveAfterDrop_Double == live - 2
LiveAfterDrop == IF live > 0 THEN live - 1 ELSE 0

\* The driver is dropped, its command channel with it, and ConnRegistration's
\* drop takes the lock: remove, decrement.
Deregister(id) ==
  /\ wstate[id] = "closing"
  /\ conns' = conns \ {id}
  /\ live' = LiveAfterDrop
  /\ wstate' = [wstate EXCEPT ![id] = IF live' = 0 THEN "notify" ELSE "exited"]
  /\ inbox' = [inbox EXCEPT ![id] = <<>>]
  /\ UNCHANGED <<closing, close_frame, next_id, acceptorVars, established,
                 closed_with, handle, closerVars, waiterVars>>

\* The waiters notify_waiters reaches: wait_idle enables its Notified before
\* it reads `live`.
\* Mutant: it is enabled by the await, after the check.
WakesWaiter_Parked(w) == ipc[w] = "parked"
WakesWaiter(w) == ipc[w] \in {"check", "await", "parked"}

\* idle.notify_waiters(), outside the lock.
NotifyIdle(id) ==
  /\ wstate[id] = "notify"
  /\ wstate' = [wstate EXCEPT ![id] = "exited"]
  /\ woken' = [w \in Waiters |-> woken[w] \/ WakesWaiter(w)]
  /\ UNCHANGED <<stateVars, acceptorVars, established, inbox, closed_with, handle,
                 closerVars, ipc>>

-----------------------------------------------------------------------------
(* H3QuicheEndpoint::close.                                                  *)

\* The frame to broadcast: the stored first one.
BroadcastFrame(c) == IF close_frame = NoFrame THEN c ELSE close_frame

\* The workers the broadcast goes to: all that can still be reached.
\* Mutant: a worker that is still in its handshake is left out.
Recipients_Established == {i \in conns : Upgradable(i) /\ wstate[i] = "established"}
Recipients == {i \in conns : Upgradable(i)}

\* The lock section: closing, the first frame, the upgradable recipients.
CloseLock(c) ==
  /\ cpc[c] = "start"
  /\ closing' = TRUE
  /\ close_frame' = IF close_frame = NoFrame THEN c ELSE close_frame
  /\ cframe' = [cframe EXCEPT ![c] = BroadcastFrame(c)]
  /\ recipients' = [recipients EXCEPT ![c] = Recipients]
  /\ cpc' = [cpc EXCEPT ![c] = "wake"]
  /\ UNCHANGED <<conns, live, next_id, acceptorVars, workerVars, waiterVars>>

\* The accept calls notify_waiters reaches: armed before `closing` is read.
\* Mutant: accept arms accept_wake after it has read `closing`.
WakesAccept_Select(a) == apc[a] = "select"
WakesAccept(a) == apc[a] \in {"check", "poll", "select"}

\* accept_wake.notify_waiters().
CloseWake(c) ==
  /\ cpc[c] = "wake"
  /\ awake' = [a \in Acceptors |-> awake[a] \/ WakesAccept(a)]
  /\ cpc' = [cpc EXCEPT ![c] = "send"]
  /\ UNCHANGED <<stateVars, apc, snap, handshakes, incoming_done, yielded, workerVars,
                 cframe, recipients, waiterVars>>

\* One send of the broadcast; a worker that has exited does not get it.
CloseSend(c, id) ==
  /\ cpc[c] = "send" /\ id \in recipients[c]
  /\ inbox' = IF id \in conns THEN [inbox EXCEPT ![id] = Append(@, cframe[c])] ELSE inbox
  /\ recipients' = [recipients EXCEPT ![c] = @ \ {id}]
  /\ UNCHANGED <<stateVars, acceptorVars, wstate, established, closed_with, handle,
                 cpc, cframe, waiterVars>>

CloseReturn(c) ==
  /\ cpc[c] = "send" /\ recipients[c] = {}
  /\ cpc' = [cpc EXCEPT ![c] = "done"]
  /\ UNCHANGED <<stateVars, acceptorVars, workerVars, cframe, recipients, waiterVars>>

-----------------------------------------------------------------------------
(* H3QuicheEndpoint::wait_idle: arm, check, await.                           *)

WaitArm(w) ==
  /\ ipc[w] = "start" \/ (ipc[w] = "parked" /\ woken[w])
  /\ ipc' = [ipc EXCEPT ![w] = "check"]
  /\ woken' = [woken EXCEPT ![w] = FALSE]
  /\ UNCHANGED <<stateVars, acceptorVars, workerVars, closerVars>>

\* "drained" is a return that came after close(), "idle" one before it.
WaitCheck(w) ==
  /\ ipc[w] = "check"
  /\ ipc' = [ipc EXCEPT ![w] =
       IF live > 0 THEN "await" ELSE IF closing THEN "drained" ELSE "idle"]
  /\ UNCHANGED <<stateVars, acceptorVars, workerVars, closerVars, woken>>

\* The lock is released before the await.
WaitPark(w) ==
  /\ ipc[w] = "await"
  /\ ipc' = [ipc EXCEPT ![w] = "parked"]
  /\ UNCHANGED <<stateVars, acceptorVars, workerVars, closerVars, woken>>

-----------------------------------------------------------------------------
Accept(a) ==
  \/ CallAccept(a) \/ AcceptCheck(a) \/ AcceptPoll(a) \/ AcceptWoken(a)
  \/ \E id \in Ids : AcceptHandshake(a, id)

\* What a connection does by itself: a handshake ends, one way or the other,
\* a closed connection drains, a command is applied.
Worker(id) ==
  \/ Establish(id) \/ SetupFails(id) \/ ApplyClose(id) \/ Teardown(id)
  \/ Deregister(id) \/ NotifyIdle(id)

Close(c) == CloseWake(c) \/ (\E id \in Ids : CloseSend(c, id)) \/ CloseReturn(c)

Wait(w) == WaitArm(w) \/ WaitCheck(w) \/ WaitPark(w)

Next ==
  \/ \E a \in Acceptors :
       Accept(a) \/ AcceptIncoming(a) \/ ListenerEnds(a) \/ CancelAccept(a) \/ DropAcceptor(a)
  \/ \E id \in Ids : Worker(id) \/ PeerCloses(id) \/ DropConnection(id)
  \/ \E c \in Closers : CloseLock(c) \/ Close(c)
  \/ \E w \in Waiters : Wait(w)

Spec == Init /\ [][Next]_vars

\* Tasks are scheduled and the application keeps calling accept, which polls
\* its handshakes before it can be cancelled (hence the strong fairness); a
\* handshake is bounded by handshake_timeout, a closing connection by its
\* drain timer.
Fairness ==
  /\ \A a \in Acceptors : WF_vars(Accept(a))
  /\ \A a \in Acceptors : SF_vars(\E id \in Ids : AcceptHandshake(a, id))
  /\ \A id \in Ids : WF_vars(Worker(id))
  /\ \A c \in Closers : WF_vars(Close(c))
  /\ \A w \in Waiters : WF_vars(Wait(w))

FairSpec == Spec /\ Fairness

-----------------------------------------------------------------------------
(* Properties *)

Frames == Closers \cup {NoFrame, NoError}

TypeState ==
  /\ conns \in SUBSET Ids /\ live \in Nat /\ closing \in BOOLEAN
  /\ close_frame \in Closers \cup {NoFrame} /\ next_id \in 0..MaxConns

TypeAcceptor ==
  /\ apc \in [Acceptors -> {"out", "check", "poll", "select", "ended", "dropped"}]
  /\ snap \in [Acceptors -> BOOLEAN] /\ awake \in [Acceptors -> BOOLEAN]
  /\ handshakes \in [Acceptors -> SUBSET Ids]
  /\ incoming_done \in [Acceptors -> BOOLEAN] /\ yielded \in SUBSET Ids

TypeWorker ==
  /\ wstate \in [Ids -> Running \cup {"none", "notify", "exited"}]
  /\ established \in [Ids -> {"none", "ok", "err"}]
  /\ inbox \in [Ids -> Seq(Frames)] /\ closed_with \in [Ids -> Frames]
  /\ handle \in [Ids -> BOOLEAN]

TypeCallers ==
  /\ cpc \in [Closers -> {"start", "wake", "send", "done"}]
  /\ cframe \in [Closers -> Frames] /\ recipients \in [Closers -> SUBSET Ids]
  /\ ipc \in [Waiters -> {"start", "check", "await", "parked", "idle", "drained"}]
  /\ woken \in [Waiters -> BOOLEAN]

\* Every variable stays in its type; in particular `live` never goes below
\* zero, so the saturating_sub of ConnRegistration's drop hides nothing.
TypeOK == TypeState /\ TypeAcceptor /\ TypeWorker /\ TypeCallers

\* The accounting of try_register and ConnRegistration::drop: the registry is
\* exactly the set of workers that run, `live` counts it, and so neither the
\* debug_assert nor the saturating_sub of the drop ever matters.
LiveCountsWorkers ==
  /\ conns = {i \in Ids : wstate[i] \in Running}
  /\ live = Cardinality(conns)

\* wait_idle() that returns after close() means what it says for good: no
\* worker runs then or later, whatever the acceptors were doing at the time.
DrainedIsFinal ==
  (\E w \in Waiters : ipc[w] = "drained") => \A i \in Ids : wstate[i] \notin Running

\* The first close frame wins: whoever calls close() later, and whenever the
\* broadcasts overtake each other, no worker closes with another frame.
FirstFrameWins ==
  \A i \in Ids : closed_with[i] \in {NoFrame, NoError, close_frame}

\* A connection is never yielded once close() has linearized.
NoYieldAfterClose == [][closing => yielded' = yielded]_vars

\* No worker is admitted once close() has linearized, so the workers to drain
\* only become fewer.
NoAdmissionAfterClose == [][closing => conns' \subseteq conns]_vars

\* After close() every wait_idle() returns: no wakeup is lost between its
\* check and its await, and every worker ends.
WaitIdleReturns ==
  \A w \in Waiters : closing ~> ipc[w] \in {"drained", "idle"}

\* After close() an acceptor that is called again and again ends: no wakeup
\* is lost between its check and its select.
AcceptEnds == \A a \in Acceptors : closing ~> apc[a] \in {"ended", "dropped"}

\* A worker that is registered when close() takes the lock, and whose handles
\* are still there, is told: close() returns only after the frame is in its
\* channel or the worker is gone.
CloseReachesWorkers ==
  \A i \in conns :
    closing /\ handle[i] /\ (\A c \in Closers : cpc[c] \in {"start", "done"})
      => inbox[i] # <<>> \/ wstate[i] = "closing"
=============================================================================
