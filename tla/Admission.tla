----------------------------- MODULE Admission -----------------------------
(***************************************************************************)
(* How a stream the peer opens reaches the application: discovery on the   *)
(* readable and the writable path, admission to the bounded accept channel *)
(* of its class (bidi or uni), parking while that channel is full,         *)
(* promotion after Accept*Resume, poll_accept_* on the other side, and what *)
(* is shut down when the Connection is dropped before it took a stream.    *)
(*                                                                         *)
(* The worker (wpc) and the task that owns the Connection (apc) run on two *)
(* threads.  A step of the worker is one access to what they share (an     *)
(* accept channel, a resume bit, the command channel, the terminal cells)  *)
(* with the private work next to it.  Packets reach quiche only between    *)
(* two callbacks, so the quiche state changes at "wait" only.              *)
(*                                                                         *)
(* What the two halves of a stream do once it is admitted is RecvPath and  *)
(* SendPath; here a direction is live or done.  Interleavings are          *)
(* sequentially consistent.                                                *)
(***************************************************************************)
EXTENDS Naturals, Sequences, FiniteSets, SequencesExt

CONSTANTS
  Bidi, Uni,          \* peer-initiated stream ids by class (is_bidi)
  ACCEPT_CAP,         \* accept_bidi_cap and accept_uni_cap
  DISCOVERY_BUDGET, ADMIT_BUDGET, PROMOTE_BUDGET, CMD_BUDGET, WRITABLE_BUDGET,
  MayClose,           \* whether the connection may end at any time
  LateStop            \* whether quiche returns a stream on the writable cursor
                      \* for a STOP_SENDING that arrives after its FIN left

ASSUME AdmissionAssumption ==
  /\ Bidi \cap Uni = {} /\ IsFiniteSet(Bidi) /\ IsFiniteSet(Uni)
  /\ {ACCEPT_CAP, DISCOVERY_BUDGET, ADMIT_BUDGET, PROMOTE_BUDGET, CMD_BUDGET,
      WRITABLE_BUDGET} \subseteq Nat \ {0}
  /\ MayClose \in BOOLEAN /\ LateStop \in BOOLEAN

Streams == Bidi \cup Uni
Classes == {"bidi", "uni"}
Class(s) == IF s \in Bidi THEN "bidi" ELSE "uni"
Other(c) == IF c = "bidi" THEN "uni" ELSE "bidi"
Dirs(s) == IF s \in Bidi THEN {"recv", "send"} ELSE {"recv"}

VARIABLES
  \* quiche
  opened,           \* streams the peer sent data on
  stopped,          \* streams the peer sent STOP_SENDING for
  readable, writable, \* the destructive cursors
  closed,           \* closed[s]: directions quiche was told to end
  \* QuicheDriver
  wpc, packet, left, needs_iteration,
  pending_admit,    \* ids that own a PeerStream awaiting admission
  pending,          \* pending_admit_bidi and pending_admit_uni
  retained,         \* PeerStreams that own a pending_send_terminal
  admit,            \* AdmitState: none, parked or registered
  done,             \* done[s]: send_done and recv_done of a registered stream
  parked,           \* parked_bidi and parked_uni
  blocked, prefer,  \* locals of phase2_admission
  finishing,        \* streams with a Finish in their send_ops
  \* shared
  accept,           \* the accept channels
  resume,           \* accept_bidi_resume and accept_uni_resume
  cmd,              \* the command channel with the inbox at its head
  status,           \* the status cell in the send half's handoff
  terminal,         \* both accept-terminal cells are set
  \* the task that owns the Connection, and the application
  apc, acls, conn,
  told,             \* what poll_accept_* of a class reported at the end
  delivered,        \* streams handed to the application
  released,         \* delivered streams the application dropped
  \* history
  found             \* the streams of a class in the order they were queued

quicheVars == <<opened, stopped, readable, writable>>
shutVars == <<closed, readable, writable>>
queueVars == <<pending_admit, pending, parked>>
phaseVars == <<blocked, prefer>>
frontVars == <<apc, acls, conn, told, delivered, released>>
vars == <<quicheVars, closed, wpc, packet, left, needs_iteration, queueVars,
          retained, admit, done, phaseVars, finishing, accept, resume, cmd,
          status, terminal, frontVars, found>>

\* with_buffers, seen from this component: nothing found, nothing signalled.
Init ==
  /\ opened = {} /\ stopped = {} /\ readable = {} /\ writable = {}
  /\ closed = [s \in Streams |-> {}]
  /\ wpc = "wait" /\ packet = FALSE /\ left = 0 /\ needs_iteration = FALSE
  /\ pending_admit = {} /\ retained = {} /\ finishing = {}
  /\ pending = [c \in Classes |-> <<>>]
  /\ parked = [c \in Classes |-> <<>>]
  /\ admit = [s \in Streams |-> "none"]
  /\ done = [s \in Streams |-> {}]
  /\ blocked = {} /\ prefer = "bidi"
  /\ accept = [c \in Classes |-> <<>>]
  /\ resume = [c \in Classes |-> FALSE]
  /\ cmd = <<>>
  /\ status = [s \in Streams |-> "open"]
  /\ terminal = FALSE
  /\ apc = "idle" /\ acls = "bidi" /\ conn = "live"
  /\ told = [c \in Classes |-> "none"]
  /\ delivered = {} /\ released = {}
  /\ found = [c \in Classes |-> <<>>]

-----------------------------------------------------------------------------
(* Commands and handles.                                                   *)

AcceptResume(c) == [op |-> "AcceptResume", arg |-> c]
ConnectionDropped == [op |-> "ConnectionDropped", arg |-> "bidi"]
StopSending(s) == [op |-> "StopSending", arg |-> s]
Finish(s) == [op |-> "Finish", arg |-> s]

\* cmd_tx.send: an error, and so nothing, once the receiver is closed.
Send(cs) == cmd' = IF wpc \in {"closed", "exited"} THEN cmd ELSE cmd \o cs

\* Mutant: the cleanup of a bidi handoff stops at its send half.
HandoffCleanup_SendOnly(s) ==
  IF s \in Bidi THEN <<Finish(s)>> ELSE <<StopSending(s)>>

\* What an armed HandoffCleanup sends when its handoff is dropped: the send
\* half of a bidi stream first, then the receive half.  A dropped H3Stream
\* sends the same two commands.
HandoffCleanup(s) ==
  IF s \in Bidi THEN <<Finish(s), StopSending(s)>> ELSE <<StopSending(s)>>

\* The receiver of a class is dropped with the Connection, bidi first.
RxOpen(c) ==
  conn \in {"live", "dropping"} \cup (IF c = "uni" THEN {"rx_bidi"} ELSE {})

\* Some front-end handle still owns a strong command sender.
HasHandles ==
  \/ conn # "dropped"
  \/ \E c \in Classes : accept[c] # <<>>
  \/ delivered # released

-----------------------------------------------------------------------------
(* The helpers of the worker.                                              *)

\* shutdown_peer_directions for the streams of S: both directions of a bidi
\* one, Read of a uni one.  quiche returns them on no cursor afterwards.
shutdown_peer_directions(S) ==
  /\ closed' = [s \in Streams |-> IF s \in S THEN Dirs(s) ELSE closed[s]]
  /\ readable' = readable \ S
  /\ writable' = writable \ S

\* The direction d of the streams of S ended: send_done or recv_done, and the
\* terminal transition (contract A), which forgets a stream with nothing left.
MarkDone(S, d) ==
  LET over(s) == Dirs(s) \subseteq done[s] \cup {d}
      hit == {s \in S : admit[s] = "registered"}
  IN /\ done' = [s \in Streams |-> IF s \notin hit THEN done[s]
                                   ELSE IF over(s) THEN {} ELSE done[s] \cup {d}]
     /\ admit' = [s \in Streams |-> IF s \in hit /\ over(s) THEN "none"
                                                          ELSE admit[s]]

\* admit_one got a permit: the cells and the done flags start from what the
\* PeerStream retained, then the handoff goes through the permit.
Register(s) ==
  /\ accept' = [accept EXCEPT ![Class(s)] = Append(@, s)]
  /\ admit' = [admit EXCEPT ![s] = "registered"]
  /\ done' = [done EXCEPT ![s] = IF s \in retained THEN {"send"} ELSE {}]
  /\ status' = [status EXCEPT ![s] = IF s \in retained THEN "stopped" ELSE @]
  /\ retained' = retained \ {s}

Full(c) == RxOpen(c) /\ Len(accept[c]) >= ACCEPT_CAP
Free(c) == RxOpen(c) /\ Len(accept[c]) < ACCEPT_CAP

\* Mutant: newer ids go in front.
Enqueue_AtFront(new) ==
  /\ pending_admit' = pending_admit \cup Range(new["bidi"]) \cup Range(new["uni"])
  /\ pending' = [c \in Classes |-> new[c] \o pending[c]]
  /\ found' = [c \in Classes |-> found[c] \o new[c]]

\* A new PeerStream and push_pending_admit for each id, the ids by class.
Enqueue(new) ==
  /\ pending_admit' = pending_admit \cup Range(new["bidi"]) \cup Range(new["uni"])
  /\ pending' = [c \in Classes |-> pending[c] \o new[c]]
  /\ found' = [c \in Classes |-> found[c] \o new[c]]

\* The new ids of a scan, in the order quiche returned them.
Discover(ids) ==
  \E bidi \in SetToSeqs(ids \cap Bidi), uni \in SetToSeqs(ids \cap Uni) :
    Enqueue([bidi |-> bidi, uni |-> uni])

\* The ids that a scan of a destructive cursor may return under a budget.
Scan(cursor, budget) ==
  IF Cardinality(cursor) < budget THEN {cursor} ELSE kSubset(budget, cursor)

\* Mutant: the membership of the pending queue is not looked at.
Unknown_AdmitOnly(s) == admit[s] = "none"

\* Not queued, parked or registered: a new peer stream.
Unknown(s) == admit[s] = "none" /\ s \notin pending_admit

-----------------------------------------------------------------------------
(* The worker's iterations.                                                *)

\* Packets arrived: data on new streams, STOP_SENDING for others, or neither.
\* quiche makes a bidi stream writable when it comes to exist.  Contract A rests on the
\* premise that it never returns an id whose directions have all ended, and
\* its doubtful path is a late STOP_SENDING (LateStop).
Packets ==
  /\ wpc = "wait"
  /\ \E data \in SUBSET (Streams \ opened), stop \in SUBSET (Bidi \ stopped) :
       /\ \A s \in data \cup stop : closed[s] # Dirs(s)
       /\ \A s \in stop : LateStop \/ "send" \notin closed[s]
       /\ opened' = opened \cup data
       /\ stopped' = stopped \cup stop
       /\ readable' = readable \cup data
       /\ writable' = writable \cup (data \cap (Bidi \ stopped)) \cup stop
  /\ packet' = TRUE /\ needs_iteration' = FALSE
  /\ wpc' = "intake" /\ left' = 0
  /\ UNCHANGED <<closed, queueVars, retained, admit, done, phaseVars, finishing,
                 accept, resume, cmd, status, terminal, frontVars, found>>

\* wait_for_data returned: deferred work (Yield) or a command (Recv).
Wake ==
  /\ wpc = "wait"
  /\ needs_iteration \/ cmd # <<>>
  /\ packet' = FALSE /\ needs_iteration' = FALSE
  /\ wpc' = "apply" /\ left' = CMD_BUDGET
  /\ UNCHANGED <<quicheVars, closed, queueVars, retained, admit, done, phaseVars,
                 finishing, accept, resume, cmd, status, terminal, frontVars,
                 found>>

\* intake_readable: an id that is queued, parked or registered merges.
intake_readable ==
  /\ wpc = "intake"
  /\ \E ids \in Scan(readable, DISCOVERY_BUDGET) :
       /\ readable' = readable \ ids
       /\ Discover({s \in ids : Unknown(s)})
       /\ needs_iteration' = (needs_iteration \/ Cardinality(ids) = DISCOVERY_BUDGET)
  /\ wpc' = "phase2" /\ left' = ADMIT_BUDGET
  /\ blocked' = {} /\ prefer' = "bidi"
  /\ UNCHANGED <<opened, stopped, writable, closed, packet, parked, retained,
                 admit, done, finishing, accept, resume, cmd, status, terminal,
                 frontVars>>

\* phase2_admission, one id of the class whose turn it is.
phase2_admission ==
  /\ wpc = "phase2"
  /\ LET ready == {c \in Classes \ blocked : pending[c] # <<>>}
         c == IF prefer \in ready THEN prefer ELSE Other(prefer)
         s == Head(pending[c])
     IN IF left = 0 \/ ready = {}
          THEN /\ wpc' = "promote" /\ prefer' = "bidi" /\ left' = 0
               /\ blocked' = {}
               /\ UNCHANGED <<queueVars, admit, done, retained, accept, status,
                              shutVars>>
          ELSE /\ pending' = [pending EXCEPT ![c] = Tail(@)]
               /\ pending_admit' = pending_admit \ {s}
               /\ prefer' = Other(c)
               /\ left' = left - 1
               /\ \/ /\ Free(c)
                     /\ Register(s)
                     /\ UNCHANGED <<parked, blocked, shutVars>>
                  \/ /\ Full(c)
                     /\ admit' = [admit EXCEPT ![s] = "parked"]
                     /\ parked' = [parked EXCEPT ![c] = Append(@, s)]
                     /\ blocked' = blocked \cup {c}
                     /\ UNCHANGED <<done, retained, accept, status, shutVars>>
                  \/ /\ ~RxOpen(c)
                     /\ shutdown_peer_directions({s})
                     /\ retained' = retained \ {s}
                     /\ blocked' = blocked \cup {c}
                     /\ UNCHANGED <<parked, admit, done, accept, status>>
               /\ UNCHANGED wpc
  /\ UNCHANGED <<opened, stopped, packet, needs_iteration, finishing, resume, cmd,
                 terminal, frontVars, found>>

\* promote_parked is called for bidi, then for uni (here `prefer`); the pump
\* ends after the second call.
NextPromotion ==
  IF prefer = "bidi"
    THEN wpc' = "promote" /\ prefer' = "uni" /\ left' = 0
    ELSE /\ prefer' = "bidi"
         /\ IF packet THEN wpc' = "apply" /\ left' = CMD_BUDGET
                      ELSE wpc' = "writable" /\ left' = 0

\* promote_parked looks at the resume bit and clears it before the retry; a
\* swap between the load and the store acts as one before both.
promote_parked ==
  /\ wpc = "promote"
  /\ IF resume[prefer]
       THEN /\ resume' = [resume EXCEPT ![prefer] = FALSE]
            /\ wpc' = "retry" /\ left' = PROMOTE_BUDGET
            /\ UNCHANGED prefer
       ELSE NextPromotion /\ UNCHANGED resume
  /\ UNCHANGED <<quicheVars, closed, packet, needs_iteration, queueVars, retained,
                 admit, done, blocked, finishing, accept, cmd, status, terminal,
                 frontVars, found>>

\* promote_parked: retry the oldest parked id.  One that is still Full goes back
\* to the front; Full and Closed end the loop.
promote_retry ==
  /\ wpc = "retry"
  /\ LET c == prefer IN
     IF left = 0 \/ parked[c] = <<>>
       THEN /\ NextPromotion
            /\ UNCHANGED <<parked, admit, done, retained, accept, status, shutVars>>
       ELSE LET s == Head(parked[c]) IN
            \/ /\ Free(c)
               /\ Register(s)
               /\ parked' = [parked EXCEPT ![c] = Tail(@)]
               /\ left' = left - 1
               /\ UNCHANGED <<wpc, prefer, shutVars>>
            \/ /\ Full(c)
               /\ NextPromotion
               /\ UNCHANGED <<parked, admit, done, retained, accept, status, shutVars>>
            \/ /\ ~RxOpen(c)
               /\ shutdown_peer_directions({s})
               /\ admit' = [admit EXCEPT ![s] = "none"]
               /\ retained' = retained \ {s}
               /\ parked' = [parked EXCEPT ![c] = Tail(@)]
               /\ NextPromotion
               /\ UNCHANGED <<done, accept, status>>
  /\ UNCHANGED <<opened, stopped, packet, needs_iteration, pending_admit, pending,
                 blocked, finishing, resume, cmd, terminal, frontVars, found>>

\* clean_undelivered_peer_streams.
clean_undelivered_peer_streams ==
  LET waiting == {s \in Streams : admit[s] = "parked"} \cup pending_admit IN
  /\ shutdown_peer_directions(waiting)
  /\ admit' = [s \in Streams |-> IF s \in waiting THEN "none" ELSE admit[s]]
  /\ retained' = retained \ waiting
  /\ pending_admit' = {}
  /\ pending' = [c \in Classes |-> <<>>]
  /\ parked' = [c \in Classes |-> <<>>]

\* apply_inbox, one command.  The Finish of a half that is not written to is
\* sent by stage_send of the same iteration.
apply_inbox ==
  /\ wpc = "apply"
  /\ IF left = 0 \/ cmd = <<>>
       THEN /\ wpc' = IF packet THEN "writable" ELSE "intake"
            /\ left' = 0
            /\ UNCHANGED <<cmd, resume, queueVars, admit, done, retained, shutVars,
                           finishing>>
       ELSE LET m == Head(cmd) IN
            /\ cmd' = Tail(cmd) /\ left' = left - 1
            /\ \/ /\ m.op = "AcceptResume"
                  /\ resume' = [resume EXCEPT ![m.arg] = TRUE]
                  /\ UNCHANGED <<queueVars, admit, done, retained, shutVars, finishing>>
               \/ /\ m.op = "ConnectionDropped"
                  /\ clean_undelivered_peer_streams
                  /\ UNCHANGED <<resume, done, finishing>>
               \/ /\ m.op = "StopSending"
                  /\ closed' = [closed EXCEPT ![m.arg] = @ \cup {"recv"}]
                  /\ readable' = readable \ {m.arg}
                  /\ MarkDone({m.arg}, "recv")
                  /\ UNCHANGED <<writable, resume, queueVars, retained, finishing>>
               \/ /\ m.op = "Finish"
                  /\ finishing' = finishing \cup {m.arg}
                  /\ UNCHANGED <<resume, queueVars, admit, done, retained, shutVars>>
            /\ UNCHANGED wpc
  /\ UNCHANGED <<opened, stopped, packet, needs_iteration, phaseVars, accept, status,
                 terminal, frontVars, found>>

\* Mutant: STOP_SENDING is merged into a pending stream only.
Retain_PendingOnly(S) == retained' = retained \cup (S \cap pending_admit')

\* STOP_SENDING of streams that are new, pending or parked goes into their
\* PeerStream.
Retain(S) == retained' = retained \cup S

\* stage_writable: a live send half that was stopped, a finished one, a
\* stream that waits for admission, or a new one.
stage_writable ==
  /\ wpc = "writable"
  /\ \E ids \in Scan(writable, WRITABLE_BUDGET) :
       LET hit == ids \cap stopped
           live == {s \in hit : admit[s] = "registered" /\ "send" \notin done[s]}
           new == {s \in ids : Unknown(s)}
       IN /\ writable' = writable \ ids
          /\ status' = [s \in Streams |-> IF s \in live THEN "stopped" ELSE status[s]]
          /\ MarkDone(live, "send")
          /\ Discover(new)
          /\ Retain({s \in hit : admit[s] # "registered"})
          /\ needs_iteration' = (needs_iteration \/ new # {}
                                 \/ Cardinality(ids) = WRITABLE_BUDGET)
  /\ wpc' = "send" /\ left' = 0
  /\ UNCHANGED <<opened, stopped, readable, closed, packet, parked, phaseVars,
                 finishing, accept, resume, cmd, terminal, frontVars>>

\* has_runnable_remainder, the terms of this component.
has_runnable_remainder ==
  \E c \in Classes : \/ pending[c] # <<>> /\ (parked[c] = <<>> \/ resume[c])
                     \/ parked[c] # <<>> /\ resume[c]

\* stage_send sends the FIN of every dropped send half, and the iteration ends.
stage_send ==
  /\ wpc = "send"
  /\ finishing' = {}
  /\ closed' = [s \in Streams |-> IF s \in finishing THEN closed[s] \cup {"send"}
                                                     ELSE closed[s]]
  /\ writable' = writable \ finishing
  /\ MarkDone(finishing, "send")
  /\ needs_iteration' = (needs_iteration \/ has_runnable_remainder)
  /\ wpc' = "wait" /\ packet' = FALSE
  /\ UNCHANGED <<opened, stopped, readable, left, queueVars, retained, phaseVars,
                 accept, resume, cmd, status, terminal, frontVars, found>>

\* do_on_conn_close: both accept terminals, then the command channel closes.
on_conn_close ==
  /\ wpc = "wait"
  /\ MayClose \/ ~HasHandles
  /\ terminal' = TRUE
  /\ cmd' = <<>>
  /\ wpc' = "closed"
  /\ UNCHANGED <<quicheVars, closed, packet, left, needs_iteration, queueVars,
                 retained, admit, done, phaseVars, finishing, accept, resume,
                 status, frontVars, found>>

\* The driver is dropped, and with it the senders of the accept channels.
WorkerExits ==
  /\ wpc = "closed"
  /\ wpc' = "exited"
  /\ UNCHANGED <<quicheVars, closed, packet, left, needs_iteration, queueVars,
                 retained, admit, done, phaseVars, finishing, accept, resume, cmd,
                 status, terminal, frontVars, found>>

Worker ==
  \/ Wake \/ intake_readable \/ phase2_admission
  \/ promote_parked \/ promote_retry
  \/ apply_inbox \/ stage_writable \/ stage_send
  \/ WorkerExits

-----------------------------------------------------------------------------
(* poll_accept_bidi and poll_accept_recv.                                  *)

\* Everything the accepting task leaves alone.
UNCHANGED_ByAccept ==
  UNCHANGED <<quicheVars, closed, wpc, packet, left, needs_iteration, queueVars,
              retained, admit, done, phaseVars, finishing, status, terminal,
              conn, released, found>>

\* The accepting task goes to its step pc; it forgets the class when idle.
Go(pc) == apc' = pc /\ acls' = IF pc = "idle" THEN "bidi" ELSE acls

\* A handoff comes out of the channel.
Pop(c) ==
  /\ accept' = [accept EXCEPT ![c] = Tail(@)]
  /\ delivered' = delivered \cup {Head(accept[c])}

\* poll_recv on the channel of class c.
AcceptPoll(c) ==
  /\ apc = "idle" /\ conn = "live" /\ told[c] = "none"
  /\ acls' = c
  /\ \/ accept[c] # <<>> /\ Pop(c) /\ apc' = "signal"
     \/ /\ accept[c] = <<>>
        /\ apc' = IF wpc = "exited" THEN "closed" ELSE "terminal"
        /\ UNCHANGED <<accept, delivered>>
  /\ UNCHANGED <<resume, cmd, told>>
  /\ UNCHANGED_ByAccept

\* Mutant: the nudge is sent when the bit was set already.
AcceptSignal_Inverted ==
  /\ apc = "signal"
  /\ resume' = [resume EXCEPT ![acls] = TRUE]
  /\ Go(IF resume[acls] THEN "nudge" ELSE "idle")
  /\ UNCHANGED <<accept, cmd, told, delivered>>
  /\ UNCHANGED_ByAccept

\* signal_accept_*_resume: swap the bit, nudge on the false-to-true edge.
AcceptSignal ==
  /\ apc = "signal"
  /\ resume' = [resume EXCEPT ![acls] = TRUE]
  /\ Go(IF resume[acls] THEN "idle" ELSE "nudge")
  /\ UNCHANGED <<accept, cmd, told, delivered>>
  /\ UNCHANGED_ByAccept

AcceptNudge ==
  /\ apc = "nudge"
  /\ Send(<<AcceptResume(acls)>>)
  /\ Go("idle")
  /\ UNCHANGED <<accept, resume, told, delivered>>
  /\ UNCHANGED_ByAccept

\* The channel was empty: poll the accept-terminal cell.
AcceptTerminal ==
  /\ apc = "terminal"
  /\ Go(IF terminal THEN "recheck" ELSE "idle")
  /\ UNCHANGED <<accept, resume, cmd, told, delivered>>
  /\ UNCHANGED_ByAccept

\* Mutant: the terminal is reported without a second look.
AcceptRecheck_None ==
  /\ apc = "recheck"
  /\ told' = [told EXCEPT ![acls] = "terminal"]
  /\ Go("idle")
  /\ UNCHANGED <<accept, resume, cmd, delivered>>
  /\ UNCHANGED_ByAccept

\* The sealing-edge recheck.
AcceptRecheck ==
  /\ apc = "recheck"
  /\ \/ accept[acls] # <<>> /\ Pop(acls) /\ Go("signal") /\ UNCHANGED told
     \/ /\ accept[acls] = <<>>
        /\ told' = [told EXCEPT ![acls] = "terminal"]
        /\ Go("idle")
        /\ UNCHANGED <<accept, delivered>>
  /\ UNCHANGED <<resume, cmd>>
  /\ UNCHANGED_ByAccept

\* The channel is closed: the terminal, or an internal error without one.
AcceptClosed ==
  /\ apc = "closed"
  /\ told' = [told EXCEPT ![acls] = IF terminal THEN "terminal" ELSE "internal"]
  /\ Go("idle")
  /\ UNCHANGED <<accept, resume, cmd, delivered>>
  /\ UNCHANGED_ByAccept

-----------------------------------------------------------------------------
(* Drops.                                                                  *)

UNCHANGED_ByDrop ==
  UNCHANGED <<quicheVars, closed, wpc, packet, left, needs_iteration, queueVars,
              retained, admit, done, phaseVars, finishing, resume, status,
              terminal, apc, acls, told, delivered, found>>

\* Connection::drop sends its command, then the fields are dropped in order.
ConnectionDrop ==
  /\ apc = "idle" /\ conn = "live"
  /\ conn' = "dropping"
  /\ Send(<<ConnectionDropped>>)
  /\ UNCHANGED <<accept, released>>
  /\ UNCHANGED_ByDrop

\* A receiver is dropped: the channel closes, the bidi one first.  Nothing but
\* the embedded StreamOpener is left after the second one.
DropReceiver(c) ==
  /\ conn = IF c = "bidi" THEN "dropping" ELSE "rx_bidi"
  /\ c = "uni" => accept["bidi"] = <<>>
  /\ conn' = IF c = "bidi" THEN "rx_bidi" ELSE "dropped"
  /\ UNCHANGED <<accept, cmd, released>>
  /\ UNCHANGED_ByDrop

\* Then the handoffs queued in it, each with its cleanup.
DropHandoff(c) ==
  /\ ~RxOpen(c) /\ accept[c] # <<>>
  /\ accept' = [accept EXCEPT ![c] = Tail(@)]
  /\ Send(HandoffCleanup(Head(accept[c])))
  /\ UNCHANGED <<conn, released>>
  /\ UNCHANGED_ByDrop

\* The application drops a stream it was given.
StreamDrop(s) ==
  /\ apc = "idle"
  /\ s \in delivered \ released
  /\ released' = released \cup {s}
  /\ Send(HandoffCleanup(s))
  /\ UNCHANGED <<accept, conn>>
  /\ UNCHANGED_ByDrop

Dropping == \E c \in Classes : DropReceiver(c) \/ DropHandoff(c)

Next ==
  \/ Packets \/ Worker \/ on_conn_close
  \/ \E c \in Classes : AcceptPoll(c)
  \/ AcceptSignal \/ AcceptNudge \/ AcceptTerminal \/ AcceptRecheck \/ AcceptClosed
  \/ ConnectionDrop \/ Dropping
  \/ \E s \in Streams : StreamDrop(s)

Spec == Init /\ [][Next]_vars

\* The runtime keeps polling the worker and a task it has woken; a destructor
\* runs to its end; a connection without handles is closed (ConnWorker); and
\* the application keeps accepting as long as it holds the Connection.
Fairness ==
  /\ WF_vars(Worker)
  /\ WF_vars(on_conn_close /\ ~HasHandles)
  /\ \A c \in Classes : SF_vars(AcceptPoll(c) /\ accept[c] # <<>>)
  /\ WF_vars(AcceptSignal \/ AcceptNudge \/ AcceptTerminal \/ AcceptRecheck
             \/ AcceptClosed)
  /\ WF_vars(Dropping)

FairSpec == Spec /\ Fairness

-----------------------------------------------------------------------------
(* Properties.                                                             *)

Parked == {s \in Streams : admit[s] = "parked"}
Queued(q) == Range(q["bidi"]) \cup Range(q["uni"])
Found == Queued(found)

(* A discovered stream is in exactly one place: the two structures that     *)
(* hold a pending stream and the two that hold a parked one agree, no id is *)
(* queued or handed over twice, and one that left all of them without       *)
(* reaching the application was shut down in every direction it has.        *)
OnePlace ==
  LET places(s) == {p \in {"pending", "parked", "accept", "delivered"} :
        \/ p = "pending"   /\ s \in Queued(pending)
        \/ p = "parked"    /\ s \in Queued(parked)
        \/ p = "accept"    /\ s \in Queued(accept)
        \/ p = "delivered" /\ s \in delivered}
      distinct(q) == \A c \in Classes : IsInjective(q[c])
  IN /\ distinct(pending) /\ distinct(parked) /\ distinct(accept) /\ distinct(found)
     /\ pending_admit = Queued(pending)
     /\ Parked = Queued(parked)
     /\ retained \subseteq pending_admit \cup Parked
     /\ \A s \in Found :
          \/ Cardinality(places(s)) = 1
          \/ places(s) = {} /\ (closed[s] = Dirs(s) \/ ~RxOpen(Class(s)))

(* STOP_SENDING is never lost: quiche reports it once, on a cursor that is  *)
(* destructive, maybe before the stream can be admitted.  From then on the  *)
(* PeerStream or the status cell of the handle carries it.                  *)
StopKept ==
  \A s \in stopped \ writable :
    s \in retained \/ status[s] = "stopped" \/ "send" \in closed[s]

(* Order within a class: a stream is handed over before one found earlier   *)
(* only if the earlier one was parked, and parked streams leave in the      *)
(* order they were found.                                                   *)
InClassOrder ==
  [][\A c \in Classes : \A j \in 1..Len(found[c]) : \A i \in 1..(j - 1) :
       LET older == found[c][i] IN LET newer == found[c][j] IN
       (admit[newer] # "registered" /\ admit'[newer] = "registered")
       => /\ older \notin pending_admit
          /\ older \in Parked => newer \notin Parked]_vars

(* No lost accept-resume: when the worker goes to sleep with a parked       *)
(* stream, its channel has something for the acceptor to take, or the nudge *)
(* is on its way.                                                           *)
NoLostAcceptResume ==
  \A c \in Classes :
    (wpc = "wait" /\ ~needs_iteration /\ parked[c] # <<>> /\ conn = "live")
    => \/ accept[c] # <<>>
       \/ AcceptResume(c) \in Range(cmd)
       \/ apc \in {"signal", "nudge"} /\ acls = c

(* poll_accept_* reports the end of the connection only when every stream   *)
(* that was handed over has been taken, and never the internal error of a   *)
(* channel that closed without a terminal.                                  *)
TerminalIsLast ==
  \A c \in Classes : told[c] # "none" => told[c] = "terminal" /\ accept[c] = <<>>

\* Parked by an iteration that ran between the command of Connection::drop
\* and the end of its receiver: nothing wakes the worker for it any more.
Stranded(s) ==
  /\ s \in Parked
  /\ conn # "live" /\ ConnectionDropped \notin Range(cmd)

(* Every stream the worker found reaches the application or is shut down in *)
(* every direction it has, whether the Connection lives on or is dropped    *)
(* with streams parked, pending or queued, unless the connection ends or    *)
(* the stream is stranded.                                                  *)
StreamsSettle ==
  \A s \in Streams :
    s \in Found ~> (s \in delivered \/ closed[s] = Dirs(s) \/ terminal
                    \/ Stranded(s))
=============================================================================
