--------------------------- MODULE WriteCompletion ---------------------------
(***************************************************************************)
(* WriteCompletion: the cell that one send half reuses for the completions *)
(* of all its writes.  poll_ready begins a generation, hands the worker a  *)
(* completer stamped with it and polls; the worker completes or drops the  *)
(* completer, in a lock section and then a wake, so a late wake of one     *)
(* write may hit the registration of the next.  The front end waits for    *)
(* the report before it begins again; the cell itself, as its tests use    *)
(* it, must also stand a client that does not.  AtomicWaker is external.   *)
(***************************************************************************)
EXTENDS Naturals, Sequences

CONSTANTS
  Results,           \* what the worker may complete a write with
  Cancelled, Empty,  \* the outcome of a dropped completer; no value
  Supersedes,        \* FALSE: poll_ready, which begins again only after the
                     \* report; TRUE: a client that may begin at any time
  MaxWrites          \* bound: writes of the stream

Writes == 1..MaxWrites

Outcomes == Results \cup {Cancelled}

ASSUME CompletionAssumption ==
  /\ Cancelled \notin Results /\ Empty \notin Outcomes
  /\ \A g \in Writes, r \in Outcomes : <<g, r>> # Empty
  /\ MaxWrites \in Nat /\ Supersedes \in BOOLEAN

VARIABLES
  generation, slot, waker,      \* WriteCompletionInner; slot is <<g, outcome>>
  fpc, send_gen, woken,         \* the front end in poll_ready
  channel,                      \* whether the command channel is open
  completer,                    \* per write: "none", "held", "wake", "dropped"
  outcome,                      \* history: what the worker did with the write
  reported,                     \* history: what poll_ready reported
  superseded                    \* history: the writes given up for a later one

vars == <<generation, slot, waker, fpc, send_gen, woken, channel, completer,
          outcome, reported, superseded>>

Init ==
  /\ generation = 0 /\ slot = Empty /\ waker = FALSE
  /\ fpc = "idle" /\ send_gen = 0 /\ woken = FALSE /\ channel = TRUE
  /\ completer = [g \in Writes |-> "none"] /\ outcome = [g \in Writes |-> Empty]
  /\ reported = <<>> /\ superseded = {}

-----------------------------------------------------------------------------
(* poll_ready *)

\* begin(): advance the generation, then clear the slot under the lock.
Begin ==
  /\ fpc = "idle" /\ generation < MaxWrites
  /\ generation' = generation + 1
  /\ fpc' = "clear"
  /\ UNCHANGED <<slot, waker, send_gen, woken, channel, completer, outcome, reported, superseded>>

\* begin() with the last write still in flight: its completer is out.
Supersede ==
  /\ Supersedes /\ fpc = "parked" /\ generation < MaxWrites
  /\ generation' = generation + 1 /\ superseded' = superseded \cup {generation}
  /\ fpc' = "clear"
  /\ UNCHANGED <<slot, waker, send_gen, woken, channel, completer, outcome, reported>>

Clear ==
  /\ fpc = "clear"
  /\ slot' = Empty
  /\ fpc' = "send"
  /\ UNCHANGED <<generation, waker, send_gen, woken, channel, completer, outcome, reported, superseded>>

\* set_if_current: only the current generation, and only once.
\* Mutant: whatever the generation, into an empty slot.
Stores_AnyGeneration(g) == slot = Empty
Stores(g) == generation = g /\ slot = Empty

\* Send: the completer goes to the worker; on a closed channel it is dropped
\* with the command and poll_ready answers with the sticky terminal.
Submit ==
  /\ fpc = "send"
  /\ IF channel
       THEN /\ completer' = [completer EXCEPT ![generation] = "held"]
            /\ send_gen' = generation
            /\ fpc' = "register"
            /\ UNCHANGED <<slot, outcome>>
       ELSE /\ slot' = IF Stores(generation) THEN <<generation, Cancelled>> ELSE slot
            /\ completer' = [completer EXCEPT ![generation] = "dropped"]
            /\ outcome' = [outcome EXCEPT ![generation] = Cancelled]
            /\ fpc' = "failed"
            /\ UNCHANGED send_gen
  /\ UNCHANGED <<generation, waker, woken, channel, reported, superseded>>

\* poll(): register the waker, then look at the slot.
Register ==
  /\ fpc = "register"
  /\ waker' = TRUE
  /\ fpc' = "take"
  /\ UNCHANGED <<generation, slot, send_gen, woken, channel, completer, outcome, reported, superseded>>

Take ==
  /\ fpc = "take"
  /\ IF slot # Empty /\ slot[1] = send_gen
       THEN /\ reported' = Append(reported, slot)
            /\ slot' = Empty /\ send_gen' = 0 /\ fpc' = "idle"
       ELSE fpc' = "parked" /\ UNCHANGED <<slot, send_gen, reported>>
  /\ UNCHANGED <<generation, waker, woken, channel, completer, outcome, superseded>>

\* The task is polled again, because it was woken or for another reason.
PollAgain ==
  /\ fpc = "parked"
  /\ woken' = FALSE /\ fpc' = "register"
  /\ UNCHANGED <<generation, slot, waker, send_gen, channel, completer, outcome, reported, superseded>>

-----------------------------------------------------------------------------
(* The worker *)

\* What reaches the cell first when a completer is completed with r.
\* Mutant: the drop of the completer signals before complete() has stored.
First_Drop(r) == Cancelled
First(r) == r

\* WriteCompleter::complete, or its drop without one (r = Cancelled).
Complete(g, r) ==
  /\ completer[g] = "held"
  /\ outcome' = [outcome EXCEPT ![g] = r]
  /\ IF Stores(g)
       THEN slot' = <<g, First(r)>> /\ completer' = [completer EXCEPT ![g] = "wake"]
       ELSE completer' = [completer EXCEPT ![g] = "dropped"] /\ UNCHANGED slot
  /\ UNCHANGED <<generation, waker, fpc, send_gen, woken, channel, reported, superseded>>

\* The wake, after the lock is released: it takes whatever waker is there.
Wake(g) ==
  /\ completer[g] = "wake"
  /\ woken' = (woken \/ waker) /\ waker' = FALSE
  /\ completer' = [completer EXCEPT ![g] = "dropped"]
  /\ UNCHANGED <<generation, slot, fpc, send_gen, channel, outcome, reported, superseded>>

CloseChannel ==
  /\ channel /\ channel' = FALSE
  /\ UNCHANGED <<generation, slot, waker, fpc, send_gen, woken, completer, outcome, reported, superseded>>

-----------------------------------------------------------------------------
PollReady == Clear \/ Submit \/ Register \/ Take

Worker(g) == Wake(g) \/ \E r \in Outcomes : Complete(g, r)

Next == Begin \/ Supersede \/ PollReady \/ PollAgain \/ CloseChannel \/ \E g \in Writes : Worker(g)

Spec == Init /\ [][Next]_vars

\* A poll runs to its end, a woken task is polled, and the worker completes or
\* drops every completer it holds.
Fairness ==
  /\ WF_vars(PollReady) /\ WF_vars(woken /\ PollAgain)
  /\ \A g \in Writes : WF_vars(Worker(g))

FairSpec == Spec /\ Fairness

-----------------------------------------------------------------------------
(* Properties *)

\* Every report is of one write and of no other: it carries what the worker
\* did with that write, reports come in the order of the writes, each at most
\* once, and a write that is passed over is one that its client gave up.
ReportsOwnOutcome ==
  \A n \in DOMAIN reported :
    /\ reported[n][2] = outcome[reported[n][1]]
    /\ \A m \in 1..(n - 1) : reported[m][1] < reported[n][1]
    /\ \A g \in 1..reported[n][1] :
         g \in superseded \/ \E m \in 1..n : reported[m][1] = g

\* A write that was handed to the worker and is not given up is reported: no
\* wake is lost, whichever generation's wake takes the waker, and no late
\* completion of a superseded write takes its place in the slot.
WriteReported ==
  \A g \in Writes :
    fpc \in {"register", "take", "parked"} /\ generation = g ~>
      fpc = "idle" \/ generation > g
=============================================================================
