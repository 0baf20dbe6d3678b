--------------------------- MODULE SendAccounting ---------------------------
(***************************************************************************)
(* SendAccounting: the connection's cap on admitted send bytes.  A         *)
(* poll_ready with a stashed write reserves its bytes or parks; the permit *)
(* travels with the Send command and its drop - on the worker, or in       *)
(* poll_ready itself when the channel is closed - gives the bytes back and *)
(* wakes every parked sender.  Senders and droppers are different threads: *)
(* each atomic update, each section of the waiter lock and each wake is a  *)
(* step.  The cap is finite here: without one try_reserve never fails.     *)
(***************************************************************************)
EXTENDS Integers, FiniteSets, FiniteSetsExt

CONSTANTS
  Streams,
  Cap,               \* max_buffered_send_bytes
  Sizes,             \* sizes of a write
  MaxWrites          \* bound: writes per stream

ASSUME AccountingAssumption ==
  Cap \in Nat /\ Sizes \subseteq Nat /\ MaxWrites \in Nat

\* The permit of write n of stream s.
Permits == Streams \X (1..MaxWrites)

VARIABLES
  resident, waiters, \* SendAccounting: bytes, and the streams with a waker
  fpc, size, n,      \* H3SendStream: where poll_ready stands, its write
  woken,             \* the task of a stream was woken
  pstate, pbytes,    \* a permit and its bytes
  wakers,            \* the wakers a dropping permit took out of the map
  ended, channel     \* the status cells are set; the command channel is open

permitVars == <<pstate, pbytes, wakers>>
vars == <<resident, waiters, fpc, size, n, woken, permitVars, ended, channel>>

Init ==
  /\ resident = 0 /\ waiters = {}
  /\ fpc = [s \in Streams |-> "idle"] /\ size = [s \in Streams |-> 0]
  /\ n = [s \in Streams |-> 0] /\ woken = [s \in Streams |-> FALSE]
  /\ pstate = [p \in Permits |-> "none"] /\ pbytes = [p \in Permits |-> 0]
  /\ wakers = [p \in Permits |-> {}]
  /\ ended = FALSE /\ channel = TRUE

-----------------------------------------------------------------------------
(* poll_ready with a stashed write *)

Goto(s, where) == fpc' = [fpc EXCEPT ![s] = where]

\* send_data.
Stash(s, k) ==
  /\ fpc[s] = "idle" /\ n[s] < MaxWrites
  /\ size' = [size EXCEPT ![s] = k] /\ n' = [n EXCEPT ![s] = @ + 1]
  /\ Goto(s, "poll")
  /\ UNCHANGED <<resident, waiters, woken, permitVars, ended, channel>>

\* A parked task is polled again because it was woken, or for another reason.
PollAgain(s) ==
  /\ fpc[s] = "parked"
  /\ woken' = [woken EXCEPT ![s] = FALSE]
  /\ Goto(s, "poll")
  /\ UNCHANGED <<resident, waiters, size, n, permitVars, ended, channel>>

\* (2): a sticky terminal ends the stream; otherwise the status cell has the
\* task's waker from here on.
PollStatus(s) ==
  /\ fpc[s] = "poll"
  /\ Goto(s, IF ended THEN "over" ELSE "reserve")
  /\ UNCHANGED <<resident, waiters, size, n, woken, permitVars, ended, channel>>

\* try_reserve: an empty write, one that fits, or the only one.
\* Mutant: the cap is compared with what is resident already.
Fits_Current(bytes) == bytes = 0 \/ resident < Cap \/ resident = 0
Fits(bytes) == bytes = 0 \/ resident + bytes <= Cap \/ resident = 0

\* try_reserve succeeds.
Admit(s) ==
  /\ Fits(size[s])
  /\ resident' = resident + size[s]
  /\ pstate' = [pstate EXCEPT ![<<s, n[s]>>] = "held"]
  /\ pbytes' = [pbytes EXCEPT ![<<s, n[s]>>] = size[s]]
  /\ Goto(s, "unregister")

Reserve(s) ==
  /\ fpc[s] = "reserve"
  /\ \/ Admit(s)
     \/ /\ ~Fits(size[s])
        /\ Goto(s, "register")
        /\ UNCHANGED <<resident, pstate, pbytes>>
  /\ UNCHANGED <<waiters, size, n, woken, wakers, ended, channel>>

register_waiter(s) ==
  /\ fpc[s] = "register"
  /\ waiters' = waiters \cup {s}
  /\ Goto(s, "recheck")
  /\ UNCHANGED <<resident, size, n, woken, permitVars, ended, channel>>

\* Mutant: Pending right after the registration.
Recheck_Skipped(s) ==
  /\ fpc[s] = "recheck" /\ Goto(s, "parked")
  /\ UNCHANGED <<resident, pstate, pbytes, waiters, size, n, woken, wakers, ended, channel>>

\* The final over-cap check, with the waker registered.
Recheck(s) ==
  /\ fpc[s] = "recheck"
  /\ \/ Admit(s)
     \/ /\ ~Fits(size[s])
        /\ Goto(s, "parked")
        /\ UNCHANGED <<resident, pstate, pbytes>>
  /\ UNCHANGED <<waiters, size, n, woken, wakers, ended, channel>>

unregister_waiter(s) ==
  /\ fpc[s] = "unregister"
  /\ waiters' = waiters \ {s}
  /\ Goto(s, "send")
  /\ UNCHANGED <<resident, size, n, woken, permitVars, ended, channel>>

\* The Send command; on a closed channel it is dropped here, permit included.
Submit(s) ==
  /\ fpc[s] = "send"
  /\ IF channel
       THEN Goto(s, "inflight") /\ UNCHANGED pstate
       ELSE Goto(s, "over") /\ pstate' = [pstate EXCEPT ![<<s, n[s]>>] = "release"]
  /\ UNCHANGED <<resident, waiters, size, n, woken, pbytes, wakers, ended, channel>>

\* Drop for H3SendStream, between two polls.
AfterHandle(s) == waiters \ {s}

DropHandle(s) ==
  /\ fpc[s] \in {"idle", "parked", "inflight", "over"}
  /\ waiters' = AfterHandle(s)
  /\ Goto(s, "dropped")
  /\ UNCHANGED <<resident, size, n, woken, permitVars, ended, channel>>

-----------------------------------------------------------------------------
(* Droppers of permits.                                                      *)

\* The worker completes a write, and then drops its permit: the front end may
\* be in its next write before the bytes are given back.
CompleteWrite(p) ==
  /\ pstate[p] = "held" /\ fpc[p[1]] \in {"inflight", "dropped"}
  /\ pstate' = [pstate EXCEPT ![p] = "release"]
  /\ IF fpc[p[1]] = "inflight"
       THEN Goto(p[1], IF ended THEN "over" ELSE "idle")
       ELSE UNCHANGED fpc
  /\ UNCHANGED <<resident, waiters, size, n, woken, pbytes, wakers, ended, channel>>

\* cur.saturating_sub(bytes).
\* Mutant: writes are counted and not bytes.
Less_One(bytes) == IF resident > 1 THEN resident - 1 ELSE 0
Less(bytes) == IF resident > bytes THEN resident - bytes ELSE 0

\* release(), first half: the atomic.
ReleaseBytes(p) ==
  /\ pstate[p] = "release"
  /\ resident' = Less(pbytes[p])
  /\ pstate' = [pstate EXCEPT ![p] = "drain"]
  /\ UNCHANGED <<waiters, fpc, size, n, woken, pbytes, wakers, ended, channel>>

\* The wakers release() takes out of the map: all of them.
\* Mutant: one waiter is enough for one permit.
Taken_One == IF waiters = {} THEN {} ELSE {CHOOSE s \in waiters : TRUE}
Taken == waiters

\* release(), second half: drain under the lock, wake outside.
DrainWaiters(p) ==
  /\ pstate[p] = "drain"
  /\ wakers' = [wakers EXCEPT ![p] = Taken]
  /\ waiters' = waiters \ Taken
  /\ pstate' = [pstate EXCEPT ![p] = "wake"]
  /\ UNCHANGED <<resident, fpc, size, n, woken, pbytes, ended, channel>>

WakeOne(p, s) ==
  /\ pstate[p] = "wake" /\ s \in wakers[p]
  /\ woken' = [woken EXCEPT ![s] = TRUE]
  /\ wakers' = [wakers EXCEPT ![p] = @ \ {s}]
  /\ UNCHANGED <<resident, waiters, fpc, size, n, pstate, pbytes, ended, channel>>

\* do_on_conn_close: the status cells first, which wakes their pollers, then
\* the command channel; what is queued there is completed by CompleteWrite.
PublishTerminals ==
  /\ ~ended
  /\ ended' = TRUE
  /\ woken' = [s \in Streams |-> TRUE]
  /\ UNCHANGED <<resident, waiters, fpc, size, n, permitVars, channel>>

CloseChannel ==
  /\ ended /\ channel
  /\ channel' = FALSE
  /\ UNCHANGED <<resident, waiters, fpc, size, n, woken, permitVars, ended>>

-----------------------------------------------------------------------------
Poll(s) ==
  \/ PollStatus(s) \/ Reserve(s) \/ register_waiter(s) \/ Recheck(s)
  \/ unregister_waiter(s) \/ Submit(s)

Dropper(p) ==
  ReleaseBytes(p) \/ DrainWaiters(p) \/ \E s \in Streams : WakeOne(p, s)

Next ==
  \/ \E s \in Streams :
       Poll(s) \/ PollAgain(s) \/ DropHandle(s) \/ \E k \in Sizes : Stash(s, k)
  \/ \E p \in Permits : CompleteWrite(p) \/ Dropper(p)
  \/ PublishTerminals \/ CloseChannel

Spec == Init /\ [][Next]_vars

\* A poll and a drop run to their ends, a woken task is polled, and the worker
\* completes every write it was given.
Fairness ==
  /\ \A s \in Streams : WF_vars(Poll(s)) /\ WF_vars(woken[s] /\ PollAgain(s))
  /\ \A p \in Permits : WF_vars(CompleteWrite(p)) /\ WF_vars(Dropper(p))

FairSpec == Spec /\ Fairness

-----------------------------------------------------------------------------
(* Properties *)

\* The variables of this module keep their types and stay within the bounds.
TypeOK ==
  /\ resident \in Nat /\ waiters \in SUBSET Streams
  /\ fpc \in [Streams -> {"idle", "poll", "reserve", "register", "recheck", "unregister",
                          "send", "inflight", "parked", "over", "dropped"}]
  /\ size \in [Streams -> Nat] /\ n \in [Streams -> 0..MaxWrites]
  /\ woken \in [Streams -> BOOLEAN]
  /\ pstate \in [Permits -> {"none", "held", "release", "drain", "wake"}]
  /\ pbytes \in [Permits -> Nat] /\ wakers \in [Permits -> SUBSET Streams]
  /\ ended \in BOOLEAN /\ channel \in BOOLEAN

\* Permits whose bytes are still counted.
Counted == {p \in Permits : pstate[p] \in {"held", "release"}}

\* Nothing leaks with stream churn.  Each permit gives back exactly what it
\* took, once, on every path it can die: the residency is the sum of the live
\* permits.  And the waiter map has no waker of a dropped sender.
NothingLeaks ==
  /\ resident = MapThenSumSet(LAMBDA p : pbytes[p], Counted)
  /\ \A s \in waiters : fpc[s] # "dropped"

\* "at most cap + one admission unit": the cap is exceeded by a single write
\* that was admitted alone, never by several.
OverCapIsOneUnit ==
  resident > Cap => Cardinality({p \in Counted : pbytes[p] > 0}) = 1

\* No lost wakeup: a sender that sleeps although its write would fit now is
\* about to be woken by the permit that made the room.
NoLostWake ==
  \A s \in Streams :
    fpc[s] = "parked" /\ ~woken[s] /\ Fits(size[s]) =>
      \E p \in Permits : s \in wakers[p] \/ (pstate[p] = "drain" /\ s \in waiters)

\* A parked sender gets on: nobody waits for bytes that nobody will return.
ParkedLeaves == \A s \in Streams : fpc[s] = "parked" ~> fpc[s] # "parked"
=============================================================================
