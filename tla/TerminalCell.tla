---------------------------- MODULE TerminalCell ----------------------------
(***************************************************************************)
(* TerminalCell: the sticky, first-writer-wins one-shot through which the  *)
(* worker tells a poller how a stream or the connection ended.  set() is   *)
(* a lock section and then a wake; poll() is a read, a registration and a  *)
(* second read.  Setters and the poller are different threads, and every   *)
(* one of these is a step.  AtomicWaker is external: register() stores the *)
(* waker, wake() takes it.  A setter's value is the setter itself.         *)
(***************************************************************************)
EXTENDS Naturals

CONSTANTS Setters, NoValue

ASSUME CellAssumption == NoValue \notin Setters

VARIABLES
  value, waker,      \* TerminalInner: the value, and whether a waker is stored
  spc,               \* per setter: "start", "wake", "true" or "false" (returned)
  ppc, got, woken    \* the poller: where it stands, what it got, its task's wakeup

vars == <<value, waker, spc, ppc, got, woken>>

Init ==
  /\ value = NoValue /\ waker = FALSE
  /\ spc = [s \in Setters |-> "start"]
  /\ ppc = "idle" /\ got = NoValue /\ woken = FALSE

-----------------------------------------------------------------------------
\* The lock section of set(): what the slot holds afterwards.
\* Mutant: the last writer wins.
Stored_Last(s) == s
Stored(s) == IF value = NoValue THEN s ELSE value

Set(s) ==
  /\ spc[s] = "start"
  /\ value' = Stored(s)
  /\ spc' = [spc EXCEPT ![s] = IF value = NoValue THEN "wake" ELSE "false"]
  /\ UNCHANGED <<waker, ppc, got, woken>>

\* waker.wake(), after the lock is released.
Wake(s) ==
  /\ spc[s] = "wake"
  /\ woken' = (woken \/ waker) /\ waker' = FALSE
  /\ spc' = [spc EXCEPT ![s] = "true"]
  /\ UNCHANGED <<value, ppc, got>>

\* A read of the slot on the way to `next` if it is empty.
ReadSlot(next) ==
  /\ IF value = NoValue
       THEN ppc' = next /\ UNCHANGED got
       ELSE ppc' = "ready" /\ got' = value
  /\ UNCHANGED <<value, spc>>

\* poll() 1: the fast path.  A parked poller is polled when its task is woken,
\* or at any time for another reason.
Poll ==
  /\ ppc \in {"idle", "parked", "ready"}
  /\ woken' = FALSE
  /\ ReadSlot("register") /\ UNCHANGED waker

\* poll() 2: register.
Register ==
  /\ ppc = "register"
  /\ waker' = TRUE /\ ppc' = "reread"
  /\ UNCHANGED <<value, spc, got, woken>>

\* poll() 3: re-read, Pending only if the slot is still empty.
\* Mutant: Pending without the second read.
Reread_Skipped == /\ ppc = "reread" /\ ppc' = "parked"
                  /\ UNCHANGED <<value, spc, got, woken, waker>>
Reread == ppc = "reread" /\ ReadSlot("parked") /\ UNCHANGED <<woken, waker>>

-----------------------------------------------------------------------------
Next == (\E s \in Setters : Set(s) \/ Wake(s)) \/ Poll \/ Register \/ Reread

Spec == Init /\ [][Next]_vars

-----------------------------------------------------------------------------
(* Properties *)

\* The variables of this module keep their types and stay within the bounds.
TypeOK ==
  /\ value \in Setters \cup {NoValue} /\ waker \in BOOLEAN
  /\ spc \in [Setters -> {"start", "wake", "true", "false"}]
  /\ ppc \in {"idle", "register", "reread", "parked", "ready"}
  /\ got \in Setters \cup {NoValue} /\ woken \in BOOLEAN

\* First writer wins: set() returns true to the one setter whose value the
\* poller sees, on every poll, and to no other.
OneWinner ==
  /\ \A s \in Setters : spc[s] \in {"wake", "true"} <=> value = s
  /\ got # NoValue => got = value

\* No lost wakeup: a poller that went to sleep on a value that is there was
\* woken, or the setter is about to take the waker it left.
NoLostWake ==
  ppc = "parked" /\ value # NoValue =>
    woken \/ (waker /\ \E s \in Setters : spc[s] = "wake")
=============================================================================
