------------------------- MODULE TerminalCellProofs -------------------------
(***************************************************************************)
(* The terminal cell, for any number of setters: one winner, a sticky      *)
(* value, and no lost wakeup.  NoLostWake is not inductive by itself: that *)
(* a sleeping poller left a waker or was woken (Covered) has to be known   *)
(* from the registration on, and that a waker left behind by a poller that *)
(* sleeps on a value is still to be taken by the winner (WakerIsTaken).    *)
(***************************************************************************)
EXTENDS TerminalCell, TLAPS

Covered == ppc \in {"reread", "parked"} => waker \/ woken

WakerIsTaken ==
  ppc = "parked" /\ waker /\ value # NoValue => spc[value] = "wake"

IInv == TypeOK /\ OneWinner /\ Covered /\ WakerIsTaken

-----------------------------------------------------------------------------
\* The empty cell satisfies the inductive invariant.
LEMMA InitInvariant == Init => IInv
BY CellAssumption DEF Init, IInv, TypeOK, OneWinner, Covered, WakerIsTaken

\* Every step of a setter or of the poller preserves it.
LEMMA StepInvariant == IInv /\ [Next]_vars => IInv'
<1> SUFFICES ASSUME IInv, [Next]_vars PROVE IInv'
  OBVIOUS
<1> USE CellAssumption DEF IInv, TypeOK, OneWinner, Covered, WakerIsTaken
<1>1. ASSUME NEW s \in Setters, Set(s) PROVE IInv'
  <2>1. CASE value = NoValue
    BY <1>1, <2>1 DEF Set, Stored
  <2>2. CASE value # NoValue
    BY <1>1, <2>2 DEF Set, Stored
  <2> QED BY <2>1, <2>2
<1>2. ASSUME NEW s \in Setters, Wake(s) PROVE IInv'
  BY <1>2 DEF Wake
<1>3. CASE Poll
  BY <1>3 DEF Poll, ReadSlot
<1>4. CASE Register
  BY <1>4 DEF Register
<1>5. CASE Reread
  BY <1>5 DEF Reread, ReadSlot
<1>6. CASE UNCHANGED vars
  BY <1>6 DEF vars
<1> QED BY <1>1, <1>2, <1>3, <1>4, <1>5, <1>6 DEF Next

\* The inductive invariant holds throughout.
THEOREM Invariant == Spec => []IInv
BY InitInvariant, StepInvariant, PTL DEF Spec

\* The variables keep their types.
THEOREM TypeCorrect == Spec => []TypeOK
<1>1. IInv => TypeOK
  BY DEF IInv
<1> QED BY <1>1, Invariant, PTL

\* set() is first-writer-wins: exactly the setter whose value is stored gets
\* true, and every ready poll returns that value.
THEOREM FirstWriterWins == Spec => []OneWinner
<1>1. IInv => OneWinner
  BY DEF IInv
<1> QED BY <1>1, Invariant, PTL

\* The register-then-re-read order of poll() loses no wakeup.
THEOREM WakeupIsNeverLost == Spec => []NoLostWake
<1>1. IInv => NoLostWake
  <2> SUFFICES ASSUME IInv, ppc = "parked", value # NoValue, ~woken
               PROVE  waker /\ \E s \in Setters : spc[s] = "wake"
    BY DEF NoLostWake
  <2>1. waker
    BY DEF IInv, Covered
  <2>2. value \in Setters /\ spc[value] = "wake"
    BY <2>1 DEF IInv, TypeOK, WakerIsTaken
  <2> QED BY <2>1, <2>2
<1> QED BY <1>1, Invariant, PTL
=============================================================================
