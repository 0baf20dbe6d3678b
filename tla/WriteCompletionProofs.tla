------------------------ MODULE WriteCompletionProofs ------------------------
(***************************************************************************)
(* The reused completion cell, for any number of writes and for a client   *)
(* that may begin the next write with completers of older ones still out:  *)
(* every report is the outcome of its own write, and no wakeup is lost to  *)
(* another generation.  ReportsOwnOutcome says nothing of the write in     *)
(* progress; Current adds who may still touch the cell: an older completer *)
(* may be held, but what is in the slot is the current write's, and the    *)
(* current completer is held exactly while the slot is empty.              *)
(***************************************************************************)
EXTENDS WriteCompletion, TLAPS

TypeOK ==
  /\ generation \in 0..MaxWrites /\ send_gen \in 0..MaxWrites
  /\ slot \in (Writes \X Outcomes) \cup {Empty}
  /\ waker \in BOOLEAN /\ woken \in BOOLEAN /\ channel \in BOOLEAN
  /\ fpc \in {"idle", "clear", "send", "register", "take", "parked", "failed"}
  /\ completer \in [Writes -> {"none", "held", "wake", "dropped"}]
  /\ outcome \in [Writes -> Outcomes \cup {Empty}]
  /\ reported \in Seq(Writes \X Outcomes) /\ superseded \in SUBSET Writes

Polling == fpc \in {"register", "take", "parked"}

\* A reported write is over, and is not the one in progress; a write that has
\* begun is reported, given up or in progress.
Counted ==
  /\ fpc # "idle" => generation > 0
  /\ \A n \in DOMAIN reported :
       /\ reported[n][1] <= generation /\ (fpc # "idle" => reported[n][1] < generation)
       /\ completer[reported[n][1]] \in {"wake", "dropped"}
  /\ \A g \in 1..generation :
       \/ g \in superseded \/ (g = generation /\ fpc # "idle")
       \/ \E m \in DOMAIN reported : reported[m][1] = g

\* Later writes have not begun, and the slot belongs to the current one, save
\* in begin() between the new generation and the clearing of the slot.
Current ==
  /\ \A g \in Writes : g > generation => completer[g] = "none"
  /\ fpc \in {"clear", "send"} => completer[generation] = "none"
  /\ fpc = "idle" /\ generation > 0 => completer[generation] \in {"wake", "dropped"}
  /\ fpc \in {"idle", "send"} => slot = Empty
  /\ slot # Empty /\ fpc # "clear" => slot[1] = generation /\ slot[2] = outcome[generation]
  /\ Polling => send_gen = generation
  /\ Polling /\ slot = Empty => completer[generation] = "held"
  /\ Polling /\ slot # Empty => completer[generation] \in {"wake", "dropped"}
  /\ fpc = "failed" => completer[generation] = "dropped"

\* A poll that found nothing left a waker, or somebody has taken it and woken
\* the task; with the outcome stored, the waker left is about to be taken.
Covered ==
  /\ fpc \in {"take", "parked"} => waker \/ woken
  /\ fpc = "parked" /\ slot # Empty /\ waker => completer[generation] = "wake"

IInv == TypeOK /\ Counted /\ Current /\ Covered /\ ReportsOwnOutcome

\* No lost wakeup: a poll_ready asleep on a completed write is woken already,
\* or its waker is in the cell and the completer of this write will take it.
NoLostWake ==
  fpc = "parked" /\ slot # Empty /\ ~woken =>
    waker /\ completer[generation] = "wake"

-----------------------------------------------------------------------------
\* The new cell satisfies the inductive invariant.
LEMMA InitInvariant == Init => IInv
<1> SUFFICES ASSUME Init PROVE IInv
  OBVIOUS
<1> USE CompletionAssumption DEF Init
<1>1. TypeOK
  <2>1. 0 \in 0..MaxWrites /\ <<>> \in Seq(Writes \X Outcomes)
    OBVIOUS
  <2> QED BY <2>1 DEF TypeOK
<1>2. Counted /\ Covered /\ ReportsOwnOutcome
  BY DEF Counted, Covered, ReportsOwnOutcome
<1>3. Current
  BY DEF Current, Polling, Writes
<1> QED BY <1>1, <1>2, <1>3 DEF IInv

\* A pair is not the empty slot, and its components are known.
LEMMA SlotShape ==
  ASSUME NEW g \in Writes, NEW r \in Outcomes
  PROVE  <<g, r>> # Empty /\ <<g, r>>[1] = g /\ <<g, r>>[2] = r
BY CompletionAssumption

\* Every step of the front end, of a completer and of the channel preserves it.
LEMMA StepInvariant == IInv /\ [Next]_vars => IInv'
<1> SUFFICES ASSUME IInv, [Next]_vars PROVE IInv'
  OBVIOUS
<1> USE CompletionAssumption DEF IInv, TypeOK, Counted, Current, Covered, Polling, ReportsOwnOutcome, Writes
<1> reported \in Seq(Writes \X Outcomes)
  OBVIOUS
<1>0. \A n \in DOMAIN reported : reported[n][1] \in Writes
  OBVIOUS
<1> USE <1>0
<1>1. CASE Begin
  <2>1. TypeOK'
    BY <1>1 DEF Begin
  <2>2. Counted'
    BY <1>1 DEF Begin
  <2>3. (Current /\ Covered)'
    BY <1>1 DEF Begin
  <2>4. ReportsOwnOutcome'
    BY <1>1 DEF Begin
  <2> QED BY <2>1, <2>2, <2>3, <2>4
<1>2. CASE Supersede
  <2>1. TypeOK'
    BY <1>2 DEF Supersede
  <2>2. Counted'
    BY <1>2 DEF Supersede
  <2>3. (Current /\ Covered)'
    BY <1>2 DEF Supersede
  <2>4. ReportsOwnOutcome'
    BY <1>2 DEF Supersede
  <2> QED BY <2>1, <2>2, <2>3, <2>4
<1>3. CASE Clear
  <2>1. TypeOK'
    BY <1>3 DEF Clear
  <2>2. Counted'
    BY <1>3 DEF Clear
  <2>3. (Current /\ Covered)'
    BY <1>3 DEF Clear
  <2>4. ReportsOwnOutcome'
    BY <1>3 DEF Clear
  <2> QED BY <2>1, <2>2, <2>3, <2>4
<1>4. CASE Submit
  <2>1. CASE channel
    <3>1. TypeOK'
      BY <1>4, <2>1 DEF Submit
    <3>2. Counted'
      BY <1>4, <2>1 DEF Submit
    <3>3. (Current /\ Covered)'
      BY <1>4, <2>1 DEF Submit
    <3>4. ReportsOwnOutcome'
      BY <1>4, <2>1 DEF Submit
    <3> QED BY <3>1, <3>2, <3>3, <3>4
  <2>2. CASE ~channel
    <3>1. Cancelled \in Outcomes /\ generation \in Writes /\ slot = Empty
      BY <1>4 DEF Submit, Outcomes
    <3>2. /\ slot' = <<generation, Cancelled>> /\ slot' \in Writes \X Outcomes
          /\ slot' # Empty /\ slot'[1] = generation /\ slot'[2] = Cancelled
      BY <1>4, <2>2, <3>1, SlotShape DEF Submit, Stores
    <3>3. TypeOK'
      BY <1>4, <2>2, <3>1, <3>2 DEF Submit
    <3>4. Counted'
      BY <1>4, <2>2, <3>1 DEF Submit
    <3>5. (Current /\ Covered)'
      BY <1>4, <2>2, <3>1, <3>2 DEF Submit
    <3>6. ReportsOwnOutcome'
      BY <1>4, <2>2, <3>1 DEF Submit
    <3> QED BY <3>3, <3>4, <3>5, <3>6
  <2> QED BY <2>1, <2>2
<1>5. CASE Register
  <2>1. TypeOK'
    BY <1>5 DEF Register
  <2>2. Counted'
    BY <1>5 DEF Register
  <2>3. (Current /\ Covered)'
    BY <1>5 DEF Register
  <2>4. ReportsOwnOutcome'
    BY <1>5 DEF Register
  <2> QED BY <2>1, <2>2, <2>3, <2>4
<1>6. CASE Take
  <2>1. CASE slot # Empty /\ slot[1] = send_gen
    <3>1. /\ slot \in Writes \X Outcomes /\ generation \in Writes
          /\ slot[1] = generation /\ slot[2] = outcome[generation]
          /\ completer[generation] \in {"wake", "dropped"}
      BY <1>6, <2>1 DEF Take
    <3>2. /\ reported' = Append(reported, slot) /\ slot' = Empty /\ fpc = "take" /\ fpc' = "idle"
          /\ send_gen' = 0
          /\ UNCHANGED <<generation, waker, woken, channel, completer, outcome, superseded>>
      BY <1>6, <2>1 DEF Take
    <3> DEFINE k == Len(reported) + 1
    <3>3. /\ DOMAIN reported = 1..(k - 1) /\ DOMAIN reported' = 1..k /\ k \in Nat \ {0}
          /\ reported'[k] = slot /\ \A n \in 1..(k - 1) : reported'[n] = reported[n]
      BY <3>1, <3>2
    <3> HIDE DEF k
    <3>4. TypeOK'
      BY <3>1, <3>2
    <3>5. \A n \in 1..(k - 1) : reported[n][1] < generation
      BY <3>2, <3>3
    <3>6. \A g \in 1..generation : g \in superseded \/ \E m \in 1..k : reported'[m][1] = g
      <4> TAKE g \in 1..generation
      <4>1. CASE g = generation
        <5>1. k \in 1..k /\ reported'[k][1] = g
          BY <3>1, <3>3, <4>1
        <5> QED BY <5>1
      <4>2. CASE g # generation
        <5>1. CASE g \in superseded
          BY <5>1
        <5>2. CASE g \notin superseded
          <6>1. PICK m \in 1..(k - 1) : reported[m][1] = g
            BY <3>3, <4>2, <5>2
          <6> QED BY <3>3, <6>1
        <5> QED BY <5>1, <5>2
      <4> QED BY <4>1, <4>2
    <3>7. Counted'
      <4>1. ASSUME NEW n \in 1..k
            PROVE  reported'[n][1] <= generation /\ completer[reported'[n][1]] \in {"wake", "dropped"}
        <5>1. CASE n = k
          BY <3>1, <3>3, <5>1
        <5>2. CASE n # k
          <6>1. n \in DOMAIN reported /\ reported'[n] = reported[n]
            BY <3>3, <5>2
          <6> QED BY <6>1
        <5> QED BY <5>1, <5>2
      <4> HIDE DEF IInv, TypeOK, Current, Covered, ReportsOwnOutcome
      <4> QED BY <3>2, <3>3, <3>6, <4>1
    <3>8. (Current /\ Covered)'
      BY <3>1, <3>2
    <3>9. ReportsOwnOutcome'
      <4> SUFFICES ASSUME NEW n \in 1..k
                   PROVE  /\ reported'[n][2] = outcome[reported'[n][1]]
                          /\ \A m \in 1..(n - 1) : reported'[m][1] < reported'[n][1]
                          /\ \A g \in 1..reported'[n][1] :
                               g \in superseded \/ \E m \in 1..n : reported'[m][1] = g
        BY <3>2, <3>3
      <4>1. CASE n = k
        BY <3>1, <3>3, <3>5, <3>6, <4>1
      <4>2. CASE n # k
        <5>1. /\ n \in DOMAIN reported /\ n \in 1..(k - 1)
              /\ \A m \in 1..n : reported'[m] = reported[m]
          <6> HIDE DEF IInv, TypeOK, Counted, Current, Covered, ReportsOwnOutcome
          <6> QED BY <3>3, <4>2
        <5>2. /\ reported[n][2] = outcome[reported[n][1]]
              /\ \A m \in 1..(n - 1) : reported[m][1] < reported[n][1]
              /\ \A g \in 1..reported[n][1] :
                   g \in superseded \/ \E m \in 1..n : reported[m][1] = g
          <6>1. ReportsOwnOutcome
            OBVIOUS
          <6> HIDE DEF IInv, TypeOK, Counted, Current, Covered
          <6> QED BY <5>1, <6>1
        <5>3. \A m \in 1..(n - 1) : m \in 1..n
          OBVIOUS
        <5>4. reported'[n] = reported[n]
          BY <5>1
        <5> HIDE DEF IInv, TypeOK, Counted, Current, Covered, ReportsOwnOutcome
        <5> QED BY <5>1, <5>2, <5>3, <5>4
      <4> QED BY <4>1, <4>2
    <3> QED BY <3>4, <3>7, <3>8, <3>9
  <2>2. CASE ~(slot # Empty /\ slot[1] = send_gen)
    <3>1. TypeOK'
      BY <1>6, <2>2 DEF Take
    <3>2. Counted'
      BY <1>6, <2>2 DEF Take
    <3>3. (Current /\ Covered)'
      BY <1>6, <2>2 DEF Take
    <3>4. ReportsOwnOutcome'
      BY <1>6, <2>2 DEF Take
    <3> QED BY <3>1, <3>2, <3>3, <3>4
  <2> QED BY <2>1, <2>2
<1>7. CASE PollAgain
  <2>1. TypeOK'
    BY <1>7 DEF PollAgain
  <2>2. Counted'
    BY <1>7 DEF PollAgain
  <2>3. (Current /\ Covered)'
    BY <1>7 DEF PollAgain
  <2>4. ReportsOwnOutcome'
    BY <1>7 DEF PollAgain
  <2> QED BY <2>1, <2>2, <2>3, <2>4
<1>8. CASE CloseChannel
  <2>1. TypeOK'
    BY <1>8 DEF CloseChannel
  <2>2. Counted'
    BY <1>8 DEF CloseChannel
  <2>3. (Current /\ Covered)'
    BY <1>8 DEF CloseChannel
  <2>4. ReportsOwnOutcome'
    BY <1>8 DEF CloseChannel
  <2> QED BY <2>1, <2>2, <2>3, <2>4
<1>9. ASSUME NEW g \in Writes, NEW r \in Outcomes, Complete(g, r) PROVE IInv'
  <2>1. g <= generation
    BY <1>9 DEF Complete
  <2>2. \A n \in DOMAIN reported : reported[n][1] # g
    BY <1>9 DEF Complete
  <2>3. TypeOK'
    BY <1>9, SlotShape DEF Complete, Stores, First
  <2>4. Counted'
    <3>1. \A h \in Writes : h # g => completer'[h] = completer[h]
      BY <1>9 DEF Complete
    <3>2. \A n \in DOMAIN reported : completer'[reported[n][1]] = completer[reported[n][1]]
      BY <2>2, <3>1
    <3>3. UNCHANGED <<generation, fpc, reported, superseded>> /\ Counted
      BY <1>9 DEF Complete
    <3> HIDE DEF IInv, TypeOK, Current, Covered, ReportsOwnOutcome
    <3> QED BY <3>2, <3>3
  <2>5. Current'
    <3>1. CASE Stores(g)
      <4>1. /\ g = generation /\ slot = Empty /\ Polling
            /\ slot' # Empty /\ slot'[1] = g /\ slot'[2] = r
            /\ completer' = [completer EXCEPT ![g] = "wake"]
            /\ outcome' = [outcome EXCEPT ![g] = r]
            /\ UNCHANGED <<generation, fpc, send_gen>>
        BY <1>9, <3>1, SlotShape DEF Complete, Stores, First
      <4> QED BY <4>1
    <3>2. CASE ~Stores(g)
      BY <1>9, <2>1, <3>2 DEF Complete, Stores
    <3> QED BY <3>1, <3>2
  <2>6. Covered'
    BY <1>9, <2>1, SlotShape DEF Complete, Stores, First
  <2>7. ReportsOwnOutcome'
    <3>1. \A h \in Writes : h # g => outcome'[h] = outcome[h]
      BY <1>9 DEF Complete
    <3>2. \A n \in DOMAIN reported : outcome'[reported[n][1]] = outcome[reported[n][1]]
      BY <2>2, <3>1
    <3>3. UNCHANGED <<reported, superseded>> /\ ReportsOwnOutcome
      BY <1>9 DEF Complete
    <3> HIDE DEF IInv, TypeOK, Counted, Current, Covered
    <3> QED BY <3>2, <3>3
  <2> QED BY <2>3, <2>4, <2>5, <2>6, <2>7
<1>10. ASSUME NEW g \in Writes, Wake(g) PROVE IInv'
  <2>1. woken' \in BOOLEAN /\ waker' = FALSE /\ (waker \/ woken => woken')
    BY <1>10 DEF Wake
  <2>2. /\ completer[g] = "wake" /\ completer' = [completer EXCEPT ![g] = "dropped"]
        /\ UNCHANGED <<generation, slot, fpc, send_gen, channel, outcome, reported, superseded>>
    BY <1>10 DEF Wake
  <2>3. TypeOK'
    BY <2>1, <2>2
  <2>4. Counted'
    <3>1. \A h \in Writes : completer[h] \in {"wake", "dropped"} => completer'[h] \in {"wake", "dropped"}
      BY <2>2
    <3>2. \A n \in DOMAIN reported : completer'[reported[n][1]] \in {"wake", "dropped"}
      BY <3>1
    <3>3. Counted
      OBVIOUS
    <3> HIDE DEF IInv, TypeOK, Current, Covered, ReportsOwnOutcome
    <3> QED BY <2>2, <3>2, <3>3
  <2>5. Current'
    BY <2>2
  <2>6. Covered'
    BY <2>1, <2>2
  <2>7. ReportsOwnOutcome'
    BY <2>2
  <2> QED BY <2>3, <2>4, <2>5, <2>6, <2>7
<1>11. CASE UNCHANGED vars
  <2>1. TypeOK' /\ Counted'
    BY <1>11 DEF vars
  <2>2. Current' /\ Covered' /\ ReportsOwnOutcome'
    BY <1>11 DEF vars
  <2> QED BY <2>1, <2>2
<1> QED
  BY <1>1, <1>2, <1>3, <1>4, <1>5, <1>6, <1>7, <1>8, <1>9, <1>10, <1>11 DEF Next, PollReady, Worker

\* The inductive invariant holds throughout.
THEOREM Invariant == Spec => []IInv
BY InitInvariant, StepInvariant, PTL DEF Spec

\* The variables of the cell and of its users keep their types.
THEOREM TypeCorrect == Spec => []TypeOK
<1>1. IInv => TypeOK
  BY DEF IInv
<1> QED BY <1>1, Invariant, PTL

\* Every report carries what the worker did with the write it is for, in the
\* order of the writes and once: a completion or a drop that comes after a
\* later write has begun is told by its generation and never reported.
THEOREM EveryReportIsItsOwn == Spec => []ReportsOwnOutcome
<1>1. IInv => ReportsOwnOutcome
  BY DEF IInv
<1> QED BY <1>1, Invariant, PTL

\* A completer of an older generation may take the waker of the current poll,
\* and yet the outcome of the current write finds the task awake or wakes it.
THEOREM WakeupIsNeverLost == Spec => []NoLostWake
<1>1. IInv => NoLostWake
  BY DEF IInv, Covered, NoLostWake
<1> QED BY <1>1, Invariant, PTL
=============================================================================
