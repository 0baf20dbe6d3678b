--------------------------- MODULE EndpointProofs ---------------------------
(***************************************************************************)
(* Theorems about the endpoint, for every number of acceptors, callers and *)
(* connections.  The inductive invariant adds to the properties            *)
(*   - that ids at or above next_id were never started, so that a          *)
(*     registration really adds a worker and `live` may count it;          *)
(*   - that a drained wait_idle was reached with closing set and no worker *)
(*     left, which the admission fence then preserves;                     *)
(*   - that every copy of a close frame is the stored first one;           *)
(*   - that a worker that close() has not told yet is among the recipients *)
(*     of a close() call that is under way (Told);                         *)
(* and two facts that the liveness properties rest on: a wait_idle or an   *)
(* accept call that sleeps past its condition is about to be notified.     *)
(***************************************************************************)
EXTENDS Endpoint, FiniteSetTheorems, TLAPS

Fresh == \A i \in Ids : i >= next_id => wstate[i] = "none"

Drained == (\E w \in Waiters : ipc[w] = "drained") => closing /\ live = 0

FrameCopies ==
  /\ closing <=> close_frame # NoFrame
  /\ \A c \in Closers : cpc[c] # "start" => closing /\ cframe[c] = close_frame
  /\ \A i \in Ids : \A k \in DOMAIN inbox[i] : closing /\ inbox[i][k] = close_frame

Told ==
  \A i \in conns :
    closing /\ handle[i] =>
      \/ inbox[i] # <<>> \/ wstate[i] = "closing"
      \/ \E c \in Closers : i \in recipients[c] /\ cpc[c] \in {"wake", "send"}

\* A wait_idle call that goes to sleep, or sleeps, with no worker left is
\* awake already or the last worker is about to notify it.
NoLostIdleWake ==
  \A w \in Waiters :
    ipc[w] \in {"await", "parked"} /\ live = 0 /\ ~woken[w] =>
      \E i \in Ids : wstate[i] = "notify"

\* An accept call that goes to sleep, or sleeps, on a stale snapshot of
\* closing is awake already or a close() call is about to wake it.
NoLostAcceptWake ==
  \A a \in Acceptors :
    apc[a] \in {"poll", "select"} /\ closing /\ ~snap[a] /\ ~awake[a] =>
      \E c \in Closers : cpc[c] = "wake"

IInv == /\ TypeOK /\ Fresh /\ LiveCountsWorkers /\ Drained
        /\ FrameCopies /\ FirstFrameWins
        /\ Told /\ NoLostIdleWake /\ NoLostAcceptWake

-----------------------------------------------------------------------------
(* The set of ids is finite, so the registry can be counted. *)
LEMMA RegistryFinite ==
  ASSUME conns \in SUBSET Ids
  PROVE  IsFiniteSet(conns) /\ Cardinality(conns) \in Nat
<1>1. IsFiniteSet(Ids)
  BY FS_Interval, EndpointAssumption DEF Ids
<1> QED BY <1>1, FS_Subset, FS_CardinalityType

\* The initial states satisfy the inductive invariant.
LEMMA InitInvariant == Init => IInv
<1> SUFFICES ASSUME Init PROVE IInv
  OBVIOUS
<1> USE DEF Init
<1>1. TypeState
  <2>1. closing \in BOOLEAN /\ close_frame \in Closers \cup {NoFrame} /\ conns \in SUBSET Ids
    OBVIOUS
  <2>2. live \in Nat /\ next_id \in 0..MaxConns
    BY EndpointAssumption
  <2> QED BY <2>1, <2>2 DEF TypeState
<1>2. TypeAcceptor
  BY DEF TypeAcceptor
<1>3. TypeWorker
  BY DEF TypeWorker, Frames
<1>4. TypeCallers
  BY DEF TypeCallers, Frames
<1>5. LiveCountsWorkers
  BY FS_EmptySet DEF LiveCountsWorkers, Running
<1>6. Fresh /\ Drained /\ FrameCopies /\ FirstFrameWins
  BY DEF Fresh, Drained, FrameCopies, FirstFrameWins
<1>7. Told /\ NoLostIdleWake /\ NoLostAcceptWake
  BY DEF Told, NoLostIdleWake, NoLostAcceptWake
<1> QED BY <1>1, <1>2, <1>3, <1>4, <1>5, <1>6, <1>7 DEF IInv, TypeOK

-----------------------------------------------------------------------------
(* Type correctness, one step per action. *)

\* Every action of accept() preserves the types.
LEMMA AcceptorTypes ==
  ASSUME TypeOK, NEW a \in Acceptors,
         \/ Accept(a) \/ AcceptIncoming(a) \/ ListenerEnds(a)
         \/ CancelAccept(a) \/ DropAcceptor(a)
  PROVE  TypeOK'
<1> USE DEF TypeOK, TypeState, TypeAcceptor, TypeWorker, TypeCallers,
            stateVars, acceptorVars, workerVars, closerVars, waiterVars, Arm, Leave
<1>1. CASE CallAccept(a)
  BY <1>1 DEF CallAccept
<1>2. CASE AcceptCheck(a)
  BY <1>2 DEF AcceptCheck
<1>3. CASE AcceptPoll(a)
  <2>1. TypeAcceptor'
    BY <1>3 DEF AcceptPoll
  <2> QED BY <1>3, <2>1 DEF AcceptPoll
<1>4. CASE AcceptWoken(a)
  BY <1>4 DEF AcceptWoken
<1>5. ASSUME NEW id \in Ids, AcceptHandshake(a, id) PROVE TypeOK'
  <2>1. yielded' \in SUBSET Ids /\ handshakes' \in [Acceptors -> SUBSET Ids]
    BY <1>5 DEF AcceptHandshake
  <2>2. /\ apc' \in [Acceptors -> {"out", "check", "poll", "select", "ended", "dropped"}]
        /\ snap' \in [Acceptors -> BOOLEAN] /\ awake' \in [Acceptors -> BOOLEAN]
    <3>1. \E x \in {"out", "check"} : Leave(a, x)
      BY <1>5 DEF AcceptHandshake
    <3> QED BY <3>1
  <2>3. TypeAcceptor'
    BY <1>5, <2>1, <2>2 DEF AcceptHandshake
  <2>4. handle' \in [Ids -> BOOLEAN]
    BY <1>5 DEF AcceptHandshake
  <2>5. TypeWorker'
    BY <1>5, <2>4 DEF AcceptHandshake
  <2> QED BY <1>5, <2>3, <2>5 DEF AcceptHandshake
<1>6. CASE AcceptIncoming(a)
  <2>1. next_id \in Ids /\ next_id + 1 \in 0..MaxConns
    BY <1>6, EndpointAssumption DEF AcceptIncoming, Ids
  <2>2. CASE Admits
    <3>0. /\ conns' = conns \cup {next_id} /\ live' = live + 1 /\ next_id' = next_id + 1
          /\ UNCHANGED <<closing, close_frame>>
      BY <1>6, <2>2 DEF AcceptIncoming
    <3>1. TypeState'
      BY <2>1, <3>0
    <3>2. TypeAcceptor'
      BY <1>6, <2>1, <2>2 DEF AcceptIncoming
    <3>3. TypeWorker'
      BY <1>6, <2>1, <2>2 DEF AcceptIncoming, Running
    <3> QED BY <1>6, <2>2, <3>1, <3>2, <3>3 DEF AcceptIncoming
  <2>3. CASE ~Admits
    BY <1>6, <2>3 DEF AcceptIncoming
  <2> QED BY <2>2, <2>3
<1>7. CASE ListenerEnds(a)
  BY <1>7 DEF ListenerEnds
<1>8. CASE CancelAccept(a)
  BY <1>8 DEF CancelAccept
<1>9. CASE DropAcceptor(a)
  BY <1>9 DEF DropAcceptor
<1> QED BY <1>1, <1>2, <1>3, <1>4, <1>5, <1>6, <1>7, <1>8, <1>9 DEF Accept

\* Every action of a connection preserves the types.
LEMMA WorkerTypes ==
  ASSUME TypeOK, NEW id \in Ids, Worker(id) \/ PeerCloses(id) \/ DropConnection(id)
  PROVE  TypeOK'
<1> USE DEF TypeOK, TypeState, TypeAcceptor, TypeWorker, TypeCallers,
            stateVars, acceptorVars, workerVars, closerVars, waiterVars, Running
<1>1. CASE Establish(id)
  BY <1>1 DEF Establish
<1>2. CASE SetupFails(id)
  BY <1>2 DEF SetupFails
<1>3. CASE ApplyClose(id)
  <2>1. Head(inbox[id]) \in Frames /\ Tail(inbox[id]) \in Seq(Frames)
    BY <1>3 DEF ApplyClose
  <2> QED BY <1>3, <2>1 DEF ApplyClose
<1>4. CASE Teardown(id)
  BY <1>4 DEF Teardown, Frames
<1>5. CASE Deregister(id)
  BY <1>5 DEF Deregister, LiveAfterDrop
<1>6. CASE NotifyIdle(id)
  BY <1>6 DEF NotifyIdle
<1>7. CASE PeerCloses(id)
  BY <1>7 DEF PeerCloses
<1>8. CASE DropConnection(id)
  BY <1>8 DEF DropConnection
<1> QED BY <1>1, <1>2, <1>3, <1>4, <1>5, <1>6, <1>7, <1>8 DEF Worker

\* Every action of close() and wait_idle() preserves the types.
LEMMA CallerTypes ==
  ASSUME TypeOK,
         \/ \E c \in Closers : CloseLock(c) \/ Close(c)
         \/ \E w \in Waiters : Wait(w)
  PROVE  TypeOK'
<1> USE DEF TypeOK, TypeState, TypeAcceptor, TypeWorker, TypeCallers,
            stateVars, acceptorVars, workerVars, closerVars, waiterVars
<1>1. ASSUME NEW c \in Closers, CloseLock(c) PROVE TypeOK'
  BY <1>1 DEF CloseLock, BroadcastFrame, Recipients, Frames
<1>2. ASSUME NEW c \in Closers, CloseWake(c) PROVE TypeOK'
  BY <1>2 DEF CloseWake
<1>3. ASSUME NEW c \in Closers, NEW id \in Ids, CloseSend(c, id) PROVE TypeOK'
  <2>1. Append(inbox[id], cframe[c]) \in Seq(Frames)
    OBVIOUS
  <2> QED BY <1>3, <2>1 DEF CloseSend
<1>4. ASSUME NEW c \in Closers, CloseReturn(c) PROVE TypeOK'
  BY <1>4 DEF CloseReturn
<1>5. ASSUME NEW w \in Waiters, WaitArm(w) PROVE TypeOK'
  BY <1>5 DEF WaitArm
<1>6. ASSUME NEW w \in Waiters, WaitCheck(w) PROVE TypeOK'
  BY <1>6 DEF WaitCheck
<1>7. ASSUME NEW w \in Waiters, WaitPark(w) PROVE TypeOK'
  BY <1>7 DEF WaitPark
<1> QED BY <1>1, <1>2, <1>3, <1>4, <1>5, <1>6, <1>7 DEF Close, Wait

\* A step of the endpoint preserves the types.
LEMMA StepTypes == TypeOK /\ [Next]_vars => TypeOK'
<1> SUFFICES ASSUME TypeOK, [Next]_vars PROVE TypeOK'
  OBVIOUS
<1>1. CASE UNCHANGED vars
  BY <1>1 DEF vars, stateVars, acceptorVars, workerVars, closerVars, waiterVars,
              TypeOK, TypeState, TypeAcceptor, TypeWorker, TypeCallers
<1>2. CASE Next
  BY <1>2, AcceptorTypes, WorkerTypes, CallerTypes DEF Next
<1> QED BY <1>1, <1>2

-----------------------------------------------------------------------------
(* The registry: what a step does to it, and that `live` counts it. *)

\* Only a registration under the fence and a deregistration touch the
\* registry or move a worker in or out of Running.
RegistryKept ==
  /\ UNCHANGED <<conns, live, next_id>>
  /\ \A i \in Ids : wstate[i] \in Running <=> wstate'[i] \in Running
  /\ \A i \in Ids : wstate[i] = "none" => wstate'[i] = "none"

Registers ==
  /\ ~closing /\ next_id \in Ids
  /\ next_id' = next_id + 1 /\ conns' = conns \cup {next_id} /\ live' = live + 1
  /\ wstate' = [wstate EXCEPT ![next_id] = "handshake"]
  /\ UNCHANGED <<closing, ipc>>

Deregisters ==
  \E id \in Ids :
    /\ wstate[id] = "closing"
    /\ conns' = conns \ {id} /\ live' = IF live > 0 THEN live - 1 ELSE 0
    /\ wstate' = [wstate EXCEPT ![id] = IF live' = 0 THEN "notify" ELSE "exited"]
    /\ UNCHANGED <<next_id, closing, ipc>>

\* Every step does one of the three.
LEMMA RegistrySteps ==
  ASSUME TypeOK, [Next]_vars
  PROVE  RegistryKept \/ Registers \/ Deregisters
<1> USE DEF stateVars, workerVars
<1>1. CASE UNCHANGED vars
  BY <1>1 DEF vars, RegistryKept
<1>2. ASSUME NEW a \in Acceptors,
             Accept(a) \/ ListenerEnds(a) \/ CancelAccept(a) \/ DropAcceptor(a)
      PROVE  RegistryKept
  BY <1>2 DEF Accept, CallAccept, AcceptCheck, AcceptPoll, AcceptWoken, AcceptHandshake,
              ListenerEnds, CancelAccept, DropAcceptor, RegistryKept
<1>3. ASSUME NEW a \in Acceptors, AcceptIncoming(a)
      PROVE  RegistryKept \/ Registers
  <2>1. next_id \in Ids
    BY <1>3, EndpointAssumption DEF AcceptIncoming, Ids, TypeOK, TypeState
  <2>2. CASE Admits
    BY <1>3, <2>1, <2>2 DEF AcceptIncoming, Admits, Registers, waiterVars
  <2>3. CASE ~Admits
    BY <1>3, <2>3 DEF AcceptIncoming, RegistryKept
  <2> QED BY <2>2, <2>3
<1>4. ASSUME NEW id \in Ids,
             \/ Establish(id) \/ SetupFails(id) \/ ApplyClose(id) \/ Teardown(id)
             \/ NotifyIdle(id) \/ PeerCloses(id) \/ DropConnection(id)
      PROVE  RegistryKept
  BY <1>4 DEF Establish, SetupFails, ApplyClose, Teardown, NotifyIdle, PeerCloses,
              DropConnection, RegistryKept, Running, TypeOK, TypeWorker
<1>5. ASSUME NEW id \in Ids, Deregister(id) PROVE Deregisters
  BY <1>5 DEF Deregister, LiveAfterDrop, Deregisters, waiterVars
<1>6. ASSUME NEW c \in Closers, CloseLock(c) \/ Close(c) PROVE RegistryKept
  BY <1>6 DEF CloseLock, Close, CloseWake, CloseSend, CloseReturn, RegistryKept
<1>7. ASSUME NEW w \in Waiters, Wait(w) PROVE RegistryKept
  BY <1>7 DEF Wait, WaitArm, WaitCheck, WaitPark, RegistryKept
<1> QED BY <1>1, <1>2, <1>3, <1>4, <1>5, <1>6, <1>7 DEF Next, Worker

\* The registry stays the set of running workers, and `live` its size.
LEMMA StepCounts ==
  ASSUME TypeOK, TypeOK', Fresh, LiveCountsWorkers, [Next]_vars
  PROVE  Fresh' /\ LiveCountsWorkers'
<1> USE DEF TypeOK, TypeState, TypeWorker
<1>1. IsFiniteSet(conns) /\ Cardinality(conns) \in Nat
  BY RegistryFinite
<1>2. CASE RegistryKept
  BY <1>2 DEF RegistryKept, Fresh, LiveCountsWorkers
<1>3. CASE Registers
  <2>1. next_id \notin conns
    BY <1>3 DEF Registers, Fresh, LiveCountsWorkers, Running, Ids
  <2>2. Cardinality(conns') = Cardinality(conns) + 1
    BY <1>1, <1>3, <2>1, FS_AddElement DEF Registers
  <2>3. conns' = {i \in Ids : wstate'[i] \in Running}
    BY <1>3 DEF Registers, LiveCountsWorkers, Running
  <2>4. Fresh'
    BY <1>3 DEF Registers, Fresh, Ids
  <2> QED BY <1>3, <2>2, <2>3, <2>4 DEF Registers, LiveCountsWorkers
<1>4. CASE Deregisters
  <2>1. PICK id \in Ids :
          /\ wstate[id] = "closing"
          /\ conns' = conns \ {id} /\ live' = IF live > 0 THEN live - 1 ELSE 0
          /\ wstate' = [wstate EXCEPT ![id] = IF live' = 0 THEN "notify" ELSE "exited"]
          /\ UNCHANGED <<next_id, closing, ipc>>
    BY <1>4 DEF Deregisters
  <2>2. id \in conns
    BY <2>1 DEF LiveCountsWorkers, Running
  <2>3. Cardinality(conns') = Cardinality(conns) - 1
    BY <1>1, <2>1, <2>2, FS_RemoveElement
  <2>4. live' = Cardinality(conns')
    <3>1. Cardinality(conns) # 0
      BY <1>1, <2>2, FS_EmptySet
    <3> QED BY <1>1, <2>1, <2>3, <3>1 DEF LiveCountsWorkers
  <2>5. conns' = {i \in Ids : wstate'[i] \in Running}
    BY <2>1 DEF LiveCountsWorkers, Running
  <2>6. Fresh'
    BY <2>1 DEF Fresh
  <2> QED BY <2>4, <2>5, <2>6 DEF LiveCountsWorkers
<1> QED BY <1>2, <1>3, <1>4, RegistrySteps

-----------------------------------------------------------------------------
(* The fence. *)

\* closing latches.
LEMMA ClosingLatches ==
  ASSUME TypeOK, [Next]_vars
  PROVE  closing => closing'
<1> USE DEF stateVars
<1>1. CASE UNCHANGED vars
  BY <1>1 DEF vars
<1>2. ASSUME NEW a \in Acceptors,
             \/ Accept(a) \/ AcceptIncoming(a) \/ ListenerEnds(a)
             \/ CancelAccept(a) \/ DropAcceptor(a)
      PROVE  UNCHANGED closing
  BY <1>2 DEF Accept, CallAccept, AcceptCheck, AcceptPoll, AcceptWoken, AcceptHandshake,
              AcceptIncoming, ListenerEnds, CancelAccept, DropAcceptor
<1>3. ASSUME NEW id \in Ids, Worker(id) \/ PeerCloses(id) \/ DropConnection(id)
      PROVE  UNCHANGED closing
  BY <1>3 DEF Worker, Establish, SetupFails, ApplyClose, Teardown, Deregister, NotifyIdle,
              PeerCloses, DropConnection
<1>4. ASSUME NEW c \in Closers, CloseLock(c) \/ Close(c) PROVE closing => closing'
  BY <1>4 DEF CloseLock, Close, CloseWake, CloseSend, CloseReturn
<1>5. ASSUME NEW w \in Waiters, Wait(w) PROVE UNCHANGED closing
  BY <1>5 DEF Wait, WaitArm, WaitCheck, WaitPark
<1> QED BY <1>1, <1>2, <1>3, <1>4, <1>5 DEF Next

\* A wait_idle call only becomes "drained" by reading closing and live = 0.
LEMMA DrainedByCheck ==
  ASSUME TypeOK, [Next]_vars, NEW w \in Waiters, ipc'[w] = "drained"
  PROVE  ipc[w] = "drained" \/ (closing /\ live = 0)
<1> USE DEF waiterVars
<1>1. CASE UNCHANGED vars
  BY <1>1 DEF vars
<1>2. ASSUME NEW a \in Acceptors,
             \/ Accept(a) \/ AcceptIncoming(a) \/ ListenerEnds(a)
             \/ CancelAccept(a) \/ DropAcceptor(a)
      PROVE  UNCHANGED ipc
  BY <1>2 DEF Accept, CallAccept, AcceptCheck, AcceptPoll, AcceptWoken, AcceptHandshake,
              AcceptIncoming, ListenerEnds, CancelAccept, DropAcceptor
<1>3. ASSUME NEW id \in Ids, Worker(id) \/ PeerCloses(id) \/ DropConnection(id)
      PROVE  UNCHANGED ipc
  BY <1>3 DEF Worker, Establish, SetupFails, ApplyClose, Teardown, Deregister, NotifyIdle,
              PeerCloses, DropConnection
<1>4. ASSUME NEW c \in Closers, CloseLock(c) \/ Close(c) PROVE UNCHANGED ipc
  BY <1>4 DEF CloseLock, Close, CloseWake, CloseSend, CloseReturn
<1>5. ASSUME NEW v \in Waiters, Wait(v)
      PROVE  ipc[w] = "drained" \/ (closing /\ live = 0)
  BY <1>5 DEF Wait, WaitArm, WaitCheck, WaitPark, TypeOK, TypeState, TypeCallers
<1> QED BY <1>1, <1>2, <1>3, <1>4, <1>5 DEF Next

\* Under closing a worker count of zero stays zero: a drained wait_idle call
\* remains justified.
LEMMA StepDrained ==
  ASSUME TypeOK, Drained, [Next]_vars
  PROVE  Drained'
<1>1. ASSUME closing, live = 0 PROVE closing' /\ live' = 0
  <2>1. closing'
    BY <1>1, ClosingLatches
  <2>2. ~Registers
    BY <1>1 DEF Registers
  <2>3. RegistryKept \/ Deregisters
    BY <2>2, RegistrySteps
  <2>4. live' = 0
    <3>1. CASE RegistryKept
      BY <1>1, <3>1 DEF RegistryKept
    <3>2. CASE Deregisters
      BY <1>1, <3>2 DEF Deregisters
    <3> QED BY <2>3, <3>1, <3>2
  <2> QED BY <2>1, <2>4
<1>2. SUFFICES ASSUME NEW w \in Waiters, ipc'[w] = "drained"
               PROVE  closing' /\ live' = 0
  BY DEF Drained
<1> QED BY <1>1, <1>2, DrainedByCheck DEF Drained

-----------------------------------------------------------------------------
(* The first close frame. *)

\* What a step does to the frames.
FramesKept == UNCHANGED <<closing, close_frame, cpc, cframe, inbox, closed_with>>

\* A step that is not one of close(), of applying a close and of dropping a
\* driver leaves every copy of a frame alone.
LEMMA FrameSteps ==
  ASSUME TypeOK, [Next]_vars
  PROVE  \/ FramesKept
         \/ \E c \in Closers : \/ CloseLock(c) \/ CloseWake(c) \/ CloseReturn(c)
                               \/ \E id \in Ids : CloseSend(c, id)
         \/ \E id \in Ids : ApplyClose(id) \/ Teardown(id) \/ Deregister(id)
<1> USE DEF stateVars, closerVars, workerVars, FramesKept
<1>1. CASE UNCHANGED vars
  BY <1>1 DEF vars
<1>2. ASSUME NEW a \in Acceptors,
             \/ Accept(a) \/ AcceptIncoming(a) \/ ListenerEnds(a)
             \/ CancelAccept(a) \/ DropAcceptor(a)
      PROVE  FramesKept
  BY <1>2 DEF Accept, CallAccept, AcceptCheck, AcceptPoll, AcceptWoken, AcceptHandshake,
              AcceptIncoming, ListenerEnds, CancelAccept, DropAcceptor
<1>3. ASSUME NEW id \in Ids,
             Establish(id) \/ SetupFails(id) \/ NotifyIdle(id) \/ PeerCloses(id)
               \/ DropConnection(id)
      PROVE  FramesKept
  BY <1>3 DEF Establish, SetupFails, NotifyIdle, PeerCloses, DropConnection
<1>4. ASSUME NEW w \in Waiters, Wait(w) PROVE FramesKept
  BY <1>4 DEF Wait, WaitArm, WaitCheck, WaitPark
<1> QED BY <1>1, <1>2, <1>3, <1>4 DEF Next, Worker, Close

\* Every copy of a close frame stays the stored first one.
LEMMA StepFrames ==
  ASSUME TypeOK, FrameCopies, FirstFrameWins, [Next]_vars
  PROVE  FrameCopies' /\ FirstFrameWins'
<1> USE DEF FrameCopies, FirstFrameWins, TypeOK, TypeState, TypeWorker, TypeCallers,
            stateVars, workerVars, closerVars
<1>1. CASE FramesKept
  BY <1>1 DEF FramesKept
<1>2. ASSUME NEW c \in Closers, CloseLock(c) PROVE FrameCopies' /\ FirstFrameWins'
  <2>1. closing' /\ close_frame' # NoFrame
    BY <1>2, EndpointAssumption DEF CloseLock
  <2>2. closing => close_frame' = close_frame
    BY <1>2 DEF CloseLock
  <2>3. cframe'[c] = close_frame'
    BY <1>2 DEF CloseLock, BroadcastFrame
  <2>4. UNCHANGED <<inbox, closed_with>>
    BY <1>2 DEF CloseLock
  <2>5. \A d \in Closers : d # c => cpc'[d] = cpc[d] /\ cframe'[d] = cframe[d]
    BY <1>2 DEF CloseLock
  <2>6. FrameCopies'
    BY <2>1, <2>2, <2>3, <2>4, <2>5
  <2>7. FirstFrameWins'
    <3>1. CASE closing
      BY <3>1, <2>2, <2>4
    <3>2. CASE ~closing
      BY <3>2, <2>4
    <3> QED BY <3>1, <3>2
  <2> QED BY <2>6, <2>7
<1>3. ASSUME NEW c \in Closers, CloseWake(c) \/ CloseReturn(c)
      PROVE  FrameCopies' /\ FirstFrameWins'
  BY <1>3 DEF CloseWake, CloseReturn
<1>4. ASSUME NEW c \in Closers, NEW id \in Ids, CloseSend(c, id)
      PROVE  FrameCopies' /\ FirstFrameWins'
  <2>1. closing /\ cframe[c] = close_frame
    BY <1>4 DEF CloseSend
  <2>2. UNCHANGED <<closing, close_frame, cpc, cframe, closed_with>>
    BY <1>4 DEF CloseSend
  <2>3. ASSUME NEW i \in Ids, NEW k \in DOMAIN inbox'[i]
        PROVE  inbox'[i][k] = close_frame
    BY <1>4, <2>1, <2>3 DEF CloseSend
  <2> QED BY <2>1, <2>2, <2>3
<1>5. ASSUME NEW id \in Ids, ApplyClose(id) PROVE FrameCopies' /\ FirstFrameWins'
  <2>1. UNCHANGED <<closing, close_frame, cpc, cframe>>
    BY <1>5 DEF ApplyClose
  <2>2. 1 \in DOMAIN inbox[id] /\ Head(inbox[id]) = inbox[id][1]
    BY <1>5 DEF ApplyClose
  <2>3. FirstFrameWins'
    BY <1>5, <2>1, <2>2 DEF ApplyClose
  <2>4. ASSUME NEW k \in DOMAIN Tail(inbox[id])
        PROVE  k + 1 \in DOMAIN inbox[id] /\ Tail(inbox[id])[k] = inbox[id][k + 1]
    BY <1>5, <2>4 DEF ApplyClose
  <2>5. ASSUME NEW i \in Ids, NEW k \in DOMAIN inbox'[i]
        PROVE  closing /\ inbox'[i][k] = close_frame
    BY <1>5, <2>4, <2>5 DEF ApplyClose
  <2> QED BY <2>1, <2>3, <2>5
<1>6. ASSUME NEW id \in Ids, Teardown(id) PROVE FrameCopies' /\ FirstFrameWins'
  BY <1>6 DEF Teardown
<1>7. ASSUME NEW id \in Ids, Deregister(id) PROVE FrameCopies' /\ FirstFrameWins'
  BY <1>7 DEF Deregister
<1> QED BY <1>1, <1>2, <1>3, <1>4, <1>5, <1>6, <1>7, FrameSteps

-----------------------------------------------------------------------------
(* The broadcast and the wakeups. *)

\* close() tells every worker whose handles are there, or is still at it.
LEMMA StepTold ==
  ASSUME TypeOK, Told, [Next]_vars
  PROVE  Told'
<1> USE DEF Told, TypeOK, TypeState, TypeWorker, TypeCallers, TypeAcceptor,
            stateVars, workerVars, closerVars
<1>1. CASE UNCHANGED vars
  BY <1>1 DEF vars
<1>2. ASSUME NEW a \in Acceptors,
             CallAccept(a) \/ AcceptCheck(a) \/ AcceptPoll(a) \/ AcceptWoken(a)
               \/ ListenerEnds(a) \/ CancelAccept(a)
      PROVE  Told'
  BY <1>2 DEF CallAccept, AcceptCheck, AcceptPoll, AcceptWoken, ListenerEnds, CancelAccept
<1>3. ASSUME NEW a \in Acceptors, NEW id \in Ids, AcceptHandshake(a, id) PROVE Told'
  BY <1>3 DEF AcceptHandshake
<1>4. ASSUME NEW a \in Acceptors, AcceptIncoming(a) PROVE Told'
  BY <1>4 DEF AcceptIncoming, Admits
<1>5. ASSUME NEW a \in Acceptors, DropAcceptor(a) PROVE Told'
  <2>1. \A i \in conns : handle'[i] => handle[i]
    BY <1>5 DEF DropAcceptor
  <2> QED BY <1>5, <2>1 DEF DropAcceptor
<1>6. ASSUME NEW id \in Ids, Worker(id) \/ PeerCloses(id) PROVE Told'
  <2>0. ASSUME wstate[id] # "closing", UNCHANGED <<conns, closing, handle, closerVars>>,
               \A i \in Ids \ {id} : inbox'[i] = inbox[i] /\ wstate'[i] = wstate[i],
               wstate'[id] = "closing" \/ inbox'[id] = inbox[id]
        PROVE  Told'
    BY <2>0
  <2>1. CASE Establish(id)
    BY <2>0, <2>1 DEF Establish
  <2>2. CASE SetupFails(id)
    BY <2>0, <2>2 DEF SetupFails
  <2>3. CASE ApplyClose(id)
    BY <2>0, <2>3 DEF ApplyClose
  <2>4. CASE Teardown(id)
    BY <2>0, <2>4 DEF Teardown
  <2>5. CASE Deregister(id)
    BY <2>5 DEF Deregister
  <2>6. CASE NotifyIdle(id)
    BY <2>0, <2>6 DEF NotifyIdle
  <2>7. CASE PeerCloses(id)
    BY <2>0, <2>7 DEF PeerCloses
  <2> QED BY <1>6, <2>1, <2>2, <2>3, <2>4, <2>5, <2>6, <2>7 DEF Worker
<1>7. ASSUME NEW id \in Ids, DropConnection(id) PROVE Told'
  BY <1>7 DEF DropConnection
<1>8. ASSUME NEW c \in Closers, CloseLock(c) PROVE Told'
  BY <1>8 DEF CloseLock, Recipients, Upgradable
<1>9. ASSUME NEW c \in Closers, NEW id \in Ids, CloseSend(c, id) PROVE Told'
  <2>2. id \in conns => inbox'[id] # <<>>
    BY <1>9 DEF CloseSend
  <2>1. \A i \in conns : i # id => inbox'[i] = inbox[i]
    BY <1>9 DEF CloseSend
  <2>3. \A i \in Ids, d \in Closers : i \in recipients[d] /\ i # id => i \in recipients'[d]
    BY <1>9 DEF CloseSend
  <2> QED BY <1>9, <2>1, <2>2, <2>3 DEF CloseSend
<1>10. ASSUME NEW c \in Closers, CloseWake(c) \/ CloseReturn(c) PROVE Told'
  <2>1. UNCHANGED <<conns, closing, handle, inbox, wstate, recipients>>
    BY <1>10 DEF CloseWake, CloseReturn
  <2>2. ASSUME NEW d \in Closers, NEW i \in recipients[d], cpc[d] \in {"wake", "send"}
        PROVE  cpc'[d] \in {"wake", "send"}
    BY <1>10, <2>2 DEF CloseWake, CloseReturn
  <2>3. SUFFICES ASSUME NEW i \in conns', closing', handle'[i]
                 PROVE  \/ inbox'[i] # <<>> \/ wstate'[i] = "closing"
                        \/ \E d \in Closers : i \in recipients'[d] /\ cpc'[d] \in {"wake", "send"}
    OBVIOUS
  <2>4. \/ inbox[i] # <<>> \/ wstate[i] = "closing"
        \/ \E d \in Closers : i \in recipients[d] /\ cpc[d] \in {"wake", "send"}
    BY <2>1, <2>3
  <2> QED BY <2>1, <2>2, <2>4
<1>11. ASSUME NEW w \in Waiters, Wait(w) PROVE Told'
  <2>1. UNCHANGED <<stateVars, workerVars, closerVars>>
    BY <1>11 DEF Wait, WaitArm, WaitCheck, WaitPark
  <2> QED BY <2>1
<1> QED
  BY <1>1, <1>2, <1>3, <1>4, <1>5, <1>6, <1>7, <1>8, <1>9, <1>10, <1>11
     DEF Next, Accept, Worker, Close

\* wait_idle enables its Notified before it reads live, so the notification
\* of the worker that makes live zero is not lost.
LEMMA StepIdleWake ==
  ASSUME TypeOK, NoLostIdleWake, [Next]_vars
  PROVE  NoLostIdleWake'
<1> USE DEF NoLostIdleWake, TypeOK, TypeState, TypeWorker, TypeCallers,
            stateVars, workerVars, closerVars, waiterVars
<1>1. CASE UNCHANGED vars
  BY <1>1 DEF vars
<1>2. ASSUME NEW a \in Acceptors,
             Accept(a) \/ ListenerEnds(a) \/ CancelAccept(a) \/ DropAcceptor(a)
      PROVE  NoLostIdleWake'
  BY <1>2 DEF Accept, CallAccept, AcceptCheck, AcceptPoll, AcceptWoken, AcceptHandshake,
              ListenerEnds, CancelAccept, DropAcceptor
<1>3. ASSUME NEW a \in Acceptors, AcceptIncoming(a) PROVE NoLostIdleWake'
  BY <1>3 DEF AcceptIncoming
<1>4. ASSUME NEW id \in Ids,
             \/ Establish(id) \/ SetupFails(id) \/ ApplyClose(id) \/ Teardown(id)
             \/ PeerCloses(id) \/ DropConnection(id)
      PROVE  NoLostIdleWake'
  BY <1>4 DEF Establish, SetupFails, ApplyClose, Teardown, PeerCloses, DropConnection
<1>5. ASSUME NEW id \in Ids, Deregister(id) PROVE NoLostIdleWake'
  BY <1>5 DEF Deregister
<1>6. ASSUME NEW id \in Ids, NotifyIdle(id) PROVE NoLostIdleWake'
  <2>1. \A w \in Waiters : ipc[w] \in {"await", "parked"} => woken'[w]
    BY <1>6 DEF NotifyIdle, WakesWaiter
  <2>2. UNCHANGED <<ipc, live>>
    BY <1>6 DEF NotifyIdle
  <2> QED BY <2>1, <2>2
<1>7. ASSUME NEW c \in Closers, CloseLock(c) \/ Close(c) PROVE NoLostIdleWake'
  BY <1>7 DEF CloseLock, Close, CloseWake, CloseSend, CloseReturn
<1>8. ASSUME NEW w \in Waiters, Wait(w) PROVE NoLostIdleWake'
  <2>1. CASE WaitArm(w)
    BY <2>1 DEF WaitArm
  <2>2. CASE WaitCheck(w)
    BY <2>2 DEF WaitCheck
  <2>3. CASE WaitPark(w)
    BY <2>3 DEF WaitPark
  <2> QED BY <1>8, <2>1, <2>2, <2>3 DEF Wait
<1> QED BY <1>1, <1>2, <1>3, <1>4, <1>5, <1>6, <1>7, <1>8 DEF Next, Worker

\* accept arms its Notified before it reads closing, so the notification of a
\* close() call after that read is not lost.
LEMMA StepAcceptWake ==
  ASSUME TypeOK, NoLostAcceptWake, [Next]_vars
  PROVE  NoLostAcceptWake'
<1> USE DEF NoLostAcceptWake, TypeOK, TypeState, TypeAcceptor, TypeCallers,
            stateVars, acceptorVars, workerVars, closerVars, Arm, Leave
<1>1. CASE UNCHANGED vars
  BY <1>1 DEF vars
<1>2. ASSUME NEW a \in Acceptors, Accept(a) PROVE NoLostAcceptWake'
  <2>1. CASE CallAccept(a)
    BY <2>1 DEF CallAccept
  <2>2. CASE AcceptCheck(a)
    BY <2>2 DEF AcceptCheck
  <2>3. CASE AcceptPoll(a)
    BY <2>3 DEF AcceptPoll
  <2>4. CASE AcceptWoken(a)
    BY <2>4 DEF AcceptWoken
  <2>5. ASSUME NEW id \in Ids, AcceptHandshake(a, id) PROVE NoLostAcceptWake'
    BY <2>5 DEF AcceptHandshake
  <2> QED BY <1>2, <2>1, <2>2, <2>3, <2>4, <2>5 DEF Accept
<1>3. ASSUME NEW a \in Acceptors,
             AcceptIncoming(a) \/ ListenerEnds(a) \/ CancelAccept(a) \/ DropAcceptor(a)
      PROVE  NoLostAcceptWake'
  <2>1. CASE AcceptIncoming(a)
    BY <2>1 DEF AcceptIncoming
  <2>2. CASE ListenerEnds(a)
    BY <2>2 DEF ListenerEnds
  <2>3. CASE CancelAccept(a)
    BY <2>3 DEF CancelAccept
  <2>4. CASE DropAcceptor(a)
    BY <2>4 DEF DropAcceptor
  <2> QED BY <1>3, <2>1, <2>2, <2>3, <2>4
<1>4. ASSUME NEW id \in Ids, Worker(id) \/ PeerCloses(id) \/ DropConnection(id)
      PROVE  NoLostAcceptWake'
  BY <1>4 DEF Worker, Establish, SetupFails, ApplyClose, Teardown, Deregister, NotifyIdle,
              PeerCloses, DropConnection
<1>5. ASSUME NEW c \in Closers, CloseLock(c) PROVE NoLostAcceptWake'
  BY <1>5 DEF CloseLock
<1>6. ASSUME NEW c \in Closers, CloseWake(c) PROVE NoLostAcceptWake'
  BY <1>6 DEF CloseWake, WakesAccept
<1>7. ASSUME NEW c \in Closers, CloseReturn(c) \/ \E id \in Ids : CloseSend(c, id)
      PROVE  NoLostAcceptWake'
  BY <1>7 DEF CloseReturn, CloseSend
<1>8. ASSUME NEW w \in Waiters, Wait(w) PROVE NoLostAcceptWake'
  BY <1>8 DEF Wait, WaitArm, WaitCheck, WaitPark
<1> QED BY <1>1, <1>2, <1>3, <1>4, <1>5, <1>6, <1>7, <1>8 DEF Next, Close

-----------------------------------------------------------------------------
(* The theorems. *)

\* The invariant is inductive.
LEMMA StepInvariant == IInv /\ [Next]_vars => IInv'
<1> SUFFICES ASSUME IInv, [Next]_vars PROVE IInv'
  OBVIOUS
<1>1. TypeOK'
  BY StepTypes DEF IInv
<1> QED BY <1>1, StepCounts, StepDrained, StepFrames, StepTold, StepIdleWake, StepAcceptWake DEF IInv

\* The inductive invariant holds throughout.
THEOREM Invariant == Spec => []IInv
BY InitInvariant, StepInvariant, PTL DEF Spec

\* The variables keep their types: `live` never goes below zero.
THEOREM TypeCorrect == Spec => []TypeOK
<1>1. IInv => TypeOK
  BY DEF IInv
<1> QED BY <1>1, Invariant, PTL

\* The registry is the set of running workers and `live` is its size, whatever
\* registrations, worker exits and closes interleave.
THEOREM LiveCounts == Spec => []LiveCountsWorkers
<1>1. IInv => LiveCountsWorkers
  BY DEF IInv
<1> QED BY <1>1, Invariant, PTL

\* wait_idle() that returns after close() is final: no worker runs any more.
THEOREM DrainedFinal == Spec => []DrainedIsFinal
<1>1. IInv => DrainedIsFinal
  <2> SUFFICES ASSUME IInv, NEW w \in Waiters, ipc[w] = "drained",
                      NEW i \in Ids, wstate[i] \in Running
               PROVE  FALSE
    BY DEF DrainedIsFinal
  <2>1. live = 0
    BY DEF IInv, Drained
  <2>2. i \in conns /\ live = Cardinality(conns) /\ conns \in SUBSET Ids
    BY DEF IInv, LiveCountsWorkers, TypeOK, TypeState
  <2> QED BY <2>1, <2>2, RegistryFinite, FS_EmptySet
<1> QED BY <1>1, Invariant, PTL

\* No worker closes with a frame other than that of the first close().
THEOREM FirstFrame == Spec => []FirstFrameWins
<1>1. IInv => FirstFrameWins
  BY DEF IInv
<1> QED BY <1>1, Invariant, PTL

\* The admission fence: once close() has taken the lock, no worker is added.
THEOREM Fence == Spec => NoAdmissionAfterClose
<1>1. IInv /\ [Next]_vars => [closing => conns' \subseteq conns]_vars
  <2> SUFFICES ASSUME IInv, [Next]_vars, closing PROVE conns' \subseteq conns
    OBVIOUS
  <2>1. ~Registers
    BY DEF Registers
  <2> QED BY <2>1, RegistrySteps DEF IInv, RegistryKept, Deregisters
<1> QED BY <1>1, Invariant, PTL DEF Spec, NoAdmissionAfterClose

\* When no close() call is under way, every registered worker whose handles
\* are still there has its frame or is closing: the broadcast, which goes on
\* outside the lock, misses nobody.
THEOREM BroadcastIsComplete == Spec => []CloseReachesWorkers
<1>1. IInv => CloseReachesWorkers
  BY DEF IInv, Told, CloseReachesWorkers
<1> QED BY <1>1, Invariant, PTL

\* No wakeup is lost between wait_idle's check and its await, nor between
\* accept's check and its select.
THEOREM WakeupsAreNeverLost == Spec => [](NoLostIdleWake /\ NoLostAcceptWake)
<1>1. IInv => NoLostIdleWake /\ NoLostAcceptWake
  BY DEF IInv
<1> QED BY <1>1, Invariant, PTL

\* Once close() has taken the lock, accept() yields no connection.
THEOREM NoLateYield == Spec => NoYieldAfterClose
<1>1. [Next]_vars => [closing => yielded' = yielded]_vars
  <2> SUFFICES ASSUME Next, closing PROVE yielded' = yielded
    OBVIOUS
  <2> USE DEF acceptorVars
  <2>1. ASSUME NEW a \in Acceptors, NEW id \in Ids, AcceptHandshake(a, id)
        PROVE  yielded' = yielded
    BY <2>1 DEF AcceptHandshake, MayYield
  <2>2. ASSUME NEW a \in Acceptors,
               \/ CallAccept(a) \/ AcceptCheck(a) \/ AcceptPoll(a) \/ AcceptWoken(a)
               \/ AcceptIncoming(a) \/ ListenerEnds(a) \/ CancelAccept(a) \/ DropAcceptor(a)
        PROVE  yielded' = yielded
    BY <2>2 DEF CallAccept, AcceptCheck, AcceptPoll, AcceptWoken, AcceptIncoming,
                ListenerEnds, CancelAccept, DropAcceptor
  <2>3. ASSUME NEW id \in Ids, Worker(id) \/ PeerCloses(id) \/ DropConnection(id)
        PROVE  yielded' = yielded
    BY <2>3 DEF Worker, Establish, SetupFails, ApplyClose, Teardown, Deregister, NotifyIdle,
                PeerCloses, DropConnection
  <2>4. ASSUME NEW c \in Closers, CloseLock(c) \/ Close(c) PROVE yielded' = yielded
    BY <2>4 DEF CloseLock, Close, CloseWake, CloseSend, CloseReturn
  <2>5. ASSUME NEW w \in Waiters, Wait(w) PROVE yielded' = yielded
    BY <2>5 DEF Wait, WaitArm, WaitCheck, WaitPark
  <2> QED BY <2>1, <2>2, <2>3, <2>4, <2>5 DEF Next, Accept
<1> QED BY <1>1, PTL DEF Spec, NoYieldAfterClose
=============================================================================
