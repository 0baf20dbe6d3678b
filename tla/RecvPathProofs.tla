--------------------------- MODULE RecvPathProofs ---------------------------
(***************************************************************************)
(* The receive path, for every set of streams, every channel depth and     *)
(* every budget.                                                           *)
(*                                                                         *)
(* Delivery: NothingLost needs to know when no byte can follow any more.   *)
(* That is Closed(s), which no step undoes, and Told relates the cell, the *)
(* registry and the poller to it.  The same invariant carries the          *)
(* refinement of ByteStream.                                               *)
(*                                                                         *)
(* Parking, under either memory order: a stream is left to the application *)
(* only with `blocked` set or in the store buffer (Parked), and behind a   *)
(* full channel if the second look has not overtaken that store.  Between  *)
(* the store and the look the pop may come first: Offered follows the flag *)
(* from there to the command, Requested says that a set `resume` stands    *)
(* for a resume that is under way, or whose clear is in the buffer.        *)
(***************************************************************************)
EXTENDS RecvPath, SequenceTheorems, TLAPS

Busy == wpc \in {"drain", "recheck", "read", "fin", "seal"}

\* The drain at hand: it has an entry, a chunk to spend, and a reason to end.
Loop ==
  /\ Busy => cur \in recv
  /\ wpc \in {"recheck", "read"} => chunks > 0 /\ read_budget > 0
  /\ wpc = "fin" => \/ qend[cur] = "reset"
                    \/ qend[cur] = "fin" /\ qnext[cur] = qsent[cur] + 1
  /\ wpc = "seal" => terminal[cur] # "none"
  /\ wpc = "close" => qconn = "closing"
  /\ wpc = "exited" => recv = {}

\* No byte of s can enter its channel any more.
Closed(s) == s \notin recv \/ (wpc = "seal" /\ cur = s) \/ wpc = "close"

\* d was delivered and c waits, out of the chunks below n.
Flow(d, c, n) ==
  /\ Len(d) + Len(c) = n - 1
  /\ \A i \in 1..Len(d) : d[i] = i
  /\ \A i \in 1..Len(c) : c[i] = Len(d) + i

\* The application has stopped this stream or is dropping its handle.
Left(s) == stop_sent[s] \/ dropped[s] \/ cpc[s] = "dropping"

\* The end that is published or was told is the one quiche reported.
Ended(s, e) ==
  /\ e = "fin" => qend[s] = "fin" /\ qnext[s] = qsent[s] + 1
  /\ e = "reset" => qend[s] = "reset"
  /\ e = "conn" => qconn # "open"

Told(s) ==
  /\ qnext[s] <= qsent[s] + 1
  /\ ~dropped[s] => Flow(delivered[s], chan[s], qnext[s])
  /\ terminal[s] # "none" => Closed(s) /\ Ended(s, terminal[s])
  /\ cpc[s] = "closed" => s \notin recv /\ chan[s] = <<>>
  /\ cpc[s] = "recheck" => terminal[s] # "none"
  /\ seen[s] # "none" =>
       /\ chan[s] = <<>> /\ Closed(s) /\ Ended(s, seen[s])
       /\ cpc[s] \in {"idle", "dropping"}
       /\ Len(delivered[s]) = qnext[s] - 1
  /\ seen[s] = "internal" => stop_sent[s]
  /\ dropped[s] => cpc[s] = "idle"
  /\ s \notin recv => terminal[s] # "none" \/ Left(s)
  /\ StopSending(s) \in Elems(cmd) => Left(s)

IInv == TypeOK /\ Loop /\ \A s \in Streams : Told(s)

\* The cursors hold an id at most once, as readable_set and resume_set say.
Once(q) == \A i, j \in DOMAIN q : q[i] = q[j] => i = j
ExactOnce == Once(pending_readable) /\ Once(pending_resume)

-----------------------------------------------------------------------------
(* Parking *)

\* The second look at the channel finds it full while the store of `blocked`,
\* or one before it, is not visible yet: the load has overtaken the store.
Overtakes == wpc = "recheck" /\ ~Visible /\ wpc' \in {"resumed", "phase1"}

\* The stores of a drain, oldest first: drain_resumed clears both flags, a full
\* channel sets `blocked`, a slot found free at the second look clears it.
Unset(s) == <<"resume", s, FALSE>>
Unblock(s) == <<"blocked", s, FALSE>>
Block(s) == <<"blocked", s, TRUE>>
ClearBoth(s) == <<Unset(s), Unblock(s)>>
ClearFlag(s) == <<Unblock(s)>>
ClearBothSet(s) == <<Unset(s), Unblock(s), Block(s)>>
ClearFlagSet(s) == <<Unblock(s), Block(s)>>
SetFlag(s) == <<Block(s)>>

\* The clear of `resume` is in the store buffer; the set of `blocked` is.
Clears(q, s) == q \in {ClearBoth(s), ClearBothSet(s)}
Promises(q, s) ==
  q \in {ClearBothSet(s), ClearFlagSet(s), SetFlag(s)}
Clearing(s) == Clears(storebuf, s)
Promised(s) == Promises(storebuf, s)

\* What is in the store buffer at each point of a drain.  Only an order that is
\* not "kept" takes the set of `blocked` beyond the second look.
Buffered(o) ==
  \/ storebuf = <<>>
  \/ wpc = "drain" /\ storebuf \in {ClearBoth(cur), ClearFlag(cur)}
  \/ wpc = "recheck" /\ Promised(cur)
  \/ wpc = "read" /\ storebuf = ClearFlag(cur)
  \/ o # "kept" /\ wpc \in {"resumed", "phase1"} /\ \E s \in Streams : Promised(s)

Fits ==
  /\ \A s \in Streams : Len(chan[s]) <= Depth
  /\ wpc = "read" => Len(chan[cur]) < Depth

\* A resume of s is on its way, a stop is, or it is in the readable cursor.
Resuming(s) == RecvResume(s) \in Elems(cmd) \/ s \in Elems(pending_resume)
Stopping(s) == StopSending(s) \in Elems(cmd)
InReadable(s) == s \in Elems(pending_readable)

\* A set resume bit stands for a resume that has not been served.
Requested(s) ==
  resume[s] /\ s \in recv /\ qconn = "open" =>
    cpc[s] = "send" \/ Resuming(s) \/ Clearing(s)

\* Between the store of blocked and the second look at the channel.
Offered ==
  wpc = "recheck" /\ Visible /\ qconn = "open" /\ ~dropped[cur] =>
    \/ blocked[cur] \/ cpc[cur] \in {"resume", "send", "dropping"}
    \/ Resuming(cur) \/ Stopping(cur)

\* Nobody will come back to s by himself: `blocked` is set or about to be, or
\* its reader is on the way.  With the order kept, the channel is full.
Parked(o, s) ==
  Forgotten(s) =>
    \/ /\ blocked[s] \/ Promised(s)
       /\ o = "kept" => Len(chan[s]) = Depth \/ cpc[s] = "swap"
    \/ cpc[s] \in {"resume", "send", "dropping"}

ParkInv(o) ==
  /\ Buffered(o) /\ Fits /\ Offered
  /\ \A s \in Streams : Requested(s) /\ Parked(o, s)

\* drain_stream's flag is never lost, whatever the memory order: a stream that
\* nobody will come back to by himself has `blocked` set or in the worker's
\* store buffer, so that the next pop resumes it, or its reader is already past
\* the swap of the flag, on the way to send the resume.
ParkIsFlagged ==
  \A s \in Streams :
    Forgotten(s) =>
      blocked[s] \/ Promised(s) \/ cpc[s] \in {"resume", "send", "dropping"}

-----------------------------------------------------------------------------
(* Sequences *)

\* What a queue holds after a push, a pop and a push of something new.
LEMMA ElemsAppend ==
  ASSUME NEW S, NEW q \in Seq(S), NEW x \in S
  PROVE  Append(q, x) \in Seq(S) /\ Elems(Append(q, x)) = Elems(q) \cup {x}
<1>1. /\ Append(q, x) \in Seq(S) /\ DOMAIN Append(q, x) = 1..Len(q) + 1
      /\ DOMAIN q = 1..Len(q) /\ Len(q) \in Nat
  OBVIOUS
<1>2. Append(q, x)[Len(q) + 1] = x /\ \A i \in 1..Len(q) : Append(q, x)[i] = q[i]
  OBVIOUS
<1>3. \A i \in 1..Len(q) + 1 : i \in 1..Len(q) \/ i = Len(q) + 1
  BY <1>1
<1>4. Len(q) + 1 \in 1..Len(q) + 1 /\ \A i \in 1..Len(q) : i \in 1..Len(q) + 1
  BY <1>1
<1> QED BY <1>1, <1>2, <1>3, <1>4 DEF Elems

\* A pop takes the head and leaves the rest.
LEMMA ElemsTail ==
  ASSUME NEW S, NEW q \in Seq(S), q # <<>>
  PROVE  /\ Head(q) \in S /\ Tail(q) \in Seq(S) /\ Len(Tail(q)) = Len(q) - 1
         /\ Elems(q) = Elems(Tail(q)) \cup {Head(q)}
<1>1. Tail(q) \in Seq(S) /\ Len(Tail(q)) = Len(q) - 1 /\ Len(q) \in Nat \ {0} /\ Head(q) = q[1]
  OBVIOUS
<1>2. \A i \in 1..Len(q) - 1 : Tail(q)[i] = q[i + 1]
  OBVIOUS
<1>3. ASSUME NEW i \in DOMAIN q PROVE q[i] \in Elems(Tail(q)) \cup {Head(q)}
  <2>1. CASE i = 1
    BY <1>1, <2>1
  <2>2. CASE i # 1
    <3>1. i - 1 \in 1..Len(Tail(q)) /\ Tail(q)[i - 1] = q[i]
      BY <1>1, <1>2, <2>2
    <3> QED BY <1>1, <3>1 DEF Elems
  <2> QED BY <2>1, <2>2
<1>4. ASSUME NEW i \in DOMAIN Tail(q) PROVE Tail(q)[i] \in Elems(q)
  BY <1>1, <1>2 DEF Elems
<1>5. Head(q) \in Elems(q) /\ Head(q) \in S
  BY <1>1 DEF Elems
<1> QED BY <1>1, <1>3, <1>4, <1>5 DEF Elems

\* requeue_readable and enqueue_resume add the id, if it was not there.
LEMMA ElemsEnqueue ==
  ASSUME NEW S, NEW q \in Seq(S), NEW x \in S
  PROVE  Enqueue(q, x) \in Seq(S) /\ Elems(Enqueue(q, x)) = Elems(q) \cup {x}
BY ElemsAppend DEF Enqueue

\* Taking s out keeps everything else, and its first place closes up.
LEMMA WithoutShape ==
  ASSUME NEW S, NEW q \in Seq(S), NEW s \in Elems(q)
  PROVE  /\ Without(q, s) \in Seq(S)
         /\ \E k \in DOMAIN q :
              /\ q[k] = s /\ Len(Without(q, s)) = Len(q) - 1
              /\ \A i \in 1..Len(q) - 1 :
                   Without(q, s)[i] = IF i < k THEN q[i] ELSE q[i + 1]
<1> DEFINE k == CHOOSE k \in DOMAIN q : q[k] = s
           a == SubSeq(q, 1, k - 1)
           b == SubSeq(q, k + 1, Len(q))
<1>1. k \in DOMAIN q /\ q[k] = s /\ Len(q) \in Nat
  BY DEF Elems
<1>2. Without(q, s) = a \o b
  BY DEF Without
<1> HIDE DEF k
<1>3. a \in Seq(S) /\ Len(a) = k - 1 /\ \A i \in 1..k - 1 : a[i] = q[i]
  <2>1. k \in 1..Len(q) /\ \A i \in 1..Len(q) : q[i] \in S
    BY <1>1
  <2> QED BY <2>1, SubSeqProperties
<1>4. b \in Seq(S) /\ Len(b) = Len(q) - k /\ \A i \in 1..Len(q) - k : b[i] = q[i + k]
  <2>1. k \in 1..Len(q) /\ \A i \in 1..Len(q) : q[i] \in S
    BY <1>1
  <2> QED BY <2>1, SubSeqProperties
<1> HIDE DEF a, b
<1>5. /\ a \o b \in Seq(S) /\ Len(a \o b) = Len(q) - 1
      /\ \A i \in 1..Len(q) - 1 : (a \o b)[i] = IF i < k THEN q[i] ELSE q[i + 1]
  <2>1. a \o b \in Seq(S) /\ Len(a \o b) = Len(q) - 1
    BY <1>1, <1>3, <1>4
  <2>2. ASSUME NEW i \in 1..Len(q) - 1, i < k PROVE (a \o b)[i] = q[i]
    BY <1>1, <1>3, <1>4, <2>2
  <2>3. ASSUME NEW i \in 1..Len(q) - 1, ~(i < k) PROVE (a \o b)[i] = q[i + 1]
    <3>0. k \in 1..Len(q)
      BY <1>1
    <3>1. k \in 1..Len(q) /\ i - (k - 1) \in 1..Len(q) - k /\ i \in Len(a) + 1..Len(a) + Len(b)
      <4>1. \A l, j, m \in Nat : j \in 1..l /\ m \in 1..l - 1 /\ ~(m < j) =>
              m - (j - 1) \in 1..l - j /\ m \in (j - 1) + 1..(j - 1) + (l - j)
        OBVIOUS
      <4>2. Len(q) \in Nat /\ k \in Nat /\ i \in Nat
        BY <1>1, <3>0
      <4> QED BY <1>3, <1>4, <2>3, <3>0, <4>1, <4>2
    <3>2. (a \o b)[i] = b[i - Len(a)]
      <4>1. \A j \in 1..Len(a) + Len(b) : (a \o b)[j] = IF j <= Len(a) THEN a[j] ELSE b[j - Len(a)]
        BY <1>3, <1>4, ConcatProperties
      <4>2. Len(a) \in Nat /\ Len(b) \in Nat
        BY <1>3, <1>4
      <4>3. i \in 1..Len(a) + Len(b) /\ ~(i <= Len(a))
        BY <3>1, <4>2
      <4> QED BY <4>1, <4>3
    <3>3. b[i - (k - 1)] = q[(i - (k - 1)) + k]
      BY <1>4, <3>1
    <3>4. (i - (k - 1)) + k = i + 1 /\ i - Len(a) = i - (k - 1)
      BY <3>1, <1>3
    <3> QED BY <3>2, <3>3, <3>4
  <2> QED BY <2>1, <2>2, <2>3
<1> QED BY <1>1, <1>2, <1>5

\* drop_recv_memberships loses no other id.
LEMMA ElemsWithout ==
  ASSUME NEW S, NEW q \in Seq(S), NEW s \in S
  PROVE  /\ Without(q, s) \in Seq(S)
         /\ \A t \in Elems(q) : t # s => t \in Elems(Without(q, s))
<1>1. CASE s \notin Elems(q)
  BY <1>1 DEF Without
<1>2. CASE s \in Elems(q)
  <2> DEFINE w == Without(q, s)
  <2>1. PICK k \in DOMAIN q :
          /\ q[k] = s /\ Len(w) = Len(q) - 1
          /\ \A i \in 1..Len(q) - 1 : w[i] = IF i < k THEN q[i] ELSE q[i + 1]
    BY <1>2, WithoutShape
  <2>2. w \in Seq(S)
    BY <1>2, WithoutShape
  <2> HIDE DEF w
  <2>3. ASSUME NEW i \in DOMAIN q, q[i] # s PROVE q[i] \in Elems(w)
    <3>1. i \in 1..Len(q) /\ k \in 1..Len(q) /\ i # k /\ DOMAIN w = 1..Len(q) - 1
      BY <2>1, <2>2, <2>3
    <3>2. CASE i < k
      <4>1. i \in 1..Len(q) - 1 /\ w[i] = q[i]
        BY <2>1, <3>1, <3>2
      <4> QED BY <3>1, <4>1 DEF Elems
    <3>3. CASE i > k
      <4>1. i - 1 \in 1..Len(q) - 1 /\ ~(i - 1 < k) /\ (i - 1) + 1 = i
        BY <3>1, <3>3
      <4>2. w[i - 1] = q[i]
        BY <2>1, <4>1
      <4> QED BY <3>1, <4>1, <4>2 DEF Elems
    <3> QED BY <3>1, <3>2, <3>3
  <2> QED BY <2>2, <2>3 DEF Elems, w
<1> QED BY <1>1, <1>2

-----------------------------------------------------------------------------
(* Types *)

TypeQuiche ==
  /\ qsent \in [Streams -> 0..MaxChunks] /\ qnext \in [Streams -> 1..MaxChunks + 1]
  /\ qend \in [Streams -> {"none", "fin", "reset"}]
  /\ qarmed \in [Streams -> BOOLEAN] /\ qshut \in [Streams -> BOOLEAN]
  /\ qconn \in {"open", "closing", "closed"} /\ received \in BOOLEAN

TypeQueues == pending_readable \in Seq(Streams) /\ pending_resume \in Seq(Streams)

TypeLoop ==
  /\ recv \subseteq Streams
  /\ needs_iteration \in BOOLEAN /\ read_budget \in 0..READ_BUDGET
  /\ wpc \in {"wait", "apply", "intake", "resumed", "phase1", "finish", "drain",
              "recheck", "read", "fin", "seal", "close", "exited"}
  /\ packet \in BOOLEAN /\ left \in Nat /\ cur \in Streams \cup {NoStream}
  /\ chunks \in 0..CHUNK_BUDGET /\ ret \in {"resumed", "phase1"}

TypeCells ==
  /\ chan \in [Streams -> Seq(Chunk)] /\ terminal \in [Streams -> Ends]
  /\ blocked \in [Streams -> BOOLEAN] /\ resume \in [Streams -> BOOLEAN]

TypeMail ==
  /\ cmd \in Seq(Commands)
  /\ storebuf \in Seq({"blocked", "resume"} \X Streams \X BOOLEAN)

TypeFront ==
  /\ cpc \in [Streams -> {"idle", "poll", "swap", "resume", "send", "open",
                          "closed", "recheck", "parked", "dropping"}]
  /\ waker \in [Streams -> SUBSET {"chan", "term"}] /\ woken \in [Streams -> BOOLEAN]
  /\ delivered \in [Streams -> Seq(Chunk)]
  /\ seen \in [Streams -> Ends \cup {"internal"}]
  /\ stop_sent \in [Streams -> BOOLEAN] /\ dropped \in [Streams -> BOOLEAN]

Types == TypeQuiche /\ TypeQueues /\ TypeLoop /\ TypeCells /\ TypeMail /\ TypeFront

\* The type invariant, in the parts the steps disturb one at a time.
LEMMA TypeParts == TypeOK <=> Types
BY DEF TypeOK, Types, TypeQuiche, TypeQueues, TypeLoop, TypeCells, TypeMail, TypeFront

\* The same after a step.
LEMMA TypePartsPrime == TypeOK' <=> Types'
BY DEF TypeOK, Types, TypeQuiche, TypeQueues, TypeLoop, TypeCells, TypeMail, TypeFront

\* mark_recv_done keeps the cursors sequences of streams.
LEMMA DoneTypes ==
  ASSUME TypeQueues, recv \subseteq Streams, NEW s \in Streams, mark_recv_done(s)
  PROVE  /\ TypeQueues' /\ recv' = recv \ {s}
         /\ \A t \in Elems(pending_resume) : t # s => t \in Elems(pending_resume')
         /\ \A t \in Elems(pending_readable) : t # s => t \in Elems(pending_readable')
<1>1. /\ pending_readable' \in Seq(Streams)
      /\ \A t \in Elems(pending_readable) : t # s => t \in Elems(pending_readable')
  BY ElemsWithout DEF mark_recv_done, TypeQueues
<1>2. /\ pending_resume' \in Seq(Streams)
      /\ \A t \in Elems(pending_resume) : t # s => t \in Elems(pending_resume')
  BY ElemsWithout DEF mark_recv_done, TypeQueues
<1> QED BY <1>1, <1>2 DEF mark_recv_done, TypeQueues

\* A wake changes the two wake variables and keeps their types.
LEMMA WakeTypes ==
  ASSUME waker \in [Streams -> SUBSET {"chan", "term"}], woken \in [Streams -> BOOLEAN],
         NEW s \in Streams, NEW source, Wake(s, source)
  PROVE  waker' \in [Streams -> SUBSET {"chan", "term"}] /\ woken' \in [Streams -> BOOLEAN]
<1>1. waker' \in [Streams -> SUBSET {"chan", "term"}]
  BY DEF Wake
<1>2. woken' = [woken EXCEPT ![s] = woken[s] \/ source \in waker[s]]
  BY DEF Wake
<1>3. (woken[s] \/ source \in waker[s]) \in BOOLEAN
  BY Zenon
<1> QED BY <1>1, <1>2, <1>3, Zenon

-----------------------------------------------------------------------------
(* The steps, taken apart: one operator for each effect a step can have on   *)
(* the shared state.  What only the next iteration looks at (Books) is       *)
(* reduced to its type.                                                      *)

Books ==
  /\ needs_iteration' \in BOOLEAN /\ read_budget' \in 0..READ_BUDGET
  /\ packet' \in BOOLEAN /\ left' \in Nat

Stages == {"wait", "apply", "intake", "resumed", "phase1", "finish"}

\* What the bookkeeping of the worker leaves alone.
quiet == <<qsent, qnext, qend, qshut, recv, chan, terminal, frontVars>>
flags == <<blocked, resume, storebuf>>

\* From one stage of an iteration to another one.
Advance ==
  /\ wpc \in Stages /\ Visible /\ wpc' \in Stages \cup {"close"}
  /\ wpc' = "close" => qconn = "closing"
  /\ Books /\ received' \in BOOLEAN
  /\ UNCHANGED <<quiet, qarmed, qconn, queueVars, cur, chunks, ret, cmd, flags>>

ApplyResume(s) ==
  /\ wpc = "apply" /\ Visible /\ wpc' = "apply" /\ Books
  /\ cmd # <<>> /\ Head(cmd) = RecvResume(s) /\ cmd' = Tail(cmd)
  /\ pending_resume' = Enqueue(pending_resume, s)
  /\ UNCHANGED <<quiet, qarmed, received, qconn, pending_readable, cur, chunks, ret, flags>>

ApplyStop(s) ==
  /\ wpc = "apply" /\ Visible /\ wpc' = "apply" /\ Books
  /\ cmd # <<>> /\ Head(cmd) = StopSending(s) /\ cmd' = Tail(cmd)
  /\ Shutdown(s) /\ mark_recv_done(s) /\ Wake(s, "chan")
  /\ UNCHANGED <<cur, chunks, ret, chan, terminal, flags, cpc, delivered, seen,
                 stop_sent, dropped>>

IntakeOne(s) ==
  /\ wpc = "intake" /\ Visible /\ wpc' = "intake" /\ Books
  /\ qarmed[s] /\ qarmed' = [qarmed EXCEPT ![s] = FALSE]
  /\ pending_readable' = IF s \in recv THEN Enqueue(pending_readable, s)
                                       ELSE pending_readable
  /\ UNCHANGED <<quiet, received, qconn, pending_resume, cur, chunks, ret, cmd, flags>>

\* The next id of a cursor, with or without an entry.
PopResume(s) ==
  /\ wpc = "resumed" /\ Visible /\ Books
  /\ pending_resume # <<>> /\ s = Head(pending_resume)
  /\ pending_resume' = Tail(pending_resume)
  /\ \/ /\ s \in recv
        /\ storebuf' = <<<<"resume", s, FALSE>>, <<"blocked", s, FALSE>>>>
        /\ wpc' = "drain" /\ cur' = s /\ chunks' = CHUNK_BUDGET /\ ret' = "resumed"
     \/ s \notin recv /\ UNCHANGED <<storebuf, wpc, cur, chunks, ret>>
  /\ UNCHANGED <<quiet, qarmed, received, qconn, pending_readable, cmd, blocked, resume>>

PopReadable(s) ==
  /\ wpc = "phase1" /\ Visible /\ Books
  /\ pending_readable # <<>> /\ s = Head(pending_readable)
  /\ pending_readable' = Tail(pending_readable)
  /\ \/ /\ s \in recv
        /\ wpc' = "drain" /\ cur' = s /\ chunks' = CHUNK_BUDGET /\ ret' = "phase1"
     \/ s \notin recv /\ UNCHANGED <<wpc, cur, chunks, ret>>
  /\ UNCHANGED <<quiet, qarmed, received, qconn, pending_resume, cmd, flags>>

\* A drain goes on: to the read, to the second look, or to the end.
Room ==
  /\ wpc \in {"drain", "recheck"} /\ Visible /\ wpc' = "read"
  /\ Len(chan[cur]) < Depth /\ chunks > 0 /\ read_budget > 0
  /\ storebuf' \in {<<>>, <<<<"blocked", cur, FALSE>>>>}
  /\ UNCHANGED <<quiet, qarmed, received, qconn, queueVars, needs_iteration, read_budget,
                 packet, left, cur, chunks, ret, cmd, blocked, resume>>

Full ==
  /\ wpc = "drain" /\ LoadAllowed /\ wpc' = "recheck"
  /\ chunks > 0 /\ read_budget > 0
  /\ storebuf' = Append(storebuf, <<"blocked", cur, TRUE>>)
  /\ UNCHANGED <<quiet, qarmed, received, qconn, queueVars, needs_iteration, read_budget,
                 packet, left, cur, chunks, ret, cmd, blocked, resume>>

ReachEnd ==
  /\ wpc = "read" /\ Visible /\ wpc' = "fin"
  /\ qend[cur] = "reset" \/ (qend[cur] = "fin" /\ qnext[cur] > qsent[cur])
  /\ UNCHANGED <<quiet, qarmed, received, qconn, queueVars, needs_iteration, read_budget,
                 packet, left, cur, chunks, ret, cmd, flags>>

\* A drain returns with the entry kept: parked, out of budget, nothing to read,
\* or a connection that is closing.
Leave ==
  /\ wpc \in {"drain", "recheck", "read"} /\ Return /\ Books
  /\ \/ /\ wpc = "recheck" /\ LoadAllowed /\ ~dropped[cur] /\ Len(chan[cur]) >= Depth
        /\ UNCHANGED queueVars
     \/ /\ wpc = "drain" /\ Visible
        /\ pending_readable' = Enqueue(pending_readable, cur) /\ UNCHANGED pending_resume
     \/ /\ wpc \in {"drain", "read"} /\ Visible /\ ~stream_readable(cur)
        /\ UNCHANGED queueVars
     \/ /\ wpc = "read" /\ Visible /\ qconn = "closing"
        /\ pending_readable' = Without(pending_readable, cur)
        /\ pending_resume' = Without(pending_resume, cur)
  /\ UNCHANGED <<quiet, qarmed, received, qconn, cmd, flags>>

\* drain_stream finds the Receiver gone.
Abandon ==
  /\ wpc \in {"drain", "recheck"} /\ Visible /\ AbandonRecv

\* A chunk goes out, and the drain goes on, is at the end, or returns.
Push ==
  /\ wpc = "read" /\ Visible /\ qnext[cur] <= qsent[cur] /\ Books
  /\ PermitSend(cur, qnext[cur]) /\ Wake(cur, "chan")
  /\ qnext' = [qnext EXCEPT ![cur] = qnext[cur] + 1]
  /\ \/ wpc' = "drain" /\ chunks' \in 0..CHUNK_BUDGET /\ UNCHANGED <<cur, ret>>
     \/ /\ qnext[cur] = qsent[cur] /\ qend[cur] = "fin"
        /\ wpc' = "fin" /\ UNCHANGED <<chunks, cur, ret>>
     \/ /\ qnext[cur] = qsent[cur] /\ qend[cur] = "none" /\ Return
  /\ UNCHANGED <<qsent, qend, qarmed, qshut, received, qconn, recv, queueVars,
                 terminal, flags, cmd, cpc, delivered, seen, stop_sent, dropped>>

FlushBlocked(s, v) ==
  /\ storebuf # <<>> /\ Head(storebuf) = <<"blocked", s, v>> /\ storebuf' = Tail(storebuf)
  /\ blocked' = [blocked EXCEPT ![s] = v]
  /\ UNCHANGED <<quicheVars, workerVars, chan, terminal, resume, cmd, frontVars>>

FlushResume(s, v) ==
  /\ storebuf # <<>> /\ Head(storebuf) = <<"resume", s, v>> /\ storebuf' = Tail(storebuf)
  /\ resume' = [resume EXCEPT ![s] = v]
  /\ UNCHANGED <<quicheVars, workerVars, chan, terminal, blocked, cmd, frontVars>>

FrameChunk(s) ==
  /\ wpc = "wait" /\ Visible /\ qend[s] = "none" /\ qsent[s] < MaxChunks
  /\ qsent' = [qsent EXCEPT ![s] = qsent[s] + 1]
  /\ qarmed' = [qarmed EXCEPT ![s] = ~qshut[s]] /\ received' = TRUE
  /\ UNCHANGED <<qend, qnext, qshut, qconn, workerVars, sharedVars, frontVars>>

FrameEnd(s, e) ==
  /\ wpc = "wait" /\ Visible /\ qend[s] = "none"
  /\ qend' = [qend EXCEPT ![s] = e]
  /\ qarmed' = [qarmed EXCEPT ![s] = ~qshut[s]] /\ received' = TRUE
  /\ UNCHANGED <<qsent, qnext, qshut, qconn, workerVars, sharedVars, frontVars>>

\* poll_data takes a chunk, resolves, or moves on without either.
Take(s) ==
  /\ cpc[s] \in {"poll", "recheck"} /\ TakeChunk(s)
  /\ UNCHANGED <<quicheVars, workerVars, terminal, flags, cmd, woken, stop_sent, dropped>>

ResolveTo(s, e) ==
  /\ \/ cpc[s] = "closed" /\ e = IF terminal[s] = "none" THEN "internal" ELSE terminal[s]
     \/ cpc[s] = "recheck" /\ e = terminal[s]
  /\ chan[s] = <<>>
  /\ Resolve(s, e)
  /\ UNCHANGED <<quicheVars, workerVars, terminal, flags, cmd, woken, stop_sent, dropped>>

Move(s, c) ==
  /\ \/ c = "poll" /\ cpc[s] \in {"idle", "parked"} /\ seen[s] = "none" /\ ~dropped[s]
     \/ c = "closed" /\ cpc[s] = "poll" /\ chan[s] = <<>> /\ s \notin recv
     \/ c = "open" /\ cpc[s] = "poll" /\ chan[s] = <<>>
     \/ c = "recheck" /\ cpc[s] = "open" /\ terminal[s] # "none"
     \/ c = "parked" /\ cpc[s] = "open"
  /\ cpc' = [cpc EXCEPT ![s] = c]
  /\ waker' \in [Streams -> SUBSET {"chan", "term"}] /\ woken' \in [Streams -> BOOLEAN]
  /\ UNCHANGED <<quicheVars, workerVars, sharedVars, delivered, seen, stop_sent, dropped>>

\* signal_resume, step by step.
Swap(s) ==
  /\ cpc[s] = "swap" /\ blocked' = [blocked EXCEPT ![s] = FALSE]
  /\ cpc' = [cpc EXCEPT ![s] = IF blocked[s] THEN "resume" ELSE "idle"]
  /\ UNCHANGED <<quicheVars, workerVars, chan, terminal, resume, cmd, storebuf, waker,
                 woken, delivered, seen, stop_sent, dropped>>

Bit(s) ==
  /\ cpc[s] = "resume" /\ resume' = [resume EXCEPT ![s] = TRUE]
  /\ cpc' = [cpc EXCEPT ![s] = IF resume[s] THEN "idle" ELSE "send"]
  /\ UNCHANGED <<quicheVars, workerVars, chan, terminal, blocked, cmd, storebuf, waker,
                 woken, delivered, seen, stop_sent, dropped>>

Nudge(s) ==
  /\ cpc[s] = "send" /\ cpc' = [cpc EXCEPT ![s] = "idle"] /\ SendCmd(RecvResume(s))
  /\ UNCHANGED <<quicheVars, workerVars, chan, terminal, flags, waker,
                 woken, delivered, seen, stop_sent, dropped>>

DropBegin(s) ==
  /\ cpc[s] \in {"idle", "parked"} /\ ~dropped[s]
  /\ cpc' = [cpc EXCEPT ![s] = "dropping"]
  /\ UNCHANGED cmd \/ SendCmd(StopSending(s))
  /\ UNCHANGED <<quicheVars, workerVars, chan, terminal, flags, waker, woken, delivered,
                 seen, stop_sent, dropped>>

DropEnd(s) ==
  /\ cpc[s] = "dropping" /\ cpc' = [cpc EXCEPT ![s] = "idle"]
  /\ chan' = [chan EXCEPT ![s] = <<>>] /\ waker' = [waker EXCEPT ![s] = {}]
  /\ dropped' = [dropped EXCEPT ![s] = TRUE]
  /\ UNCHANGED <<quicheVars, workerVars, terminal, flags, cmd, woken, delivered, seen,
                 stop_sent>>

\* The steps of the worker that change nothing the application sees.
Bookkeeping ==
  \/ Advance \/ Room \/ Full \/ ReachEnd \/ Leave
  \/ \E s \in Streams : ApplyResume(s) \/ IntakeOne(s) \/ PopResume(s) \/ PopReadable(s)
  \/ \E s \in Streams, v \in BOOLEAN : FlushBlocked(s, v) \/ FlushResume(s, v)

Effects ==
  \/ Abandon \/ Push \/ PublishTerminal \/ SealRecv \/ CloseDrop \/ ConnectionClosing
  \/ \E s \in Streams : ApplyStop(s) \/ ClosePublish(s) \/ FrameChunk(s) \/ FrameEnd(s, "fin")
                          \/ FrameEnd(s, "reset")

Polls ==
  \E s \in Streams :
    \/ Take(s) \/ Swap(s) \/ Bit(s) \/ Nudge(s)
    \/ CallStopSending(s) \/ DropBegin(s) \/ DropEnd(s)
    \/ \E e \in Ends \cup {"internal"} : ResolveTo(s, e)
    \/ \E c \in {"poll", "closed", "open", "recheck", "parked"} : Move(s, c)

\* A drain works on a stream with an entry.
LEMMA CurIsStream ==
  ASSUME Types, Loop, Busy
  PROVE  cur \in recv /\ cur \in Streams
BY DEF Types, TypeLoop, Loop

\* The steps of an iteration.
LEMMA WorkerCases ==
  ASSUME Types, Loop,
         PacketIteration \/ NoPacketIteration \/ apply_inbox \/ intake_readable \/ drain_resumed
           \/ phase1_registered_drain \/ finish_iteration \/ CloseBegin
  PROVE  Bookkeeping \/ Effects
<1> USE BoundsAssumption
<1> USE DEF Types, TypeQuiche, TypeQueues, TypeLoop, TypeMail, quicheVars, queueVars, loopVars,
            workerVars, sharedVars, frontVars, quiet, flags, Books, Stages
<1>1. CASE PacketIteration
  <2>0. needs_iteration' = FALSE /\ packet' = TRUE /\ read_budget' = READ_BUDGET
        /\ left' = DISCOVERY_BUDGET
    BY <1>1, Zenon DEF PacketIteration, BeginIteration
  <2>1. Books
    <3>1. needs_iteration' \in BOOLEAN /\ packet' \in BOOLEAN
      BY <2>0, Zenon
    <3>2. read_budget' \in 0..READ_BUDGET /\ left' \in Nat
      BY <2>0
    <3> QED BY <3>1, <3>2, Zenon DEF Books
  <2>2. /\ wpc = "wait" /\ Visible /\ wpc' = "intake" /\ received' = FALSE
        /\ UNCHANGED <<quiet, qarmed, qconn, queueVars, cur, chunks, ret, cmd, flags>>
    BY <1>1 DEF PacketIteration, BeginIteration
  <2>3. Advance
    BY <2>1, <2>2 DEF Advance
  <2> QED BY <2>3 DEF Bookkeeping
<1>2. CASE NoPacketIteration
  <2>0. needs_iteration' = FALSE /\ packet' = FALSE /\ read_budget' = READ_BUDGET
        /\ left' = CMD_BUDGET
    BY <1>2, Zenon DEF NoPacketIteration, BeginIteration
  <2>1. Books
    <3>1. needs_iteration' \in BOOLEAN /\ packet' \in BOOLEAN
      BY <2>0, Zenon
    <3>2. read_budget' \in 0..READ_BUDGET /\ left' \in Nat
      BY <2>0
    <3> QED BY <3>1, <3>2, Zenon DEF Books
  <2>2. /\ wpc = "wait" /\ Visible /\ wpc' = "apply" /\ received' = received
        /\ UNCHANGED <<quiet, qarmed, qconn, queueVars, cur, chunks, ret, cmd, flags>>
    BY <1>2 DEF NoPacketIteration, BeginIteration
  <2>3. Advance
    BY <2>1, <2>2 DEF Advance
  <2> QED BY <2>3 DEF Bookkeeping
<1>3. CASE apply_inbox
  <2>1. CASE left = 0 \/ cmd = <<>>
    <3>1. Advance
      BY <1>3, <2>1 DEF apply_inbox, Advance
    <3> QED BY <3>1 DEF Bookkeeping
  <2>2. CASE ~(left = 0 \/ cmd = <<>>)
    <3> DEFINE c == Head(cmd)
    <3>1. c \in Commands /\ left - 1 \in Nat
      BY <2>2
    <3>2. c.id \in Streams
      BY <3>1 DEF Commands
    <3>3. CASE c.op = "RecvResume"
      <4>1. c = RecvResume(c.id)
        BY <3>1, <3>3 DEF Commands, RecvResume
      <4>2. ApplyResume(c.id)
        BY <1>3, <2>2, <3>1, <3>3, <4>1 DEF apply_inbox, ApplyResume
      <4> QED BY <3>2, <4>2 DEF Bookkeeping
    <3>4. CASE c.op = "StopSending"
      <4>1. c = StopSending(c.id)
        BY <3>1, <3>4 DEF Commands, StopSending
      <4>2. ApplyStop(c.id)
        BY <1>3, <2>2, <3>1, <3>4, <4>1 DEF apply_inbox, ApplyStop
      <4> QED BY <3>2, <4>2 DEF Effects
    <3> QED BY <3>1, <3>3, <3>4 DEF Commands
  <2> QED BY <2>1, <2>2
<1>4. CASE intake_readable
  <2>0. needs_iteration' \in BOOLEAN
    BY <1>4, Zenon DEF intake_readable
  <2>1. ASSUME NEW s \in Streams, left > 0, qarmed[s], left' = left - 1,
               qarmed' = [qarmed EXCEPT ![s] = FALSE],
               pending_readable' = IF s \in recv THEN Enqueue(pending_readable, s)
                                                 ELSE pending_readable,
               UNCHANGED <<needs_iteration, wpc>>
        PROVE  Bookkeeping
    <3>1. IntakeOne(s)
      BY <1>4, <2>1 DEF intake_readable, IntakeOne
    <3> QED BY <3>1 DEF Bookkeeping
  <2>2. CASE /\ left' = RECV_RESUME_BUDGET /\ wpc' = "resumed"
             /\ UNCHANGED <<qarmed, pending_readable>>
    <3>1. Advance
      BY <1>4, <2>0, <2>2 DEF intake_readable, Advance
    <3> QED BY <3>1 DEF Bookkeeping
  <2> QED BY <1>4, <2>1, <2>2 DEF intake_readable
<1>5. CASE drain_resumed
  <2>1. CASE left = 0 \/ pending_resume = <<>>
    <3>1. Advance
      BY <1>5, <2>1 DEF drain_resumed, Advance
    <3> QED BY <3>1 DEF Bookkeeping
  <2>2. CASE ~(left = 0 \/ pending_resume = <<>>)
    <3>0. Books
      BY <1>5, <2>2 DEF drain_resumed
    <3>1. PopResume(Head(pending_resume))
      <4> HIDE DEF Books
      <4>1. CASE Head(pending_resume) \in recv
        BY <1>5, <2>2, <3>0, <4>1 DEF drain_resumed, PopResume, ClearResume
      <4>2. CASE Head(pending_resume) \notin recv
        BY <1>5, <2>2, <3>0, <4>2 DEF drain_resumed, PopResume
      <4> QED BY <4>1, <4>2
    <3>2. Head(pending_resume) \in Streams
      BY <2>2
    <3> QED BY <3>1, <3>2 DEF Bookkeeping
  <2> QED BY <2>1, <2>2
<1>6. CASE phase1_registered_drain
  <2>0. needs_iteration' \in BOOLEAN
    BY <1>6, Zenon DEF phase1_registered_drain
  <2>1. CASE left = 0 \/ read_budget = 0 \/ pending_readable = <<>>
    <3>1. Advance
      BY <1>6, <2>0, <2>1 DEF phase1_registered_drain, Advance
    <3> QED BY <3>1 DEF Bookkeeping
  <2>2. CASE ~(left = 0 \/ read_budget = 0 \/ pending_readable = <<>>)
    <3>1. PopReadable(Head(pending_readable))
      <4>0. wpc = "phase1" /\ Visible /\ Books
        BY <1>6, <2>0, <2>2 DEF phase1_registered_drain
      <4> HIDE DEF Books
      <4>1. CASE Head(pending_readable) \in recv
        BY <1>6, <2>2, <4>0, <4>1 DEF phase1_registered_drain, PopReadable
      <4>2. CASE Head(pending_readable) \notin recv
        BY <1>6, <2>2, <4>0, <4>2 DEF phase1_registered_drain, PopReadable
      <4> QED BY <4>1, <4>2
    <3>2. Head(pending_readable) \in Streams
      BY <2>2
    <3> QED BY <3>1, <3>2 DEF Bookkeeping
  <2> QED BY <2>1, <2>2
<1>7. CASE finish_iteration
  <2>0. needs_iteration' \in BOOLEAN
    BY <1>7, Zenon DEF finish_iteration
  <2>1. Advance
    BY <1>7, <2>0 DEF finish_iteration, Advance
  <2> QED BY <2>1 DEF Bookkeeping
<1>8. CASE CloseBegin
  <2>1. Advance
    BY <1>8 DEF CloseBegin, Advance
  <2> QED BY <2>1 DEF Bookkeeping
<1> QED BY <1>1, <1>2, <1>3, <1>4, <1>5, <1>6, <1>7, <1>8

\* The steps of a drain.
LEMMA DrainCases ==
  ASSUME Types, Loop, Drain
  PROVE  Bookkeeping \/ Effects
<1> USE BoundsAssumption
<1> USE DEF Types, TypeQuiche, TypeQueues, TypeLoop, TypeMail, quicheVars, queueVars, loopVars,
            workerVars, sharedVars, frontVars, quiet, flags, Books
<1>1. CASE DrainBudgetUsed
  <2>0. needs_iteration' \in BOOLEAN
    BY <1>1, Zenon DEF DrainBudgetUsed
  <2>1. Leave
    <3>1. CASE chunks > 0 \/ stream_readable(cur)
      BY <1>1, <2>0, <3>1 DEF DrainBudgetUsed, Leave
    <3>2. CASE ~(chunks > 0 \/ stream_readable(cur))
      BY <1>1, <2>0, <3>2 DEF DrainBudgetUsed, Leave
    <3> QED BY <3>1, <3>2
  <2> QED BY <2>1 DEF Bookkeeping
<1>2. CASE DrainReserve
  <2>0. chunks > 0 /\ read_budget > 0
    BY <1>2 DEF DrainReserve, BudgetUsed
  <2>1. CASE Visible /\ AbandonRecv
    BY <1>2, <2>1 DEF DrainReserve, Abandon, Effects
  <2>2. CASE /\ Len(chan[cur]) < Depth /\ Visible /\ wpc' = "read"
             /\ UNCHANGED <<storebuf, chunks, cur, ret>>
             /\ UNCHANGED <<quicheVars, recv, queueVars, needs_iteration, read_budget, packet,
                            left, chan, terminal, blocked, resume, cmd, frontVars>>
    <3>1. Room
      BY <1>2, <2>0, <2>2 DEF DrainReserve, Room, Visible
    <3> QED BY <3>1 DEF Bookkeeping
  <2>3. CASE /\ LoadAllowed /\ StoreBlocked(cur, TRUE) /\ wpc' = "recheck"
             /\ UNCHANGED <<chunks, cur, ret>>
             /\ UNCHANGED <<quicheVars, recv, queueVars, needs_iteration, read_budget, packet,
                            left, chan, terminal, blocked, resume, cmd, frontVars>>
    <3>1. Full
      BY <1>2, <2>0, <2>3 DEF DrainReserve, Full, StoreBlocked
    <3> QED BY <3>1 DEF Bookkeeping
  <2> QED BY <1>2, <2>1, <2>2, <2>3 DEF DrainReserve
<1>3. CASE DrainRecheck
  <2>0. chunks > 0 /\ read_budget > 0
    BY <1>3 DEF DrainRecheck, Loop
  <2>1. CASE Visible /\ AbandonRecv
    BY <1>3, <2>1 DEF DrainRecheck, Abandon, Effects
  <2>2. CASE /\ Len(chan[cur]) < Depth /\ Visible /\ StoreBlocked(cur, FALSE) /\ wpc' = "read"
             /\ UNCHANGED <<chunks, cur, ret>>
             /\ UNCHANGED <<quicheVars, recv, queueVars, needs_iteration, read_budget, packet,
                            left, chan, terminal, blocked, resume, cmd, frontVars>>
    <3>0. storebuf' = <<<<"blocked", cur, FALSE>>>>
      BY <2>2 DEF StoreBlocked, Visible
    <3>1. Room
      BY <1>3, <2>0, <2>2, <3>0 DEF DrainRecheck, Room
    <3> QED BY <3>1 DEF Bookkeeping
  <2>3. CASE /\ ~dropped[cur] /\ Len(chan[cur]) >= Depth /\ LoadAllowed /\ Return /\ UNCHANGED storebuf
             /\ UNCHANGED <<quicheVars, recv, queueVars, needs_iteration, read_budget, packet,
                            left, chan, terminal, blocked, resume, cmd, frontVars>>
    <3>1. Leave
      BY <1>3, <2>0, <2>3 DEF DrainRecheck, Leave
    <3> QED BY <3>1 DEF Bookkeeping
  <2> QED BY <1>3, <2>1, <2>2, <2>3 DEF DrainRecheck
<1>4. CASE DrainChunk
  <2>1. chunks > 0 /\ read_budget > 0 /\ cur \in Streams
    BY <1>4, CurIsStream DEF DrainChunk, Loop, Busy
  <2>2. /\ Books /\ chunks - 1 \in 0..CHUNK_BUDGET
    BY <1>4, <2>1 DEF DrainChunk
  <2>3. qnext' = [qnext EXCEPT ![cur] = qnext[cur] + 1]
    BY <1>4 DEF DrainChunk
  <2>4. Push
    BY <1>4, <2>2, <2>3 DEF DrainChunk, Push
  <2> QED BY <2>4 DEF Effects
<1>5. CASE DrainNoBytes
  <2>1. cur \in Streams
    BY <1>5, CurIsStream DEF DrainNoBytes, Busy
  <2>2. CASE wpc' = "fin" /\ UNCHANGED <<chunks, cur, ret, queueVars>>
               /\ (qend[cur] = "reset" \/ (qend[cur] = "fin" /\ qnext[cur] > qsent[cur]))
    <3>1. ReachEnd
      BY <1>5, <2>2 DEF DrainNoBytes, ReachEnd
    <3> QED BY <3>1 DEF Bookkeeping
  <2>3. CASE qend[cur] = "none" /\ qnext[cur] > qsent[cur] /\ Return /\ UNCHANGED queueVars
    <3>0. ~stream_readable(cur)
      BY <2>1, <2>3 DEF stream_readable
    <3>1. Leave
      BY <1>5, <2>3, <3>0 DEF DrainNoBytes, Leave
    <3> QED BY <3>1 DEF Bookkeeping
  <2>4. CASE /\ qconn = "closing" /\ Return
             /\ pending_readable' = Without(pending_readable, cur)
             /\ pending_resume' = Without(pending_resume, cur)
    <3>1. Leave
      BY <1>5, <2>4 DEF DrainNoBytes, Leave
    <3> QED BY <3>1 DEF Bookkeeping
  <2> QED BY <1>5, <2>2, <2>3, <2>4 DEF DrainNoBytes
<1> QED BY <1>1, <1>2, <1>3, <1>4, <1>5 DEF Drain, Effects

\* The steps of the stores, the network and the application.
LEMMA FlushCases ==
  ASSUME Types, Flush
  PROVE  Bookkeeping
<1> DEFINE st == Head(storebuf)
<1>1. st \in {"blocked", "resume"} \X Streams \X BOOLEAN
  BY DEF Flush, Types, TypeMail
<1>2. st = <<st[1], st[2], st[3]>> /\ st[2] \in Streams /\ st[3] \in BOOLEAN
      /\ st[1] \in {"blocked", "resume"}
  BY <1>1
<1>3. CASE st[1] = "blocked"
  <2>1. FlushBlocked(st[2], st[3])
    BY <1>2, <1>3 DEF Flush, FlushBlocked
  <2> QED BY <1>2, <2>1 DEF Bookkeeping
<1>4. CASE st[1] # "blocked"
  <2>1. FlushResume(st[2], st[3])
    BY <1>2, <1>4 DEF Flush, FlushResume
  <2> QED BY <1>2, <2>1 DEF Bookkeeping
<1> QED BY <1>3, <1>4

\* The steps of the application.
LEMMA FrontCases ==
  ASSUME IInv, NEW s \in Streams, FrameArrives(s) \/ Reader(s) \/ DropHandle(s)
  PROVE  Effects \/ Polls
<1> USE BoundsAssumption
<1>0. Types /\ Loop /\ Told(s)
  BY TypeParts DEF IInv
<1> USE DEF Types, TypeQuiche, TypeQueues, TypeLoop, TypeMail, TypeFront, quicheVars, queueVars,
            loopVars, workerVars, sharedVars, frontVars, quiet, flags
<1>2. CASE FrameArrives(s)
  <2>1. CASE qsent[s] < MaxChunks /\ qsent' = [qsent EXCEPT ![s] = @ + 1] /\ UNCHANGED qend
    <3>1. FrameChunk(s)
      BY <1>2, <2>1 DEF FrameArrives, FrameChunk
    <3> QED BY <3>1 DEF Effects
  <2>2. ASSUME NEW e \in PeerEnds, qend' = [qend EXCEPT ![s] = e], UNCHANGED qsent
        PROVE  Effects
    <3>1. FrameEnd(s, e)
      BY <1>2, <2>2 DEF FrameArrives, FrameEnd
    <3> QED BY <3>1 DEF Effects
  <2> QED BY <1>2, <2>1, <2>2 DEF FrameArrives
<1>3. CASE PollData(s)
  <2>1. Move(s, "poll")
    BY <1>0, <1>3 DEF PollData, Move
  <2> QED BY <2>1 DEF Polls
<1>4. CASE PollRecv(s)
  <2>1. CASE TakeChunk(s)
    <3>1. Take(s)
      BY <1>4, <2>1 DEF PollRecv, Take
    <3> QED BY <3>1 DEF Polls
  <2>2. CASE ~TakeChunk(s) /\ SenderGone(s)
    <3>1. Move(s, "closed")
      BY <1>0, <1>4, <2>2 DEF PollRecv, Move, SenderGone
    <3> QED BY <3>1 DEF Polls
  <2>3. CASE ~TakeChunk(s) /\ ~SenderGone(s)
    <3>0. waker' = [waker EXCEPT ![s] = waker[s] \cup {"chan"}] /\ woken' = woken
      BY <1>4, <2>3 DEF PollRecv
    <3>1. waker' \in [Streams -> SUBSET {"chan", "term"}] /\ woken' \in [Streams -> BOOLEAN]
      BY <1>0, <3>0
    <3>2. Move(s, "open")
      BY <1>4, <2>3, <3>1 DEF PollRecv, Move
    <3> QED BY <3>2 DEF Polls
  <2> QED BY <2>1, <2>2, <2>3
<1>5. CASE PollTerminal(s)
  <2>1. CASE /\ cpc[s] = "closed"
             /\ Resolve(s, IF terminal[s] = "none" THEN "internal" ELSE terminal[s])
    <3> DEFINE e == IF terminal[s] = "none" THEN "internal" ELSE terminal[s]
    <3>1. ResolveTo(s, e)
      BY <1>0, <1>5, <2>1 DEF PollTerminal, ResolveTo, Told
    <3>2. e \in Ends \cup {"internal"}
      BY <1>0 DEF TypeCells
    <3> QED BY <3>1, <3>2 DEF Polls
  <2>2. CASE /\ cpc[s] = "open" /\ terminal[s] # "none"
             /\ cpc' = [cpc EXCEPT ![s] = "recheck"]
             /\ UNCHANGED <<chan, waker, delivered, seen>>
    <3>1. Move(s, "recheck")
      BY <1>0, <1>5, <2>2 DEF PollTerminal, Move
    <3> QED BY <3>1 DEF Polls
  <2>3. CASE /\ cpc[s] = "open" /\ terminal[s] = "none"
             /\ cpc' = [cpc EXCEPT ![s] = "parked"]
             /\ waker' = [waker EXCEPT ![s] = @ \cup {"term"}]
             /\ UNCHANGED <<chan, delivered, seen>>
    <3>1. Move(s, "parked")
      BY <1>0, <1>5, <2>3 DEF PollTerminal, Move
    <3> QED BY <3>1 DEF Polls
  <2>4. CASE cpc[s] = "recheck" /\ TakeChunk(s)
    <3>1. Take(s)
      BY <1>5, <2>4 DEF PollTerminal, Take
    <3> QED BY <3>1 DEF Polls
  <2>5. CASE cpc[s] = "recheck" /\ chan[s] = <<>> /\ Resolve(s, terminal[s])
    <3>1. ResolveTo(s, terminal[s])
      BY <1>5, <2>5 DEF PollTerminal, ResolveTo
    <3>2. terminal[s] \in Ends \cup {"internal"}
      BY <1>0 DEF TypeCells
    <3> QED BY <3>1, <3>2 DEF Polls
  <2> QED BY <1>5, <2>1, <2>2, <2>3, <2>4, <2>5 DEF PollTerminal, Recheck
<1>6. CASE SignalResume(s)
  <2>1. Swap(s) \/ Bit(s) \/ Nudge(s)
    BY <1>6 DEF SignalResume, Swap, Bit, Nudge
  <2> QED BY <2>1 DEF Polls
<1>7. CASE DropHandle(s)
  <2>1. DropBegin(s) \/ DropEnd(s)
    BY <1>7 DEF DropHandle, DropBegin, DropEnd, StopOnDrop
  <2> QED BY <2>1 DEF Polls
<1> QED BY <1>2, <1>3, <1>4, <1>5, <1>6, <1>7 DEF Reader

\* Every step is one of the three kinds.
LEMMA StepCases ==
  ASSUME IInv, Next
  PROVE  Bookkeeping \/ Effects \/ Polls
<1>1. Types /\ Loop
  BY TypeParts DEF IInv
<1>2. CASE Worker
  BY <1>1, <1>2, WorkerCases, DrainCases DEF Worker, Effects
<1>3. CASE Flush
  BY <1>1, <1>3, FlushCases
<1>6. ASSUME NEW s \in Streams, FrameArrives(s) \/ Reader(s) \/ DropHandle(s)
      PROVE  Effects \/ Polls
  BY <1>6, FrontCases
<1>4. CASE ConnectionClosing
  BY <1>4 DEF Effects
<1>5. ASSUME NEW s \in Streams, CallStopSending(s) PROVE Polls
  BY <1>5 DEF Polls
<1> QED BY <1>2, <1>3, <1>4, <1>5, <1>6 DEF Next

-----------------------------------------------------------------------------
(* The invariant: bookkeeping *)

\* A step that leaves the streams alone keeps what Told says of them.
LEMMA QuietTold ==
  ASSUME IInv, UNCHANGED quiet, qconn # "open" => qconn' # "open",
         Elems(cmd') \subseteq Elems(cmd),
         \A s \in Streams : Closed(s) => Closed(s)'
  PROVE  \A s \in Streams : Told(s)'
<1> SUFFICES ASSUME NEW s \in Streams PROVE Told(s)'
  OBVIOUS
<1>1. Told(s) /\ (Closed(s) => Closed(s)')
  BY DEF IInv
<1>2. /\ qsent' = qsent /\ qnext' = qnext /\ qend' = qend /\ recv' = recv /\ chan' = chan
      /\ terminal' = terminal /\ cpc' = cpc /\ delivered' = delivered /\ seen' = seen
      /\ stop_sent' = stop_sent /\ dropped' = dropped
  BY DEF quiet, frontVars
<1>3. StopSending(s)' = StopSending(s)
  BY DEF StopSending
<1> QED BY <1>1, <1>2, <1>3, Zenon DEF Told, Ended, Left, Flow

\* The pop of a command or of an id.
LEMMA Popped ==
  ASSUME NEW S, NEW q \in Seq(S), q # <<>>
  PROVE  Tail(q) \in Seq(S) /\ Head(q) \in S /\ Elems(Tail(q)) \subseteq Elems(q)
BY ElemsTail

\* From stage to stage nothing moves.
LEMMA AdvanceStep ==
  ASSUME IInv, Advance
  PROVE  IInv'
<1> USE DEF Stages
<1>1. Types /\ Loop
  BY TypeParts DEF IInv
<1>2. Types'
  BY <1>1 DEF Advance, Books, Types, TypeQuiche, TypeQueues, TypeLoop, TypeCells, TypeMail,
              TypeFront, quiet, frontVars, queueVars, flags
<1>3. Loop'
  BY <1>1 DEF Advance, Loop, Busy, quiet
<1>4. \A s \in Streams : Told(s)'
  <2>1. UNCHANGED <<quiet, qconn, cmd>> /\ wpc \notin {"seal", "close"}
    BY DEF Advance
  <2>2. \A s \in Streams : Closed(s) => Closed(s)'
    BY <2>1 DEF Closed, quiet
  <2> QED BY <2>1, <2>2, QuietTold
<1> QED BY <1>2, <1>3, <1>4, TypePartsPrime DEF IInv

\* The id of a command or a cursor is a stream.
LEMMA PopStep ==
  ASSUME IInv, NEW s \in Streams,
         ApplyResume(s) \/ IntakeOne(s) \/ PopResume(s) \/ PopReadable(s)
  PROVE  IInv'
<1>1. Types /\ Loop
  BY TypeParts DEF IInv
<1>2. UNCHANGED <<quiet, qconn>> /\ wpc \in {"apply", "intake", "resumed", "phase1"} /\ Books
  BY DEF ApplyResume, IntakeOne, PopResume, PopReadable
<1>3. cmd' \in Seq(Commands) /\ Elems(cmd') \subseteq Elems(cmd)
  <2>1. CASE ApplyResume(s)
    BY <1>1, <2>1, Popped DEF ApplyResume, Types, TypeMail
  <2>2. CASE IntakeOne(s) \/ PopResume(s) \/ PopReadable(s)
    <3>1. cmd' = cmd
      BY <2>2 DEF IntakeOne, PopResume, PopReadable
    <3> QED BY <1>1, <3>1 DEF Types, TypeMail
  <2> QED BY <2>1, <2>2
<1>4. storebuf' \in Seq({"blocked", "resume"} \X Streams \X BOOLEAN)
  <2>1. CASE PopResume(s) /\ s \in recv
    <3>1. storebuf' = <<<<"resume", s, FALSE>>, <<"blocked", s, FALSE>>>>
      BY <2>1 DEF PopResume
    <3>2. /\ <<"resume", s, FALSE>> \in {"blocked", "resume"} \X Streams \X BOOLEAN
          /\ <<"blocked", s, FALSE>> \in {"blocked", "resume"} \X Streams \X BOOLEAN
      OBVIOUS
    <3> QED BY <3>1, <3>2
  <2>2. CASE ~(PopResume(s) /\ s \in recv)
    <3>1. storebuf' = storebuf
      BY <2>2 DEF ApplyResume, IntakeOne, PopResume, PopReadable, flags
    <3> QED BY <1>1, <3>1 DEF Types, TypeMail
  <2> QED BY <2>1, <2>2
<1>5. TypeQueues'
  <2>0. pending_readable \in Seq(Streams) /\ pending_resume \in Seq(Streams)
    BY <1>1 DEF Types, TypeQueues
  <2>1. CASE ApplyResume(s)
    BY <2>0, <2>1, ElemsEnqueue DEF ApplyResume, TypeQueues
  <2>2. CASE IntakeOne(s)
    BY <2>0, <2>2, ElemsEnqueue DEF IntakeOne, TypeQueues
  <2>3. CASE PopResume(s)
    BY <2>0, <2>3, Popped DEF PopResume, TypeQueues
  <2>4. CASE PopReadable(s)
    BY <2>0, <2>4, Popped DEF PopReadable, TypeQueues
  <2> QED BY <2>1, <2>2, <2>3, <2>4
<1>6. TypeQuiche'
  <2>1. CASE IntakeOne(s)
    BY <1>1, <2>1 DEF IntakeOne, Types, TypeQuiche, quiet
  <2>2. CASE ~IntakeOne(s)
    <3>1. UNCHANGED <<qsent, qnext, qend, qshut, qarmed, received, qconn>>
      BY <2>2 DEF ApplyResume, PopResume, PopReadable, quiet
    <3> QED BY <1>1, <3>1 DEF Types, TypeQuiche
  <2> QED BY <2>1, <2>2
<1>7. \/ wpc' = wpc /\ UNCHANGED <<cur, chunks, ret>>
      \/ s \in recv /\ wpc' = "drain" /\ cur' = s /\ chunks' = CHUNK_BUDGET
           /\ ret' \in {"resumed", "phase1"}
  <2>1. CASE ApplyResume(s)
    BY <2>1 DEF ApplyResume
  <2>2. CASE IntakeOne(s)
    BY <2>2 DEF IntakeOne
  <2>3. CASE PopResume(s)
    BY <2>3, Zenon DEF PopResume
  <2>4. CASE PopReadable(s)
    BY <2>4, Zenon DEF PopReadable
  <2> QED BY <2>1, <2>2, <2>3, <2>4
<1>8. TypeLoop'
  BY <1>1, <1>2, <1>7, BoundsAssumption DEF Types, TypeLoop, Books, quiet
<1>9. TypeCells' /\ TypeFront'
  <2>1. blocked' = blocked /\ resume' = resume
    BY DEF ApplyResume, IntakeOne, PopResume, PopReadable, flags
  <2> QED BY <1>1, <1>2, <2>1 DEF Types, TypeCells, TypeFront, quiet, frontVars
<1>10. Loop'
  <2>1. wpc' \in {"apply", "intake", "resumed", "phase1"} \/ (wpc' = "drain" /\ cur' \in recv')
    BY <1>2, <1>7 DEF quiet
  <2> QED BY <2>1 DEF Loop, Busy
<1>11. \A t \in Streams : Told(t)'
  <2>1. \A t \in Streams : Closed(t) => Closed(t)'
    BY <1>2 DEF Closed, quiet
  <2> QED BY <1>2, <1>3, <2>1, QuietTold
<1>12. TypeMail'
  BY <1>3, <1>4 DEF TypeMail
<1> QED BY <1>5, <1>6, <1>8, <1>9, <1>10, <1>11, <1>12, TypePartsPrime DEF Types, IInv

\* The drain goes on, or returns with the entry kept.
LEMMA DrainStep ==
  ASSUME IInv, Room \/ Full \/ ReachEnd \/ Leave
  PROVE  IInv'
<1>1. Types /\ Loop
  BY TypeParts DEF IInv
<1>2. UNCHANGED <<quiet, qarmed, received, qconn, cmd, blocked, resume>>
      /\ wpc \in {"drain", "recheck", "read"}
  BY DEF Room, Full, ReachEnd, Leave, flags
<1>3. cur \in recv /\ cur \in Streams
  BY <1>1, <1>2, CurIsStream DEF Busy
<1>4. storebuf' \in Seq({"blocked", "resume"} \X Streams \X BOOLEAN)
  <2>0. /\ <<"blocked", cur, TRUE>> \in {"blocked", "resume"} \X Streams \X BOOLEAN
        /\ <<"blocked", cur, FALSE>> \in {"blocked", "resume"} \X Streams \X BOOLEAN
    BY <1>3
  <2>1. CASE Full
    BY <1>1, <2>0, <2>1, ElemsAppend DEF Full, Types, TypeMail
  <2>2. CASE Room
    <3>1. storebuf' = <<>> \/ storebuf' = <<<<"blocked", cur, FALSE>>>>
      BY <2>2 DEF Room
    <3>2. <<>> \in Seq({"blocked", "resume"} \X Streams \X BOOLEAN)
      OBVIOUS
    <3>3. <<<<"blocked", cur, FALSE>>>> \in Seq({"blocked", "resume"} \X Streams \X BOOLEAN)
      BY <2>0
    <3> QED BY <3>1, <3>2, <3>3
  <2>3. CASE ReachEnd \/ Leave
    BY <1>1, <2>3 DEF ReachEnd, Leave, flags, Types, TypeMail
  <2> QED BY <2>1, <2>2, <2>3
<1>5. TypeQueues'
  <2>0. pending_readable \in Seq(Streams) /\ pending_resume \in Seq(Streams)
    BY <1>1 DEF Types, TypeQueues
  <2>1. CASE Room \/ Full \/ ReachEnd
    BY <2>0, <2>1 DEF Room, Full, ReachEnd, queueVars, TypeQueues
  <2>2. CASE Leave
    <3>1. /\ Enqueue(pending_readable, cur) \in Seq(Streams)
          /\ Without(pending_readable, cur) \in Seq(Streams)
          /\ Without(pending_resume, cur) \in Seq(Streams)
      BY <1>3, <2>0, ElemsEnqueue, ElemsWithout
    <3>2. /\ pending_readable' \in {pending_readable, Enqueue(pending_readable, cur),
                                    Without(pending_readable, cur)}
          /\ pending_resume' \in {pending_resume, Without(pending_resume, cur)}
      BY <2>2, Zenon DEF Leave, queueVars
    <3> QED BY <2>0, <3>1, <3>2 DEF TypeQueues
  <2> QED BY <2>1, <2>2
<1>6. TypeLoop'
  <2>1. CASE Room \/ Full \/ ReachEnd
    BY <1>1, <2>1 DEF Room, Full, ReachEnd, Types, TypeLoop, quiet
  <2>2. CASE Leave
    BY <1>1, <2>2, BoundsAssumption DEF Leave, Return, Books, Types, TypeLoop, quiet
  <2> QED BY <2>1, <2>2
<1>7. TypeQuiche' /\ TypeCells' /\ TypeFront' /\ TypeMail'
  BY <1>1, <1>2, <1>4 DEF Types, TypeQuiche, TypeCells, TypeFront, TypeMail, quiet, frontVars
<1>8. Loop'
  <2>1. CASE Room \/ Full
    BY <1>1, <1>3, <2>1 DEF Room, Full, Loop, Busy, quiet
  <2>2. CASE ReachEnd
    <3>1. Told(cur)
      BY <1>3 DEF IInv
    <3>2. qend[cur] = "reset" \/ (qend[cur] = "fin" /\ qnext[cur] = qsent[cur] + 1)
      BY <1>1, <1>3, <2>2, <3>1 DEF ReachEnd, Told, Types, TypeQuiche
    <3>3. wpc' = "fin" /\ cur' = cur /\ recv' = recv /\ qend' = qend /\ qnext' = qnext
          /\ qsent' = qsent
      BY <2>2 DEF ReachEnd, quiet
    <3> QED BY <1>3, <3>2, <3>3 DEF Loop, Busy
  <2>3. CASE Leave
    <3>1. wpc' \in {"resumed", "phase1"}
      BY <1>1, <2>3 DEF Leave, Return, Types, TypeLoop
    <3> QED BY <3>1 DEF Loop, Busy
  <2> QED BY <2>1, <2>2, <2>3
<1>9. \A t \in Streams : Told(t)'
  <2>1. \A t \in Streams : Closed(t) => Closed(t)'
    BY <1>2 DEF Closed, quiet
  <2> QED BY <1>2, <2>1, QuietTold
<1> QED BY <1>5, <1>6, <1>7, <1>8, <1>9, TypePartsPrime DEF Types, IInv

\* A store that becomes visible delivers nothing.
LEMMA FlushStep ==
  ASSUME IInv, NEW s \in Streams, NEW v \in BOOLEAN, FlushBlocked(s, v) \/ FlushResume(s, v)
  PROVE  IInv'
<1>1. Types /\ Loop
  BY TypeParts DEF IInv
<1>2. UNCHANGED <<quicheVars, workerVars, chan, terminal, cmd, frontVars>>
  BY DEF FlushBlocked, FlushResume
<1>3. storebuf' \in Seq({"blocked", "resume"} \X Streams \X BOOLEAN)
  <2>1. storebuf # <<>> /\ storebuf' = Tail(storebuf)
    BY DEF FlushBlocked, FlushResume
  <2> QED BY <1>1, <2>1, Popped DEF Types, TypeMail
<1>4. blocked' \in [Streams -> BOOLEAN] /\ resume' \in [Streams -> BOOLEAN]
  BY <1>1 DEF FlushBlocked, FlushResume, Types, TypeCells
<1>5. Types'
  <2>1. TypeQuiche'
    BY <1>1, <1>2 DEF Types, TypeQuiche, quicheVars
  <2>2. TypeQueues'
    BY <1>1, <1>2 DEF Types, TypeQueues, workerVars, queueVars
  <2>3. TypeLoop'
    BY <1>1, <1>2 DEF Types, TypeLoop, workerVars, loopVars
  <2>4. TypeCells'
    BY <1>1, <1>2, <1>4 DEF Types, TypeCells
  <2>5. TypeMail'
    BY <1>1, <1>2, <1>3 DEF Types, TypeMail
  <2>6. TypeFront'
    BY <1>1, <1>2 DEF Types, TypeFront, frontVars
  <2> QED BY <2>1, <2>2, <2>3, <2>4, <2>5, <2>6 DEF Types
<1>6. Loop' /\ UNCHANGED quiet /\ qconn' = qconn
  BY <1>1, <1>2 DEF Loop, Busy, quicheVars, workerVars, loopVars, quiet
<1>7. \A t \in Streams : Told(t)'
  <2>1. \A t \in Streams : Closed(t) => Closed(t)'
    BY <1>2 DEF Closed, workerVars, loopVars
  <2> QED BY <1>2, <1>6, <2>1, QuietTold
<1> QED BY <1>5, <1>6, <1>7, TypePartsPrime DEF IInv

\* No step of the bookkeeping undoes the invariant.
LEMMA BookkeepingStep ==
  ASSUME IInv, Bookkeeping
  PROVE  IInv'
BY AdvanceStep, PopStep, DrainStep, FlushStep DEF Bookkeeping

-----------------------------------------------------------------------------
(* The invariant: what the worker and the network do to a stream *)

\* Nothing of stream t changes.
Same(t) ==
  /\ qsent'[t] = qsent[t] /\ qnext'[t] = qnext[t] /\ qend'[t] = qend[t]
  /\ t \in recv' <=> t \in recv
  /\ chan'[t] = chan[t] /\ terminal'[t] = terminal[t]
  /\ cpc'[t] = cpc[t] /\ delivered'[t] = delivered[t] /\ seen'[t] = seen[t]
  /\ stop_sent'[t] = stop_sent[t] /\ dropped'[t] = dropped[t]

\* A step on one stream keeps what Told says of another.
LEMMA SameTold ==
  ASSUME NEW t \in Streams, Told(t), Same(t), Closed(t) => Closed(t)',
         qconn # "open" => qconn' # "open",
         StopSending(t) \in Elems(cmd') => StopSending(t) \in Elems(cmd)
  PROVE  Told(t)'
<1>1. StopSending(t)' = StopSending(t)
  BY DEF StopSending
<1> QED BY <1>1, Zenon DEF Told, Same, Ended, Left, Flow

\* A chunk enters the channel behind the others, and leaves it as the next one.
LEMMA FlowPush ==
  ASSUME NEW d \in Seq(Nat), NEW c \in Seq(Nat), NEW n \in Nat, Flow(d, c, n)
  PROVE  Flow(d, Append(c, n), n + 1)
<1>1. /\ Len(Append(c, n)) = Len(c) + 1 /\ Append(c, n)[Len(c) + 1] = n
      /\ \A i \in 1..Len(c) : Append(c, n)[i] = c[i]
  OBVIOUS
<1>2. Len(d) \in Nat /\ Len(c) \in Nat /\ Len(d) + Len(c) = n - 1
  BY DEF Flow
<1>3. \A i \in 1..Len(c) + 1 : Append(c, n)[i] = Len(d) + i
  <2> SUFFICES ASSUME NEW i \in 1..Len(c) + 1 PROVE Append(c, n)[i] = Len(d) + i
    OBVIOUS
  <2>1. CASE i \in 1..Len(c)
    BY <1>1, <2>1 DEF Flow
  <2>2. CASE i = Len(c) + 1
    BY <1>1, <1>2, <2>2
  <2> QED BY <1>2, <2>1, <2>2
<1>4. Len(d) + (Len(c) + 1) = (n + 1) - 1
  BY <1>2
<1> QED BY <1>1, <1>3, <1>4 DEF Flow

\* A pop moves the head of the channel to the delivered chunks.
LEMMA FlowPop ==
  ASSUME NEW d \in Seq(Nat), NEW c \in Seq(Nat), NEW n \in Nat, Flow(d, c, n), c # <<>>
  PROVE  Head(c) = Len(d) + 1 /\ Flow(Append(d, Head(c)), Tail(c), n)
<1>1. /\ Len(Tail(c)) = Len(c) - 1 /\ \A i \in 1..Len(c) - 1 : Tail(c)[i] = c[i + 1]
      /\ Len(c) \in Nat \ {0} /\ Len(d) \in Nat /\ Head(c) = c[1]
  OBVIOUS
<1>2. Head(c) = Len(d) + 1
  BY <1>1 DEF Flow
<1>3. /\ Len(Append(d, Head(c))) = Len(d) + 1 /\ Append(d, Head(c))[Len(d) + 1] = Head(c)
      /\ \A i \in 1..Len(d) : Append(d, Head(c))[i] = d[i]
  <2>1. Head(c) \in Nat
    BY <1>1
  <2> QED BY <2>1
<1>4. \A i \in 1..Len(d) + 1 : Append(d, Head(c))[i] = i
  <2> SUFFICES ASSUME NEW i \in 1..Len(d) + 1 PROVE Append(d, Head(c))[i] = i
    OBVIOUS
  <2>1. CASE i \in 1..Len(d)
    BY <1>3, <2>1 DEF Flow
  <2>2. CASE i = Len(d) + 1
    BY <1>2, <1>3, <2>2
  <2> QED BY <1>1, <2>1, <2>2
<1>5. ASSUME NEW i \in 1..Len(c) - 1 PROVE Tail(c)[i] = (Len(d) + 1) + i
  <2>1. i + 1 \in 1..Len(c)
    BY <1>1
  <2>2. c[i + 1] = Len(d) + (i + 1)
    BY <2>1 DEF Flow
  <2> QED BY <1>1, <2>2
<1>6. (Len(d) + 1) + (Len(c) - 1) = n - 1
  BY <1>1 DEF Flow
<1> QED BY <1>1, <1>2, <1>3, <1>4, <1>5, <1>6 DEF Flow

\* Chunks are numbers.
LEMMA Widen ==
  ASSUME NEW S, NEW T, S \subseteq T, NEW q \in Seq(S)
  PROVE  q \in Seq(T)
OBVIOUS

\* The types the proofs below start from.
LEMMA Known ==
  ASSUME IInv
  PROVE  Types /\ Loop /\ \A t \in Streams : Told(t)
BY TypeParts DEF IInv

\* The parts of IInv, put together after a step.
LEMMA Assemble ==
  ASSUME Types', Loop', \A t \in Streams : Told(t)'
  PROVE  IInv'
BY TypePartsPrime DEF IInv

\* The entry of s goes: its terminal is published, or its reader has left.
LEMMA GoneTold ==
  ASSUME IInv, NEW s \in Streams, recv' = recv \ {s},
         terminal[s] # "none" \/ Left(s), wpc # "close",
         wpc = "seal" => cur = s,
         UNCHANGED <<qsent, qnext, qend, qconn, chan, terminal, cpc, delivered, seen,
                     stop_sent, dropped>>,
         Elems(cmd') \subseteq Elems(cmd)
  PROVE  \A t \in Streams : Told(t)'
<1> SUFFICES ASSUME NEW t \in Streams PROVE Told(t)'
  OBVIOUS
<1>1. Told(t) /\ Told(s) /\ StopSending(t)' = StopSending(t)
  BY Known DEF StopSending
<1>2. Closed(t) => t \notin recv'
  BY DEF Closed
<1>3. CASE t # s
  <2>1. Same(t)
    BY <1>3 DEF Same
  <2>2. Closed(t) => Closed(t)'
    BY <1>2 DEF Closed
  <2> QED BY <1>1, <2>1, <2>2, SameTold
<1>4. CASE t = s
  <2>1. Closed(t)'
    BY <1>4 DEF Closed
  <2>2. \A x : Ended(t, x)' <=> Ended(t, x)
    BY DEF Ended
  <2>3. Left(t)' <=> Left(t)
    BY DEF Left
  <2>4. Left(t) => Left(t)'
    BY <2>3
  <2>5. t \notin recv' /\ (terminal[t] # "none" \/ Left(t))
    BY <1>4
  <2>6. StopSending(t)' \in Elems(cmd') => Left(t)
    BY <1>1 DEF Told
  <2> QED BY <1>1, <2>1, <2>2, <2>4, <2>5, <2>6 DEF Told
<1> QED BY <1>3, <1>4

\* A STOP_SENDING was sent by an application that has left.
LEMMA ApplyStopStep ==
  ASSUME IInv, NEW s \in Streams, ApplyStop(s)
  PROVE  IInv'
<1>1. Types /\ Loop /\ Told(s)
  BY Known
<1>2. cmd' \in Seq(Commands) /\ Elems(cmd') \subseteq Elems(cmd) /\ StopSending(s) \in Elems(cmd)
  <2>1. cmd \in Seq(Commands) /\ cmd # <<>> /\ cmd' = Tail(cmd) /\ Head(cmd) = StopSending(s)
    BY <1>1 DEF ApplyStop, Types, TypeMail
  <2> QED BY <2>1, ElemsTail
<1>3. recv' = recv \ {s} /\ TypeQueues'
  BY <1>1, DoneTypes DEF ApplyStop, Types, TypeLoop
<1>4. waker' \in [Streams -> SUBSET {"chan", "term"}] /\ woken' \in [Streams -> BOOLEAN]
  BY <1>1, WakeTypes DEF ApplyStop, Types, TypeFront
<1>5. UNCHANGED <<qsent, qnext, qend, received, qconn, cur, chunks, ret, chan, terminal, blocked,
                  resume, storebuf, cpc, delivered, seen, stop_sent, dropped>>
      /\ wpc = "apply" /\ wpc' = "apply" /\ Books
  BY DEF ApplyStop, Shutdown, flags
<1>6. TypeQuiche'
  BY <1>1 DEF ApplyStop, Shutdown, Types, TypeQuiche
<1>7. Types'
  BY <1>1, <1>2, <1>3, <1>4, <1>5, <1>6 DEF Types, TypeLoop, TypeCells, TypeMail, TypeFront, Books
<1>8. Loop'
  BY <1>5 DEF Loop, Busy
<1>9. terminal[s] # "none" \/ Left(s)
  BY <1>1, <1>2 DEF Told
<1>10. \A t \in Streams : Told(t)'
  BY <1>2, <1>3, <1>5, <1>9, GoneTold
<1> QED BY <1>7, <1>8, <1>10, Assemble

\* abandon_recv releases the entry of a dropped handle.
LEMMA AbandonStep ==
  ASSUME IInv, Abandon
  PROVE  IInv'
<1>1. Types /\ Loop
  BY Known
<1>2. cur \in Streams
  BY <1>1, CurIsStream DEF Abandon, Busy
<1>3. recv' = recv \ {cur} /\ TypeQueues'
  BY <1>1, <1>2, DoneTypes DEF Abandon, AbandonRecv, Types, TypeLoop
<1>4. /\ UNCHANGED <<qsent, qnext, qend, received, qconn, needs_iteration, read_budget, packet, left>>
      /\ UNCHANGED <<sharedVars, frontVars>> /\ wpc \in {"drain", "recheck"} /\ Return
      /\ dropped[cur]
  BY DEF Abandon, AbandonRecv, Shutdown
<1>5. TypeQuiche'
  BY <1>1, <1>2 DEF Abandon, AbandonRecv, Shutdown, Types, TypeQuiche
<1>6. TypeLoop'
  BY <1>1, <1>3, <1>4, BoundsAssumption DEF Types, TypeLoop, Return
<1>7. Types'
  BY <1>1, <1>3, <1>4, <1>5, <1>6 DEF Types, TypeCells, TypeMail, TypeFront, sharedVars, frontVars
<1>8. Loop'
  <2>1. wpc' \in {"resumed", "phase1"}
    BY <1>1, <1>4 DEF Return, Types, TypeLoop
  <2> QED BY <2>1 DEF Loop, Busy
<1>9. \A t \in Streams : Told(t)'
  <2>1. Left(cur)
    BY <1>4 DEF Left
  <2> QED BY <1>2, <1>3, <1>4, <2>1, GoneTold DEF sharedVars, frontVars
<1> QED BY <1>7, <1>8, <1>9, Assemble

\* mark_recv_done comes after the terminal, so the entry may go.
LEMMA SealStep ==
  ASSUME IInv, SealRecv
  PROVE  IInv'
<1>1. Types /\ Loop
  BY Known
<1>2. cur \in Streams /\ terminal[cur] # "none"
  BY <1>1, CurIsStream DEF SealRecv, Busy, Loop
<1>3. recv' = recv \ {cur} /\ TypeQueues'
  BY <1>1, <1>2, DoneTypes DEF SealRecv, Types, TypeLoop
<1>4. waker' \in [Streams -> SUBSET {"chan", "term"}] /\ woken' \in [Streams -> BOOLEAN]
  BY <1>1, <1>2, WakeTypes DEF SealRecv, Types, TypeFront
<1>5. /\ UNCHANGED <<quicheVars, needs_iteration, read_budget, packet, left, sharedVars>>
      /\ UNCHANGED <<cpc, delivered, seen, stop_sent, dropped>> /\ wpc = "seal" /\ Return
  BY DEF SealRecv
<1>6. TypeLoop'
  BY <1>1, <1>3, <1>5, BoundsAssumption DEF Types, TypeLoop, Return
<1>7. Types'
  BY <1>1, <1>3, <1>4, <1>5, <1>6
     DEF Types, TypeQuiche, TypeCells, TypeMail, TypeFront, sharedVars, quicheVars
<1>8. Loop'
  <2>1. wpc' \in {"resumed", "phase1"}
    BY <1>1, <1>5 DEF Return, Types, TypeLoop
  <2> QED BY <2>1 DEF Loop, Busy
<1>9. \A t \in Streams : Told(t)'
  BY <1>2, <1>3, <1>5, GoneTold DEF sharedVars, quicheVars
<1> QED BY <1>7, <1>8, <1>9, Assemble

\* The chunk that is sent is the next one, and no end was published before it.
LEMMA PushStep ==
  ASSUME IInv, Push
  PROVE  IInv'
<1>1. Types /\ Loop
  BY Known
<1>2. cur \in Streams /\ cur \in recv /\ Told(cur) /\ wpc = "read"
  BY <1>1, CurIsStream, Known DEF Push, Busy
<1>3. waker' \in [Streams -> SUBSET {"chan", "term"}] /\ woken' \in [Streams -> BOOLEAN]
  BY <1>1, <1>2, WakeTypes DEF Push, Types, TypeFront
<1>4. /\ qnext \in [Streams -> 1..MaxChunks + 1] /\ qsent \in [Streams -> 0..MaxChunks]
      /\ qnext[cur] <= qsent[cur] /\ qnext' = [qnext EXCEPT ![cur] = qnext[cur] + 1]
      /\ MaxChunks \in Nat
  BY <1>1, BoundsAssumption DEF Push, Types, TypeQuiche
<1>5. qnext[cur] \in Chunk /\ qnext' \in [Streams -> 1..MaxChunks + 1]
      /\ qnext'[cur] = qnext[cur] + 1 /\ \A t \in Streams : t # cur => qnext'[t] = qnext[t]
  <2>1. qnext[cur] \in 1..MaxChunks + 1 /\ qsent[cur] \in 0..MaxChunks
    BY <1>2, <1>4
  <2>2. qnext[cur] \in 1..MaxChunks /\ qnext[cur] + 1 \in 1..MaxChunks + 1
    BY <1>4, <2>1
  <2> QED BY <1>2, <1>4, <2>2 DEF Chunk
<1>6. /\ chan' \in [Streams -> Seq(Chunk)]
      /\ chan'[cur] = IF dropped[cur] THEN chan[cur] ELSE Append(chan[cur], qnext[cur])
      /\ \A t \in Streams : t # cur => chan'[t] = chan[t]
  <2>1. chan \in [Streams -> Seq(Chunk)] /\ chan[cur] \in Seq(Chunk)
    BY <1>1, <1>2 DEF Types, TypeCells
  <2>2. chan' = [chan EXCEPT ![cur] = IF dropped[cur] THEN chan[cur] ELSE Append(chan[cur], qnext[cur])]
    BY DEF Push, PermitSend
  <2>3. Append(chan[cur], qnext[cur]) \in Seq(Chunk)
    BY <1>5, <2>1, ElemsAppend
  <2>4. (IF dropped[cur] THEN chan[cur] ELSE Append(chan[cur], qnext[cur])) \in Seq(Chunk)
    BY <2>1, <2>3
  <2> QED BY <1>2, <2>1, <2>2, <2>4
<1>7. /\ UNCHANGED <<qsent, qend, qarmed, qshut, received, qconn, recv, queueVars,
                     terminal, flags, cmd, cpc, delivered, seen, stop_sent, dropped>>
      /\ Books
  BY DEF Push
<1>8. \/ wpc' = "drain" /\ chunks' \in 0..CHUNK_BUDGET /\ UNCHANGED <<cur, ret>>
      \/ /\ qnext[cur] = qsent[cur] /\ qend[cur] = "fin"
         /\ wpc' = "fin" /\ UNCHANGED <<chunks, cur, ret>>
      \/ wpc' = ret /\ chunks' = 0 /\ cur' = NoStream /\ ret' = "resumed"
  BY DEF Push, Return
<1>9. TypeLoop'
  BY <1>1, <1>7, <1>8, BoundsAssumption DEF Types, TypeLoop, Books
<1>10. TypeQuiche' /\ TypeQueues' /\ TypeMail'
  BY <1>1, <1>5, <1>7 DEF Types, TypeQuiche, TypeQueues, TypeMail, queueVars, flags
<1>11. TypeCells' /\ TypeFront'
  BY <1>1, <1>3, <1>6, <1>7 DEF Types, TypeCells, TypeFront, flags
<1>12. Loop'
  <2>1. CASE wpc' = "drain" /\ cur' = cur
    BY <1>2, <1>7, <2>1 DEF Loop, Busy
  <2>2. CASE qnext[cur] = qsent[cur] /\ qend[cur] = "fin" /\ wpc' = "fin" /\ cur' = cur
    BY <1>2, <1>5, <1>7, <2>2 DEF Loop, Busy
  <2>3. CASE wpc' = ret
    <3>1. wpc' \in {"resumed", "phase1"}
      BY <1>1, <2>3 DEF Types, TypeLoop
    <3> QED BY <3>1 DEF Loop, Busy
  <2> QED BY <1>8, <2>1, <2>2, <2>3
<1>13. ASSUME NEW t \in Streams PROVE Told(t)'
  <2>1. Told(t) /\ StopSending(t)' = StopSending(t)
    BY Known DEF StopSending
  <2>2. Closed(t) => Closed(t)'
    BY <1>2, <1>7 DEF Closed
  <2>3. CASE t # cur
    <3>1. Same(t)
      BY <1>5, <1>6, <1>7, <2>3 DEF Same
    <3> QED BY <1>7, <2>1, <2>2, <3>1, SameTold
  <2>4. CASE t = cur
    <3>1. ~Closed(cur)
      BY <1>2 DEF Closed
    <3>2. terminal[cur] = "none" /\ seen[cur] = "none" /\ cpc[cur] \notin {"closed", "recheck"}
      BY <1>2, <3>1 DEF Told
    <3>3. qnext'[cur] <= qsent'[cur] + 1
      BY <1>2, <1>4, <1>5, <1>7
    <3>4. ~dropped[cur] => Flow(delivered[cur], chan'[cur], qnext'[cur])
      <4> SUFFICES ASSUME ~dropped[cur] PROVE Flow(delivered[cur], chan'[cur], qnext'[cur])
        OBVIOUS
      <4>1. Flow(delivered[cur], chan[cur], qnext[cur])
        BY <1>2 DEF Told
      <4>2. delivered[cur] \in Seq(Nat) /\ chan[cur] \in Seq(Nat) /\ qnext[cur] \in Nat
        <5>1. delivered[cur] \in Seq(Chunk) /\ chan[cur] \in Seq(Chunk) /\ Chunk \subseteq Nat
          BY <1>1, <1>2 DEF Types, TypeCells, TypeFront, Chunk
        <5>2. qnext[cur] \in Nat
          BY <1>5, <5>1
        <5> QED BY <5>1, <5>2, Widen
      <4>3. Flow(delivered[cur], Append(chan[cur], qnext[cur]), qnext[cur] + 1)
        BY <4>1, <4>2, FlowPush
      <4> QED BY <1>5, <1>6, <4>3
    <3>5. Flow(delivered[cur], chan'[cur], qnext'[cur]) => Flow(delivered[t], chan[t], qnext[t])'
      BY <1>7, <2>4 DEF Flow
    <3>6. Left(t) <=> Left(t)'
      BY <1>7 DEF Left
    <3> QED
      BY <1>2, <1>7, <2>1, <2>4, <3>2, <3>3, <3>4, <3>5, <3>6 DEF Told
  <2> QED BY <2>3, <2>4
<1>14. Types'
  BY <1>9, <1>10, <1>11 DEF Types
<1> QED BY <1>12, <1>13, <1>14, Assemble

\* The terminal is published by a drain that has read all bytes.
LEMMA PublishStep ==
  ASSUME IInv, PublishTerminal
  PROVE  IInv'
<1>1. Types /\ Loop
  BY Known
<1>2. cur \in Streams /\ cur \in recv /\ Told(cur) /\ wpc = "fin" /\ wpc' = "seal" /\ cur' = cur
  BY <1>1, CurIsStream, Known DEF PublishTerminal, Busy
<1>3. waker' \in [Streams -> SUBSET {"chan", "term"}] /\ woken' \in [Streams -> BOOLEAN]
  BY <1>1, <1>2, WakeTypes DEF PublishTerminal, Types, TypeFront
<1>4. UNCHANGED <<quicheVars, recv, queueVars, needs_iteration, read_budget,
                 packet, left, cur, chunks, ret, chan, blocked, resume, cmd,
                 storebuf, cpc, delivered, seen, stop_sent, dropped>>
  BY DEF PublishTerminal
<1>5. terminal[cur] = "none"
  BY <1>2 DEF Told, Closed
<1>6. qend[cur] \in {"fin", "reset"} /\ (qend[cur] = "fin" => qnext[cur] = qsent[cur] + 1)
  BY <1>1, <1>2 DEF Loop
<1>7. /\ terminal' \in [Streams -> Ends] /\ terminal'[cur] = qend[cur]
      /\ \A t \in Streams : t # cur => terminal'[t] = terminal[t]
  <2>1. terminal \in [Streams -> Ends]
    BY <1>1 DEF Types, TypeCells
  <2>2. terminal' = [terminal EXCEPT ![cur] = qend[cur]]
    BY <1>5 DEF PublishTerminal, publish_recv_terminal
  <2> QED BY <1>2, <1>6, <2>1, <2>2 DEF Ends
<1>8. Types'
  <2>1. TypeQuiche'
    BY <1>1, <1>4 DEF Types, TypeQuiche, quicheVars
  <2>2. TypeQueues'
    BY <1>1, <1>4 DEF Types, TypeQueues, queueVars
  <2>3. TypeLoop'
    BY <1>1, <1>2, <1>4 DEF Types, TypeLoop
  <2>4. TypeCells'
    BY <1>1, <1>4, <1>7 DEF Types, TypeCells
  <2>5. TypeMail'
    BY <1>1, <1>4 DEF Types, TypeMail
  <2>6. TypeFront'
    BY <1>1, <1>3, <1>4 DEF Types, TypeFront
  <2> QED BY <2>1, <2>2, <2>3, <2>4, <2>5, <2>6 DEF Types
<1>9. Loop'
  BY <1>2, <1>4, <1>6, <1>7 DEF Loop, Busy
<1>10. ASSUME NEW t \in Streams PROVE Told(t)'
  <2>1. Told(t) /\ StopSending(t)' = StopSending(t)
    BY Known DEF StopSending
  <2>2. Closed(t) => Closed(t)'
    BY <1>2, <1>4 DEF Closed
  <2>3. CASE t # cur
    <3>1. Same(t)
      BY <1>4, <1>7, <2>3 DEF Same, quicheVars
    <3> QED BY <1>4, <2>1, <2>2, <3>1, SameTold DEF quicheVars
  <2>4. CASE t = cur
    <3>1. Closed(t)' /\ Ended(t, terminal[t])'
      BY <1>2, <1>4, <1>6, <1>7, <2>4 DEF Closed, Ended, quicheVars
    <3>2. terminal'[t] # "none"
      BY <1>6, <1>7, <2>4
    <3> QED BY <1>4, <2>1, <2>4, <3>1, <3>2, Zenon DEF Told, Ended, Left, Flow, quicheVars
  <2> QED BY <2>3, <2>4
<1> QED BY <1>8, <1>9, <1>10, Assemble

\* The Senders go after every registered cell has its terminal.
LEMMA CloseDropStep ==
  ASSUME IInv, CloseDrop
  PROVE  IInv'
<1>1. Types /\ Loop
  BY Known
<1>2. UNCHANGED <<qsent, qnext, qend, qarmed, qshut, received, queueVars, needs_iteration,
                 read_budget, packet, left, cur, chunks, ret, chan, terminal,
                 blocked, resume, storebuf, cpc, delivered, seen, stop_sent, dropped>>
  BY DEF CloseDrop
<1>3. wpc = "close" /\ wpc' = "exited" /\ qconn' = "closed" /\ cmd' = <<>> /\ recv' = {}
      /\ \A s \in recv : terminal[s] # "none"
  BY DEF CloseDrop
<1>4. woken' \in [Streams -> BOOLEAN]
  BY Zenon DEF CloseDrop
<1>5. waker' \in [Streams -> SUBSET {"chan", "term"}]
  <2>1. waker \in [Streams -> SUBSET {"chan", "term"}]
    BY <1>1 DEF Types, TypeFront
  <2>2. waker' = [s \in Streams |-> IF s \in recv THEN waker[s] \ {"chan"} ELSE waker[s]]
    BY DEF CloseDrop
  <2> QED BY <2>1, <2>2
<1>6. Types'
  <2>1. TypeQuiche' /\ TypeQueues'
    BY <1>1, <1>2, <1>3 DEF Types, TypeQuiche, TypeQueues, queueVars
  <2>2. TypeLoop'
    BY <1>1, <1>2, <1>3 DEF Types, TypeLoop
  <2>3. TypeCells' /\ TypeMail'
    BY <1>1, <1>2, <1>3 DEF Types, TypeCells, TypeMail
  <2>4. TypeFront'
    BY <1>1, <1>2, <1>4, <1>5 DEF Types, TypeFront
  <2> QED BY <2>1, <2>2, <2>3, <2>4 DEF Types
<1>7. Loop'
  BY <1>3 DEF Loop, Busy
<1>8. ASSUME NEW t \in Streams PROVE Told(t)'
  <2>1. Told(t) /\ Closed(t)'
    BY <1>3, Known DEF Closed
  <2>2. StopSending(t)' \notin Elems(cmd')
    BY <1>3 DEF Elems
  <2>3. terminal[t] # "none" \/ Left(t)
    BY <1>3, <2>1 DEF Told
  <2>4. /\ qsent' = qsent /\ qnext' = qnext /\ qend' = qend /\ recv' = {} /\ chan' = chan
        /\ terminal' = terminal /\ cpc' = cpc /\ delivered' = delivered /\ seen' = seen
        /\ stop_sent' = stop_sent /\ dropped' = dropped /\ qconn' = "closed"
    BY <1>2, <1>3
  <2>5. t \notin recv'
    BY <1>3
  <2>6. qconn' # "open"
    BY <1>3
  <2> QED BY <2>1, <2>2, <2>3, <2>4, <2>5, <2>6, Zenon DEF Told, Ended, Left, Flow
<1> QED BY <1>6, <1>7, <1>8, Assemble

\* A close that becomes known changes nothing yet.
LEMMA ClosingStep ==
  ASSUME IInv, ConnectionClosing
  PROVE  IInv'
<1>1. Types /\ Loop
  BY Known
<1>2. /\ UNCHANGED <<qsent, qnext, qend, qarmed, qshut, received, workerVars, sharedVars, frontVars>>
      /\ wpc = "wait" /\ qconn' = "closing"
  BY DEF ConnectionClosing
<1>3. Types'
  BY <1>1, <1>2 DEF Types, TypeQuiche, TypeQueues, TypeLoop, TypeCells, TypeMail, TypeFront,
     workerVars, loopVars, queueVars, sharedVars, frontVars
<1>4. Loop'
  BY <1>2 DEF Loop, Busy, workerVars, loopVars
<1>5. \A t \in Streams : Told(t)'
  <2>1. \A t \in Streams : Closed(t) => Closed(t)'
    BY <1>2 DEF Closed, workerVars, loopVars
  <2>2. UNCHANGED quiet /\ cmd' = cmd /\ qconn' # "open"
    BY <1>2 DEF quiet, workerVars, sharedVars
  <2> QED BY <2>1, <2>2, QuietTold
<1> QED BY <1>3, <1>4, <1>5, Assemble

\* on_conn_close publishes when no drain can follow.
LEMMA ClosePublishStep ==
  ASSUME IInv, NEW s \in Streams, ClosePublish(s)
  PROVE  IInv'
<1>1. Types /\ Loop
  BY Known
<1>2. /\ UNCHANGED <<quicheVars, workerVars, chan, blocked, resume, cmd, storebuf,
                     cpc, delivered, seen, stop_sent, dropped>>
      /\ wpc = "close" /\ wpc' = "close" /\ terminal[s] = "none" /\ qconn = "closing"
  BY <1>1 DEF ClosePublish, workerVars, loopVars, Loop
<1>3. waker' \in [Streams -> SUBSET {"chan", "term"}] /\ woken' \in [Streams -> BOOLEAN]
  BY <1>1, WakeTypes DEF ClosePublish, Types, TypeFront
<1>4. /\ terminal' \in [Streams -> Ends] /\ terminal'[s] = "conn"
      /\ \A t \in Streams : t # s => terminal'[t] = terminal[t]
  <2>1. terminal \in [Streams -> Ends]
    BY <1>1 DEF Types, TypeCells
  <2>2. terminal' = [terminal EXCEPT ![s] = "conn"]
    BY <1>2 DEF ClosePublish, publish_recv_terminal
  <2> QED BY <2>1, <2>2 DEF Ends
<1>5. Types'
  BY <1>1, <1>2, <1>3, <1>4 DEF Types, TypeQuiche, TypeQueues, TypeLoop, TypeCells, TypeMail,
     TypeFront, quicheVars, workerVars, loopVars, queueVars
<1>6. Loop'
  BY <1>2 DEF Loop, Busy, quicheVars
<1>7. ASSUME NEW t \in Streams PROVE Told(t)'
  <2>1. Told(t) /\ StopSending(t)' = StopSending(t) /\ Closed(t)'
    BY <1>2, Known DEF StopSending, Closed
  <2>2. CASE t # s
    <3>1. Same(t)
      BY <1>2, <1>4, <2>2 DEF Same, quicheVars, workerVars
    <3> QED BY <1>2, <2>1, <3>1, SameTold DEF quicheVars
  <2>3. CASE t = s
    <3>1. Ended(t, terminal[t])' /\ terminal'[t] # "none"
      BY <1>2, <1>4, <2>3 DEF Ended, quicheVars
    <3> QED BY <1>2, <2>1, <2>3, <3>1, Zenon
            DEF Told, Ended, Left, Flow, quicheVars, workerVars
  <2> QED BY <2>2, <2>3
<1> QED BY <1>5, <1>6, <1>7, Assemble

\* A frame extends the stream, or ends one that had no end.
LEMMA FrameStep ==
  ASSUME IInv, NEW s \in Streams, FrameChunk(s) \/ FrameEnd(s, "fin") \/ FrameEnd(s, "reset")
  PROVE  IInv'
<1>1. Types /\ Loop
  BY Known
<1>2. /\ UNCHANGED <<qnext, qshut, qconn, workerVars, sharedVars, frontVars>>
      /\ wpc = "wait" /\ qend[s] = "none" /\ received' = TRUE
      /\ qarmed' = [qarmed EXCEPT ![s] = ~qshut[s]]
  BY DEF FrameChunk, FrameEnd
<1>3. qarmed' \in [Streams -> BOOLEAN] /\ received' \in BOOLEAN
  <2>1. qarmed \in [Streams -> BOOLEAN] /\ (~qshut[s]) \in BOOLEAN
    BY <1>1, Zenon DEF Types, TypeQuiche
  <2> QED BY <1>2, <2>1, Zenon
<1>4. /\ qsent' \in [Streams -> 0..MaxChunks] /\ qsent'[s] >= qsent[s]
      /\ \A t \in Streams : t # s => qsent'[t] = qsent[t]
  <2>0. qsent \in [Streams -> 0..MaxChunks] /\ MaxChunks \in Nat
    BY <1>1, BoundsAssumption DEF Types, TypeQuiche
  <2>1. CASE FrameChunk(s)
    <3>1. qsent[s] + 1 \in 0..MaxChunks /\ qsent' = [qsent EXCEPT ![s] = qsent[s] + 1]
      BY <2>0, <2>1 DEF FrameChunk
    <3> QED BY <2>0, <3>1
  <2>2. CASE ~FrameChunk(s)
    <3>1. qsent' = qsent
      BY <2>2 DEF FrameEnd
    <3> QED BY <2>0, <3>1
  <2> QED BY <2>1, <2>2
<1>5. qend' \in [Streams -> {"none", "fin", "reset"}] /\ \A t \in Streams : t # s => qend'[t] = qend[t]
  BY <1>1 DEF FrameChunk, FrameEnd, Types, TypeQuiche
<1>6. Types'
  BY <1>1, <1>2, <1>3, <1>4, <1>5 DEF Types, TypeQuiche, TypeQueues, TypeLoop, TypeCells, TypeMail,
     TypeFront, workerVars, loopVars, queueVars, sharedVars, frontVars
<1>7. Loop'
  BY <1>2 DEF Loop, Busy, workerVars, loopVars
<1>8. ASSUME NEW t \in Streams PROVE Told(t)'
  <2>1. Told(t) /\ StopSending(t)' = StopSending(t)
    BY Known DEF StopSending
  <2>2. Closed(t) => Closed(t)'
    BY <1>2 DEF Closed, workerVars, loopVars
  <2>3. CASE t # s
    <3>1. Same(t)
      BY <1>2, <1>4, <1>5, <2>3 DEF Same, workerVars, sharedVars, frontVars
    <3> QED BY <1>2, <2>1, <2>2, <3>1, SameTold DEF sharedVars
  <2>4. CASE t = s
    <3>1. qnext'[t] <= qsent'[t] + 1
      <4>0. qnext' = qnext /\ qnext \in [Streams -> 1..MaxChunks + 1]
            /\ qsent \in [Streams -> 0..MaxChunks] /\ MaxChunks \in Nat
        BY <1>1, <1>2, BoundsAssumption DEF Types, TypeQuiche
      <4>1. qnext'[t] = qnext[t] /\ qnext[t] \in Int /\ qsent[t] \in Int /\ qsent'[t] \in Int
        BY <1>4, <4>0
      <4> QED BY <1>4, <2>1, <2>4, <4>1 DEF Told
    <3>2. terminal[t] \notin {"fin", "reset"} /\ seen[t] \notin {"fin", "reset"}
      BY <1>2, <2>1, <2>4 DEF Told, Ended
    <3>3. /\ Ended(t, terminal[t]) => Ended(t, terminal[t])'
          /\ Ended(t, seen[t]) => Ended(t, seen[t])'
      BY <1>2, <3>2 DEF Ended, sharedVars, frontVars
    <3>4. /\ recv' = recv /\ chan' = chan /\ terminal' = terminal /\ cpc' = cpc
          /\ delivered' = delivered /\ seen' = seen /\ stop_sent' = stop_sent
          /\ dropped' = dropped /\ cmd' = cmd /\ qnext' = qnext
      BY <1>2 DEF workerVars, sharedVars, frontVars
    <3> QED BY <2>1, <2>2, <3>1, <3>3, <3>4, Zenon DEF Told, Left, Flow
  <2> QED BY <2>3, <2>4
<1> QED BY <1>6, <1>7, <1>8, Assemble

\* Every step of Effects keeps the invariant.
LEMMA EffectsStep ==
  ASSUME IInv, Effects
  PROVE  IInv'
BY AbandonStep, PushStep, PublishStep, SealStep, CloseDropStep, ClosingStep, ApplyStopStep,
   ClosePublishStep, FrameStep DEF Effects

-----------------------------------------------------------------------------
(* The invariant: what the application does to a stream *)

\* A step of stream s on the application's side leaves the worker, the cells
\* and the other streams alone.
PollOf(s) ==
  /\ UNCHANGED <<quicheVars, workerVars, terminal, storebuf>>
  /\ \A t \in Streams : t # s =>
       /\ chan'[t] = chan[t] /\ cpc'[t] = cpc[t] /\ delivered'[t] = delivered[t]
       /\ seen'[t] = seen[t] /\ stop_sent'[t] = stop_sent[t] /\ dropped'[t] = dropped[t]
       /\ StopSending(t) \in Elems(cmd') => StopSending(t) \in Elems(cmd)

\* Such a step keeps the invariant when it keeps it for s.
LEMMA PollFrame ==
  ASSUME IInv, NEW s \in Streams, PollOf(s), TypeCells', TypeFront', cmd' \in Seq(Commands),
         Told(s)'
  PROVE  IInv'
<1>1. Types /\ Loop
  BY Known
<1>2. UNCHANGED <<quicheVars, workerVars, terminal, storebuf>>
  BY DEF PollOf
<1>3. Types'
  <2>1. TypeQuiche'
    BY <1>1, <1>2 DEF Types, TypeQuiche, quicheVars
  <2>2. TypeQueues'
    BY <1>1, <1>2 DEF Types, TypeQueues, workerVars, queueVars
  <2>3. TypeLoop'
    BY <1>1, <1>2 DEF Types, TypeLoop, workerVars, loopVars
  <2>4. TypeMail'
    BY <1>1, <1>2 DEF Types, TypeMail
  <2> QED BY <2>1, <2>2, <2>3, <2>4 DEF Types
<1>4. Loop'
  BY <1>1, <1>2 DEF Loop, Busy, quicheVars, workerVars, loopVars
<1>5. ASSUME NEW t \in Streams, t # s PROVE Told(t)'
  <2>1. Same(t)
    BY <1>2, <1>5 DEF PollOf, Same, quicheVars, workerVars
  <2>2. Closed(t) => Closed(t)'
    BY <1>2 DEF Closed, workerVars, loopVars
  <2>3. Told(t) /\ qconn' = qconn
    BY <1>2, Known DEF quicheVars
  <2> QED BY <1>5, <2>1, <2>2, <2>3, SameTold DEF PollOf
<1>6. \A t \in Streams : Told(t)'
  BY <1>5
<1> QED BY <1>3, <1>4, <1>6, Assemble

\* What the proofs of these steps know of stream s.
LEMMA PollKnown ==
  ASSUME IInv, NEW s \in Streams
  PROVE  /\ chan \in [Streams -> Seq(Chunk)] /\ delivered \in [Streams -> Seq(Chunk)]
         /\ chan[s] \in Seq(Chunk) /\ delivered[s] \in Seq(Chunk)
         /\ chan[s] \in Seq(Nat) /\ delivered[s] \in Seq(Nat)
         /\ qnext[s] \in Nat /\ qsent[s] \in Nat /\ cmd \in Seq(Commands)
         /\ TypeCells /\ TypeFront /\ Told(s)
<1>1. Types /\ Told(s)
  BY Known
<1>2. chan \in [Streams -> Seq(Chunk)] /\ delivered \in [Streams -> Seq(Chunk)] /\ Chunk \subseteq Nat
  BY <1>1 DEF Types, TypeCells, TypeFront, Chunk
<1>3. chan[s] \in Seq(Nat) /\ delivered[s] \in Seq(Nat)
  BY <1>2, Widen
<1>4. qnext[s] \in Nat /\ qsent[s] \in Nat
  <2>1. /\ qnext \in [Streams -> 1..MaxChunks + 1] /\ qsent \in [Streams -> 0..MaxChunks]
        /\ MaxChunks \in Nat
    BY <1>1, BoundsAssumption DEF Types, TypeQuiche
  <2> QED BY <2>1
<1> QED BY <1>1, <1>2, <1>3, <1>4 DEF Types, TypeMail

\* poll_data takes a chunk.
LEMMA TakeStep ==
  ASSUME IInv, NEW s \in Streams, Take(s)
  PROVE  IInv'
<1>1. /\ chan \in [Streams -> Seq(Chunk)] /\ delivered \in [Streams -> Seq(Chunk)]
      /\ chan[s] \in Seq(Chunk) /\ delivered[s] \in Seq(Chunk) /\ chan[s] # <<>>
      /\ TypeCells /\ TypeFront /\ Told(s) /\ cmd \in Seq(Commands)
  BY PollKnown DEF Take, TakeChunk
<1>2. /\ delivered' = [delivered EXCEPT ![s] = Append(delivered[s], Head(chan[s]))]
      /\ chan' = [chan EXCEPT ![s] = Tail(chan[s])] /\ cpc' = [cpc EXCEPT ![s] = "swap"]
      /\ UNCHANGED <<quicheVars, workerVars, terminal, blocked, resume, storebuf, cmd, waker,
                     seen, woken, stop_sent, dropped>>
      /\ cpc[s] \in {"poll", "recheck"}
  BY DEF Take, TakeChunk, flags
<1>3. Tail(chan[s]) \in Seq(Chunk) /\ Append(delivered[s], Head(chan[s])) \in Seq(Chunk)
  BY <1>1, Popped, ElemsAppend
<1>4. /\ delivered' \in [Streams -> Seq(Chunk)] /\ chan' \in [Streams -> Seq(Chunk)]
      /\ delivered'[s] = Append(delivered[s], Head(chan[s])) /\ chan'[s] = Tail(chan[s])
      /\ cpc'[s] = "swap"
  BY <1>1, <1>2, <1>3 DEF TypeFront
<1>5. TypeCells' /\ TypeFront'
  BY <1>1, <1>2, <1>4 DEF TypeCells, TypeFront
<1>6. PollOf(s)
  BY <1>1, <1>2 DEF PollOf, TypeFront
<1>7. Told(s)'
  <2>1. seen[s] = "none" /\ ~dropped[s]
    BY <1>1, <1>2 DEF Told
  <2>2. Flow(delivered[s], chan[s], qnext[s])
    BY <1>1, <2>1 DEF Told
  <2>3. Flow(delivered'[s], chan'[s], qnext[s])
    BY <1>1, <1>4, <2>2, FlowPop, PollKnown
  <2>4. qnext' = qnext /\ qsent' = qsent /\ qend' = qend /\ recv' = recv /\ wpc' = wpc
        /\ cur' = cur /\ qconn' = qconn
    BY <1>2 DEF quicheVars, workerVars, loopVars
  <2>5. Flow(delivered[s], chan[s], qnext[s])'
    BY <2>3, <2>4 DEF Flow
  <2>6. Left(s) => Left(s)'
    BY <1>1, <1>2 DEF Left
  <2>7. StopSending(s)' = StopSending(s)
    BY DEF StopSending
  <2> QED BY <1>1, <1>2, <1>4, <2>1, <2>4, <2>5, <2>6, <2>7 DEF Told, Closed, Ended
<1> QED BY <1>1, <1>2, <1>5, <1>6, <1>7, PollFrame

\* poll_data reports an end with the channel empty and closed for good.
LEMMA ResolveStep ==
  ASSUME IInv, NEW s \in Streams, NEW e \in Ends \cup {"internal"}, ResolveTo(s, e)
  PROVE  IInv'
<1>1. /\ TypeCells /\ TypeFront /\ Told(s) /\ cmd \in Seq(Commands)
      /\ chan[s] \in Seq(Nat) /\ delivered[s] \in Seq(Nat) /\ qnext[s] \in Nat
  BY PollKnown
<1>2. /\ seen' = [seen EXCEPT ![s] = e] /\ cpc' = [cpc EXCEPT ![s] = "idle"]
      /\ UNCHANGED <<quicheVars, workerVars, chan, terminal, blocked, resume, storebuf, cmd, waker,
                     delivered, woken, stop_sent, dropped>>
      /\ chan[s] = <<>> /\ cpc[s] \in {"closed", "recheck"}
  BY DEF ResolveTo, Resolve, flags
<1>3. TypeCells' /\ TypeFront' /\ seen'[s] = e /\ cpc'[s] = "idle"
  BY <1>1, <1>2 DEF TypeCells, TypeFront
<1>4. PollOf(s)
  BY <1>1, <1>2 DEF PollOf, TypeFront
<1>5. Told(s)'
  <2>1. Closed(s) /\ ~dropped[s] /\ (terminal[s] # "none" => e = terminal[s])
        /\ (terminal[s] = "none" => e = "internal" /\ cpc[s] = "closed")
    BY <1>1, <1>2 DEF ResolveTo, Told, Closed
  <2>2. Ended(s, e)
    BY <1>1, <2>1 DEF Told, Ended
  <2>3. e = "internal" => stop_sent[s]
    <3> SUFFICES ASSUME e = "internal" PROVE stop_sent[s]
      OBVIOUS
    <3>1. terminal[s] = "none"
      BY <1>1, <2>1 DEF TypeCells, Ends
    <3> QED BY <1>1, <2>1, <3>1 DEF Told, Left
  <2>4. Len(delivered[s]) = qnext[s] - 1
    <3>1. Flow(delivered[s], chan[s], qnext[s]) /\ Len(chan[s]) = 0
      BY <1>1, <1>2, <2>1 DEF Told
    <3> QED BY <1>1, <3>1 DEF Flow
  <2>5. qnext' = qnext /\ qsent' = qsent /\ qend' = qend /\ recv' = recv /\ wpc' = wpc
        /\ cur' = cur /\ qconn' = qconn
    BY <1>2 DEF quicheVars, workerVars, loopVars
  <2>6. Closed(s)' /\ Ended(s, seen[s])'
    BY <1>3, <2>1, <2>2, <2>5 DEF Closed, Ended
  <2>7. StopSending(s)' = StopSending(s) /\ (Left(s) => Left(s)')
        /\ (terminal[s] # "none" => Ended(s, terminal[s])')
    BY <1>1, <1>2, <2>5 DEF StopSending, Left, Told, Ended
  <2>8. Flow(delivered[s], chan[s], qnext[s]) => Flow(delivered[s], chan[s], qnext[s])'
    BY <1>2, <2>5 DEF Flow
  <2> QED
    BY <1>1, <1>2, <1>3, <2>1, <2>3, <2>4, <2>5, <2>6, <2>7, <2>8 DEF Told
<1> QED BY <1>1, <1>2, <1>3, <1>4, <1>5, PollFrame

\* The bytes, the end and the handle of s stay as they are.
LEMMA PollTold ==
  ASSUME IInv, NEW s \in Streams, PollOf(s),
         UNCHANGED <<chan, delivered, seen, dropped>>,
         stop_sent[s] => stop_sent'[s],
         cpc[s] = "dropping" => cpc'[s] = "dropping",
         seen[s] # "none" => cpc'[s] \in {"idle", "dropping"},
         dropped[s] => cpc'[s] = "idle",
         cpc'[s] = "closed" => s \notin recv /\ chan[s] = <<>>,
         cpc'[s] = "recheck" => terminal[s] # "none",
         StopSending(s) \in Elems(cmd') => StopSending(s) \in Elems(cmd) \/ Left(s)'
  PROVE  Told(s)'
<1>1. Told(s)
  BY Known
<1>2. qnext' = qnext /\ qsent' = qsent /\ qend' = qend /\ recv' = recv /\ wpc' = wpc
      /\ cur' = cur /\ qconn' = qconn /\ terminal' = terminal
  BY DEF PollOf, quicheVars, workerVars, loopVars
<1>3. Left(s) => Left(s)'
  BY DEF Left
<1>4. StopSending(s)' = StopSending(s)
  BY DEF StopSending
<1>5. (Closed(s) => Closed(s)') /\ (Ended(s, terminal[s]) => Ended(s, terminal[s])')
      /\ (Ended(s, seen[s]) => Ended(s, seen[s])')
  BY <1>2 DEF Closed, Ended
<1>6. Flow(delivered[s], chan[s], qnext[s]) => Flow(delivered[s], chan[s], qnext[s])'
  BY <1>2 DEF Flow
<1> QED BY <1>1, <1>2, <1>3, <1>4, <1>5, <1>6 DEF Told

\* poll_data goes from one look to the next.
LEMMA MoveStep ==
  ASSUME IInv, NEW s \in Streams, NEW c \in {"poll", "closed", "open", "recheck", "parked"},
         Move(s, c)
  PROVE  IInv'
<1>1. TypeCells /\ TypeFront /\ Told(s) /\ cmd \in Seq(Commands)
  BY PollKnown
<1>2. /\ cpc' = [cpc EXCEPT ![s] = c]
      /\ waker' \in [Streams -> SUBSET {"chan", "term"}] /\ woken' \in [Streams -> BOOLEAN]
      /\ UNCHANGED <<quicheVars, workerVars, chan, terminal, blocked, resume, cmd, storebuf,
                     delivered, seen, stop_sent, dropped>>
  BY DEF Move, sharedVars
<1>3. TypeCells' /\ TypeFront' /\ cpc'[s] = c
  BY <1>1, <1>2 DEF TypeCells, TypeFront
<1>4. PollOf(s)
  BY <1>1, <1>2 DEF PollOf, TypeFront
<1>5. /\ cpc[s] \in {"idle", "parked", "poll", "open"} /\ seen[s] = "none" /\ ~dropped[s]
      /\ c = "closed" => s \notin recv /\ chan[s] = <<>>
      /\ c = "recheck" => terminal[s] # "none"
  BY <1>1 DEF Move, Told
<1>6. Told(s)'
  BY <1>2, <1>3, <1>4, <1>5, PollTold
<1> QED BY <1>1, <1>2, <1>3, <1>4, <1>6, PollFrame

\* signal_resume delivers nothing.
LEMMA SignalStep ==
  ASSUME IInv, NEW s \in Streams, Swap(s) \/ Bit(s) \/ Nudge(s)
  PROVE  IInv'
<1>1. TypeCells /\ TypeFront /\ Told(s) /\ cmd \in Seq(Commands)
  BY PollKnown
<1>2. /\ UNCHANGED <<quicheVars, workerVars, chan, terminal, storebuf, waker, woken,
                     delivered, seen, stop_sent, dropped>>
      /\ cpc[s] \in {"swap", "resume", "send"}
  BY DEF Swap, Bit, Nudge, flags
<1>3. PICK c \in {"idle", "resume", "send"} : cpc' = [cpc EXCEPT ![s] = c]
  <2>1. CASE Swap(s)
    <3>1. CASE blocked[s]
      BY <2>1, <3>1 DEF Swap
    <3>2. CASE ~blocked[s]
      BY <2>1, <3>2 DEF Swap
    <3> QED BY <3>1, <3>2
  <2>2. CASE Bit(s)
    <3>1. CASE resume[s]
      BY <2>2, <3>1 DEF Bit
    <3>2. CASE ~resume[s]
      BY <2>2, <3>2 DEF Bit
    <3> QED BY <3>1, <3>2
  <2>3. CASE Nudge(s)
    BY <2>3 DEF Nudge
  <2> QED BY <2>1, <2>2, <2>3
<1>4. blocked' \in [Streams -> BOOLEAN] /\ resume' \in [Streams -> BOOLEAN]
  BY <1>1 DEF Swap, Bit, Nudge, flags, TypeCells
<1>5. TypeCells' /\ TypeFront' /\ cpc'[s] = c
  BY <1>1, <1>2, <1>3, <1>4 DEF TypeCells, TypeFront
<1>6. cmd' \in Seq(Commands) /\ \A t \in Streams : StopSending(t) \in Elems(cmd') => StopSending(t) \in Elems(cmd)
  <2>1. CASE cmd' = cmd
    BY <1>1, <2>1
  <2>2. CASE cmd' = Append(cmd, RecvResume(s))
    <3>1. RecvResume(s) \in Commands /\ \A t \in Streams : StopSending(t) # RecvResume(s)
      BY DEF RecvResume, StopSending, Commands
    <3>2. cmd' \in Seq(Commands) /\ Elems(cmd') = Elems(cmd) \cup {RecvResume(s)}
      BY <1>1, <2>2, <3>1, ElemsAppend
    <3> QED BY <3>1, <3>2
  <2>3. cmd' = cmd \/ cmd' = Append(cmd, RecvResume(s))
    BY DEF Swap, Bit, Nudge, SendCmd
  <2> QED BY <2>1, <2>2, <2>3
<1>7. PollOf(s)
  BY <1>1, <1>2, <1>3, <1>6 DEF PollOf, TypeFront
<1>8. seen[s] = "none" /\ ~dropped[s]
  BY <1>1, <1>2 DEF Told
<1>9. Told(s)'
  BY <1>2, <1>5, <1>6, <1>7, <1>8, PollTold
<1> QED BY <1>5, <1>6, <1>7, <1>9, PollFrame

\* stop_sending, and the first half of a drop: the command is sent by an
\* application that has left.
LEMMA LeaveStep ==
  ASSUME IInv, NEW s \in Streams, CallStopSending(s) \/ DropBegin(s)
  PROVE  IInv'
<1>1. TypeCells /\ TypeFront /\ Told(s) /\ cmd \in Seq(Commands)
  BY PollKnown
<1>2. /\ UNCHANGED <<quicheVars, workerVars, chan, terminal, blocked, resume, storebuf, waker, woken,
                     delivered, seen, dropped>>
      /\ cpc[s] \in {"idle", "parked"} /\ ~dropped[s]
  BY DEF CallStopSending, DropBegin, flags
<1>3. /\ cpc' \in [Streams -> {"idle", "poll", "swap", "resume", "send", "open",
                               "closed", "recheck", "parked", "dropping"}]
      /\ stop_sent' \in [Streams -> BOOLEAN]
      /\ \A t \in Streams : t # s => cpc'[t] = cpc[t] /\ stop_sent'[t] = stop_sent[t]
      /\ cpc'[s] \in {cpc[s], "dropping"} /\ (stop_sent[s] => stop_sent'[s])
      /\ Left(s)'
  <2>1. CASE CallStopSending(s)
    BY <1>1, <2>1 DEF CallStopSending, TypeFront, Left
  <2>2. CASE DropBegin(s)
    BY <1>1, <2>2 DEF DropBegin, TypeFront, Left
  <2> QED BY <2>1, <2>2
<1>4. cmd' \in Seq(Commands) /\ \A t \in Streams : t # s => (StopSending(t) \in Elems(cmd') => StopSending(t) \in Elems(cmd))
  <2>1. CASE cmd' = cmd
    BY <1>1, <2>1
  <2>2. CASE cmd' = Append(cmd, StopSending(s))
    <3>1. StopSending(s) \in Commands /\ \A t \in Streams : t # s => StopSending(t) # StopSending(s)
      BY DEF StopSending, Commands
    <3>2. cmd' \in Seq(Commands) /\ Elems(cmd') = Elems(cmd) \cup {StopSending(s)}
      BY <1>1, <2>2, <3>1, ElemsAppend
    <3> QED BY <3>1, <3>2
  <2>3. cmd' = cmd \/ cmd' = Append(cmd, StopSending(s))
    BY DEF CallStopSending, DropBegin, SendCmd
  <2> QED BY <2>1, <2>2, <2>3
<1>5. TypeCells' /\ TypeFront'
  BY <1>1, <1>2, <1>3 DEF TypeCells, TypeFront
<1>6. PollOf(s)
  BY <1>2, <1>3, <1>4 DEF PollOf
<1>7. seen[s] # "none" => cpc'[s] \in {"idle", "dropping"}
  BY <1>1, <1>2, <1>3 DEF Told
<1>8. Told(s)'
  BY <1>2, <1>3, <1>6, <1>7, PollTold
<1> QED BY <1>4, <1>5, <1>6, <1>8, PollFrame

\* The Receiver goes with what it held.
LEMMA DropEndStep ==
  ASSUME IInv, NEW s \in Streams, DropEnd(s)
  PROVE  IInv'
<1>1. TypeCells /\ TypeFront /\ Told(s) /\ cmd \in Seq(Commands)
  BY PollKnown
<1>2. /\ UNCHANGED <<quicheVars, workerVars, terminal, blocked, resume, storebuf, cmd, woken,
                     delivered, seen, stop_sent>>
      /\ cpc[s] = "dropping" /\ cpc' = [cpc EXCEPT ![s] = "idle"]
      /\ chan' = [chan EXCEPT ![s] = <<>>] /\ waker' = [waker EXCEPT ![s] = {}]
      /\ dropped' = [dropped EXCEPT ![s] = TRUE]
  BY DEF DropEnd, flags
<1>3. TypeCells' /\ TypeFront' /\ cpc'[s] = "idle" /\ chan'[s] = <<>> /\ dropped'[s] = TRUE
  BY <1>1, <1>2 DEF TypeCells, TypeFront
<1>4. PollOf(s)
  BY <1>1, <1>2 DEF PollOf, TypeFront, TypeCells
<1>5. Told(s)'
  <2>1. qnext' = qnext /\ qsent' = qsent /\ qend' = qend /\ recv' = recv /\ wpc' = wpc
        /\ cur' = cur /\ qconn' = qconn
    BY <1>2 DEF quicheVars, workerVars, loopVars
  <2>2. (Closed(s) => Closed(s)') /\ (Ended(s, terminal[s]) => Ended(s, terminal[s])')
        /\ (Ended(s, seen[s]) => Ended(s, seen[s])') /\ Left(s)'
    BY <1>2, <1>3, <2>1 DEF Closed, Ended, Left
  <2> QED BY <1>1, <1>2, <1>3, <2>1, <2>2 DEF Told
<1> QED BY <1>1, <1>2, <1>3, <1>4, <1>5, PollFrame

\* Every step of Polls keeps the invariant.
LEMMA PollsStep ==
  ASSUME IInv, Polls
  PROVE  IInv'
<1>1. PICK s \in Streams :
        \/ Take(s) \/ Swap(s) \/ Bit(s) \/ Nudge(s)
        \/ CallStopSending(s) \/ DropBegin(s) \/ DropEnd(s)
        \/ \E e \in Ends \cup {"internal"} : ResolveTo(s, e)
        \/ \E c \in {"poll", "closed", "open", "recheck", "parked"} : Move(s, c)
  BY DEF Polls
<1> QED BY <1>1, TakeStep, ResolveStep, MoveStep, SignalStep, LeaveStep, DropEndStep

-----------------------------------------------------------------------------
(* Delivery *)

\* At the start nothing has been sent, and every stream has its entry.
LEMMA InitInvariant == Init => IInv
<1> SUFFICES ASSUME Init PROVE IInv
  OBVIOUS
<1>1. Types
  <2>1. <<>> \in Seq(Streams) /\ <<>> \in Seq(Commands) /\ <<>> \in Seq(Chunk)
        /\ <<>> \in Seq({"blocked", "resume"} \X Streams \X BOOLEAN)
    OBVIOUS
  <2>2. 1 \in 1..MaxChunks + 1 /\ 0 \in 0..MaxChunks /\ READ_BUDGET \in 0..READ_BUDGET
        /\ 0 \in 0..CHUNK_BUDGET
    BY BoundsAssumption
  <2>3. TypeQuiche
    BY <2>2 DEF Init, TypeQuiche
  <2>4. TypeQueues /\ TypeLoop
    BY <2>1, <2>2 DEF Init, TypeQueues, TypeLoop
  <2>5. TypeCells /\ TypeMail /\ TypeFront
    BY <2>1 DEF Init, TypeCells, TypeMail, TypeFront, Ends
  <2> QED BY <2>3, <2>4, <2>5 DEF Types
<1>2. Loop
  BY DEF Init, Loop, Busy
<1>3. ASSUME NEW s \in Streams PROVE Told(s)
  <2>1. /\ qnext[s] = 1 /\ qsent[s] = 0 /\ delivered[s] = <<>> /\ chan[s] = <<>>
        /\ terminal[s] = "none" /\ cpc[s] = "idle" /\ seen[s] = "none" /\ ~dropped[s]
        /\ s \in recv /\ cmd = <<>>
    BY DEF Init
  <2>2. Flow(<<>>, <<>>, 1)
    BY DEF Flow
  <2>3. Elems(cmd) = {}
    BY <2>1 DEF Elems
  <2> QED BY <2>1, <2>2, <2>3 DEF Told
<1> QED BY <1>1, <1>2, <1>3, TypeParts DEF IInv

\* Every step keeps the invariant.
LEMMA StepInvariant == IInv /\ [Next]_vars => IInv'
<1> SUFFICES ASSUME IInv, [Next]_vars PROVE IInv'
  OBVIOUS
<1>1. CASE Next
  BY <1>1, StepCases, BookkeepingStep, EffectsStep, PollsStep
<1>2. CASE UNCHANGED vars
  <2>1. Types /\ Loop
    BY Known
  <2>2. UNCHANGED <<quicheVars, workerVars, sharedVars, frontVars>>
    BY <1>2 DEF vars
  <2>3. Types'
    <3>1. TypeQuiche'
      BY <2>1, <2>2 DEF Types, TypeQuiche, quicheVars
    <3>2. TypeQueues'
      BY <2>1, <2>2 DEF Types, TypeQueues, workerVars, queueVars
    <3>3. TypeLoop'
      BY <2>1, <2>2 DEF Types, TypeLoop, workerVars, loopVars
    <3>4. TypeCells'
      BY <2>1, <2>2 DEF Types, TypeCells, sharedVars
    <3>5. TypeMail'
      BY <2>1, <2>2 DEF Types, TypeMail, sharedVars
    <3>6. TypeFront'
      BY <2>1, <2>2 DEF Types, TypeFront, frontVars
    <3> QED BY <3>1, <3>2, <3>3, <3>4, <3>5, <3>6 DEF Types
  <2>4. Loop'
    BY <2>1, <2>2 DEF Loop, Busy, quicheVars, workerVars, loopVars, sharedVars
  <2>5. \A t \in Streams : Told(t)'
    <3>1. \A t \in Streams : Closed(t) => Closed(t)'
      BY <2>2 DEF Closed, workerVars, loopVars
    <3>2. UNCHANGED <<quiet, qconn, cmd>>
      BY <2>2 DEF quiet, quicheVars, workerVars, sharedVars
    <3> QED BY <3>1, <3>2, QuietTold
  <2> QED BY <2>3, <2>4, <2>5, Assemble
<1> QED BY <1>1, <1>2

\* The inductive invariant holds in every reachable state.
THEOREM Invariant == Spec => []IInv
BY InitInvariant, StepInvariant, PTL DEF Spec

\* The variables of the receive path keep their types; no budget goes negative.
THEOREM TypeCorrect == Spec => []TypeOK
<1>1. IInv => TypeOK
  BY DEF IInv
<1> QED BY <1>1, Invariant, PTL

\* In-order chunks, put together.
LEMMA FlowIsInterval ==
  ASSUME NEW d \in Seq(Nat), NEW c \in Seq(Nat), NEW n \in Nat \ {0}, Flow(d, c, n)
  PROVE  d \o c = Interval(n - 1)
<1>1. Len(d) \in Nat /\ Len(c) \in Nat /\ Len(d) + Len(c) = n - 1
  BY DEF Flow
<1>2. d \o c \in Seq(Nat) /\ Len(d \o c) = n - 1
  BY <1>1
<1>3. ASSUME NEW i \in 1..n - 1 PROVE (d \o c)[i] = i
  <2>1. CASE i <= Len(d)
    <3>1. i \in 1..Len(d) /\ (d \o c)[i] = d[i]
      BY <1>1, <2>1
    <3> QED BY <3>1 DEF Flow
  <2>2. CASE i > Len(d)
    <3>1. i - Len(d) \in 1..Len(c) /\ (d \o c)[i] = c[i - Len(d)]
      BY <1>1, <2>2
    <3>2. c[i - Len(d)] = Len(d) + (i - Len(d))
      BY <3>1 DEF Flow
    <3> QED BY <1>1, <3>1, <3>2
  <2> QED BY <1>1, <2>1, <2>2
<1>4. Interval(n - 1) \in Seq(Nat) /\ Len(Interval(n - 1)) = n - 1
      /\ \A i \in 1..n - 1 : Interval(n - 1)[i] = i
  BY DEF Interval
<1> HIDE DEF Interval
<1>5. \E e : e = d \o c
  OBVIOUS
<1>6. PICK e : e = d \o c
  BY <1>5
<1>7. PICK f : f = Interval(n - 1)
  OBVIOUS
<1>8. e = f
  BY <1>1, <1>2, <1>3, <1>4, <1>6, <1>7, SeqEqual
<1> QED BY <1>6, <1>7, <1>8

\* The channel, the parking and the resumes lose, repeat and reorder nothing,
\* and poll_data reports an end only behind the last chunk that was read, Fin
\* only behind the last chunk of the stream.
THEOREM NothingIsLost == Spec => []NothingLost
<1>1. IInv => NothingLost
  <2> SUFFICES ASSUME IInv, NEW s \in Streams
               PROVE  /\ ~dropped[s] => delivered[s] \o chan[s] = Interval(qnext[s] - 1)
                      /\ seen[s] # "none" => Len(delivered[s]) = qnext[s] - 1
                      /\ seen[s] = "fin" => qend[s] = "fin" /\ Len(delivered[s]) = qsent[s]
    BY DEF NothingLost
  <2>1. /\ Told(s) /\ delivered[s] \in Seq(Nat) /\ chan[s] \in Seq(Nat) /\ qnext[s] \in Nat
        /\ qsent[s] \in Nat
    BY PollKnown
  <2>2. qnext[s] # 0
    BY Known DEF Types, TypeQuiche
  <2>3. ~dropped[s] => delivered[s] \o chan[s] = Interval(qnext[s] - 1)
    BY <2>1, <2>2, FlowIsInterval DEF Told
  <2>4. seen[s] # "none" => Len(delivered[s]) = qnext[s] - 1
    BY <2>1 DEF Told
  <2>5. seen[s] = "fin" => qend[s] = "fin" /\ qnext[s] = qsent[s] + 1
    BY <2>1 DEF Told, Ended
  <2>6. seen[s] = "fin" => qend[s] = "fin" /\ Len(delivered[s]) = qsent[s]
    BY <2>1, <2>4, <2>5
  <2> QED BY <2>3, <2>4, <2>6
<1> QED BY <1>1, Invariant, PTL

-----------------------------------------------------------------------------
(* Refinement of ByteStream *)

\* Bookkeeping, the worker's work on a channel and the moves between two
\* results of poll_data are invisible.
Stutters == UNCHANGED <<qsent, qend, qconn, stop_sent, delivered, seen>>

\* What stutters here stutters in ByteStream.
LEMMA StuttersInside == Stutters => UNCHANGED BS!vars
BY DEF Stutters, BS!vars

\* The bookkeeping of the worker is invisible to h3.
LEMMA BookkeepingStutters ==
  ASSUME Bookkeeping
  PROVE  Stutters
<1>1. ASSUME UNCHANGED quiet, qconn' = qconn PROVE Stutters
  BY <1>1 DEF Stutters, quiet, frontVars
<1>2. CASE Advance \/ Room \/ Full \/ ReachEnd \/ Leave
  BY <1>1, <1>2 DEF Advance, Room, Full, ReachEnd, Leave
<1>3. ASSUME NEW s \in Streams, ApplyResume(s) \/ IntakeOne(s) \/ PopResume(s) \/ PopReadable(s)
      PROVE  Stutters
  BY <1>1, <1>3 DEF ApplyResume, IntakeOne, PopResume, PopReadable
<1>4. ASSUME NEW s \in Streams, NEW v \in BOOLEAN, FlushBlocked(s, v) \/ FlushResume(s, v)
      PROVE  Stutters
  BY <1>4 DEF FlushBlocked, FlushResume, Stutters, quicheVars, frontVars
<1> QED BY <1>2, <1>3, <1>4 DEF Bookkeeping

\* The network and the close are steps of ByteStream, the rest stutters.
LEMMA EffectsRefine ==
  ASSUME IInv, Effects
  PROVE  [BS!Next]_(BS!vars)
<1>1. CASE Abandon
  BY <1>1, StuttersInside DEF Abandon, AbandonRecv, Shutdown, frontVars, Stutters
<1>2. CASE Push
  BY <1>2, StuttersInside DEF Push, Stutters
<1>3. CASE PublishTerminal
  BY <1>3, StuttersInside DEF PublishTerminal, Stutters, quicheVars
<1>4. CASE SealRecv
  BY <1>4, StuttersInside DEF SealRecv, Stutters, quicheVars
<1>5. CASE CloseDrop
  <2>1. qconn = "closing" /\ qconn' = "closed"
    BY <1>5, Known DEF CloseDrop, Loop
  <2>2. UNCHANGED <<qsent, qend, stop_sent, delivered, seen>>
    BY <1>5 DEF CloseDrop
  <2>3. (qconn # "open")' = (qconn # "open")
    BY <2>1
  <2>4. UNCHANGED BS!vars
    BY <2>2, <2>3 DEF BS!vars
  <2> QED BY <2>4
<1>6. CASE ConnectionClosing
  <2>1. qconn' = "closing" /\ UNCHANGED <<qsent, qend, stop_sent, delivered, seen>>
    BY <1>6 DEF ConnectionClosing, frontVars
  <2>2. (qconn # "open")' = TRUE
    BY <2>1
  <2>3. BS!Close
    BY <2>1, <2>2 DEF BS!Close
  <2> QED BY <2>3 DEF BS!Next
<1>7. ASSUME NEW s \in Streams, ApplyStop(s) PROVE UNCHANGED BS!vars
  BY <1>7, StuttersInside DEF ApplyStop, Shutdown, Stutters
<1>8. ASSUME NEW s \in Streams, ClosePublish(s) PROVE UNCHANGED BS!vars
  BY <1>8, StuttersInside DEF ClosePublish, Stutters, quicheVars
<1>9. ASSUME NEW s \in Streams, FrameChunk(s) PROVE BS!Next
  <2>1. qend[s] = "none" /\ qsent' = [qsent EXCEPT ![s] = @ + 1]
        /\ UNCHANGED <<qend, qconn, stop_sent, delivered, seen>>
    BY <1>9 DEF FrameChunk, frontVars
  <2>2. BS!Arrive(s)
    BY <2>1 DEF BS!Arrive
  <2> QED BY <2>2 DEF BS!Next
<1>10. ASSUME NEW s \in Streams, NEW e \in {"fin", "reset"}, FrameEnd(s, e) PROVE BS!Next
  <2>1. qend[s] = "none" /\ qend' = [qend EXCEPT ![s] = e]
        /\ UNCHANGED <<qsent, qconn, stop_sent, delivered, seen>>
    BY <1>10 DEF FrameEnd, frontVars
  <2>2. BS!Arrive(s)
    BY <2>1 DEF BS!Arrive
  <2> QED BY <2>2 DEF BS!Next
<1> QED BY <1>1, <1>2, <1>3, <1>4, <1>5, <1>6, <1>7, <1>8, <1>9, <1>10 DEF Effects

\* The polls are steps of ByteStream.
LEMMA PollsRefine ==
  ASSUME IInv, Polls
  PROVE  [BS!Next]_(BS!vars)
<1>1. ASSUME NEW s \in Streams, Take(s) PROVE BS!Next
  <2>1. /\ chan[s] \in Seq(Nat) /\ delivered[s] \in Seq(Nat) /\ qnext[s] \in Nat /\ qsent[s] \in Nat
        /\ Told(s) /\ chan[s] # <<>> /\ cpc[s] \in {"poll", "recheck"}
    BY <1>1, PollKnown DEF Take, TakeChunk
  <2>2. /\ delivered' = [delivered EXCEPT ![s] = Append(@, Head(chan[s]))]
        /\ UNCHANGED <<qsent, qend, qconn, stop_sent, seen>>
    BY <1>1 DEF Take, TakeChunk, quicheVars
  <2>3. seen[s] = "none" /\ ~dropped[s] /\ Flow(delivered[s], chan[s], qnext[s])
        /\ qnext[s] <= qsent[s] + 1
    BY <2>1 DEF Told
  <2>4. Head(chan[s]) = Len(delivered[s]) + 1
    BY <2>1, <2>3, FlowPop
  <2>5. Len(delivered[s]) < qsent[s]
    <3>1. Len(chan[s]) \in Nat \ {0} /\ Len(delivered[s]) \in Nat
      BY <2>1
    <3>2. Len(delivered[s]) + Len(chan[s]) = qnext[s] - 1
      BY <2>3 DEF Flow
    <3>3. qnext[s] \in Nat /\ qsent[s] \in Nat /\ qnext[s] <= qsent[s] + 1
      BY <2>1, <2>3
    <3>4. \A a, b, n, m \in Nat : b # 0 /\ a + b = n - 1 /\ n <= m + 1 => a < m
      OBVIOUS
    <3>5. Len(chan[s]) \in Nat /\ Len(chan[s]) # 0
      BY <3>1
    <3> QED BY <3>1, <3>2, <3>3, <3>4, <3>5, Zenon
  <2>6. delivered' = [delivered EXCEPT ![s] = Append(@, Len(@) + 1)]
    BY <2>2, <2>4
  <2>7. BS!Deliver(s)
    BY <2>2, <2>3, <2>5, <2>6 DEF BS!Deliver
  <2> QED BY <2>7 DEF BS!Next
<1>2. ASSUME NEW s \in Streams, NEW e \in Ends \cup {"internal"}, ResolveTo(s, e)
      PROVE  BS!Next
  <2>1. /\ seen' = [seen EXCEPT ![s] = e] /\ UNCHANGED <<qsent, qend, qconn, stop_sent, delivered>>
        /\ cpc[s] \in {"closed", "recheck"}
    BY <1>2 DEF ResolveTo, Resolve, quicheVars
  <2>2. IInv' /\ Told(s) /\ Types
    BY <1>2, ResolveStep, Known
  <2>3. Told(s)'
    BY <2>2 DEF IInv
  <2>4. seen'[s] = e /\ seen[s] = "none"
    BY <2>1, <2>2 DEF Told, Types, TypeFront
  <2>5. e # "none"
    BY <1>2, <2>2 DEF ResolveTo, Told
  <2>6. /\ e = "fin" => qend[s] = "fin" /\ Len(delivered[s]) = qsent[s]
        /\ e = "reset" => qend[s] = "reset"
        /\ e = "conn" => qconn # "open"
        /\ e = "internal" => stop_sent[s]
    <3>1. /\ e = "reset" => qend[s] = "reset"
          /\ e = "conn" => qconn # "open"
          /\ e = "internal" => stop_sent[s]
      BY <2>1, <2>3, <2>4 DEF Told, Ended
    <3>2. ASSUME e = "fin" PROVE qend[s] = "fin" /\ Len(delivered[s]) = qsent[s]
      <4>1. qend[s] = "fin" /\ qnext'[s] = qsent[s] + 1 /\ Len(delivered[s]) = qnext'[s] - 1
        BY <2>1, <2>3, <2>4, <3>2 DEF Told, Ended
      <4>2. qsent[s] \in Nat
        BY PollKnown
      <4> QED BY <4>1, <4>2
    <3> QED BY <3>1, <3>2
  <2>7. BS!End(s)
    <3>1. CASE e = "fin"
      BY <2>1, <2>4, <2>6, <3>1 DEF BS!End
    <3>2. CASE e = "reset"
      BY <2>1, <2>4, <2>6, <3>2 DEF BS!End
    <3>3. CASE e = "conn"
      BY <2>1, <2>4, <2>6, <3>3 DEF BS!End
    <3>4. CASE e = "internal"
      BY <2>1, <2>4, <2>6, <3>4 DEF BS!End
    <3> QED BY <2>5, <3>1, <3>2, <3>3, <3>4 DEF Ends
  <2> QED BY <2>7 DEF BS!Next
<1>3. ASSUME NEW s \in Streams, CallStopSending(s) PROVE BS!Next
  <2>1. /\ stop_sent' = [stop_sent EXCEPT ![s] = TRUE]
        /\ UNCHANGED <<qsent, qend, qconn, delivered, seen>>
    BY <1>3 DEF CallStopSending, quicheVars
  <2>2. BS!Stop(s)
    BY <2>1 DEF BS!Stop
  <2> QED BY <2>2 DEF BS!Next
<1>4. ASSUME NEW s \in Streams, Swap(s) \/ Bit(s) \/ Nudge(s) \/ DropBegin(s) \/ DropEnd(s)
      PROVE  UNCHANGED BS!vars
  BY <1>4, StuttersInside DEF Swap, Bit, Nudge, DropBegin, DropEnd, Stutters, quicheVars
<1>5. ASSUME NEW s \in Streams, NEW c, Move(s, c) PROVE UNCHANGED BS!vars
  BY <1>5, StuttersInside DEF Move, Stutters, quicheVars
<1>6. PICK s \in Streams :
        \/ Take(s) \/ Swap(s) \/ Bit(s) \/ Nudge(s)
        \/ CallStopSending(s) \/ DropBegin(s) \/ DropEnd(s)
        \/ \E e \in Ends \cup {"internal"} : ResolveTo(s, e)
        \/ \E c \in {"poll", "closed", "open", "recheck", "parked"} : Move(s, c)
  BY DEF Polls
<1> QED BY <1>1, <1>2, <1>3, <1>4, <1>5, <1>6

\* The receive path, with its channel, cursors, parking and out-of-band cells,
\* implements the byte stream: chunks in order and without gaps, Fin behind the
\* last of them, a reset or a connection error only for cause, the internal
\* error only for an application that called stop_sending.
THEOREM ReceivePathIsByteStream == Spec => RefinesByteStream
<1>1. Init => BS!Init
  <2> SUFFICES ASSUME Init PROVE BS!Init
    OBVIOUS
  <2>1. (qconn # "open") = FALSE
    BY DEF Init
  <2> QED BY <2>1 DEF Init, BS!Init
<1>2. IInv /\ [Next]_vars => [BS!Next]_(BS!vars)
  <2> SUFFICES ASSUME IInv, [Next]_vars PROVE [BS!Next]_(BS!vars)
    OBVIOUS
  <2>1. CASE Next
    <3>1. CASE Bookkeeping
      BY <3>1, BookkeepingStutters, StuttersInside
    <3>2. CASE Effects
      BY <3>2, EffectsRefine
    <3>3. CASE Polls
      BY <3>3, PollsRefine
    <3> QED BY <2>1, <3>1, <3>2, <3>3, StepCases
  <2>2. CASE UNCHANGED vars
    <3>1. Stutters
      BY <2>2 DEF vars, quicheVars, frontVars, Stutters
    <3> QED BY <3>1, StuttersInside
  <2> QED BY <2>1, <2>2
<1> QED BY <1>1, <1>2, Invariant, PTL DEF Spec, RefinesByteStream, BS!Spec

-----------------------------------------------------------------------------
(* Parking: what a step has to keep *)

\* Forgotten, in the words of this module.
LEMMA ForgottenForm ==
  ASSUME NEW t \in Streams
  PROVE  Forgotten(t) <=>
           /\ qconn = "open" /\ t \in recv /\ ~dropped[t] /\ stream_readable(t)
           /\ ~qarmed[t] /\ ~Draining(t) /\ ~Resuming(t) /\ ~Stopping(t) /\ ~InReadable(t)
BY DEF Forgotten, Resuming, Stopping, InReadable

\* The same after a step.
LEMMA ForgottenFormPrime ==
  ASSUME NEW t \in Streams
  PROVE  Forgotten(t)' <=>
           /\ qconn' = "open" /\ t \in recv' /\ ~dropped'[t] /\ stream_readable(t)'
           /\ ~qarmed'[t] /\ ~Draining(t)' /\ ~Resuming(t)' /\ ~Stopping(t)' /\ ~InReadable(t)'
BY DEF Forgotten, Resuming, Stopping, InReadable

\* A step that has nothing to do with the resume of t.
LEMMA RequestedKept ==
  ASSUME NEW t \in Streams, Requested(t),
         resume'[t] = resume[t], t \in recv' => t \in recv, qconn' = "open" => qconn = "open",
         cpc[t] = "send" => cpc'[t] = "send",
         Resuming(t) => Resuming(t)',
         Clearing(t) => Clearing(t)'
  PROVE  Requested(t)'
BY Zenon DEF Requested

\* A step that forgets nothing leaves what is parked behind its flag.
LEMMA ParkedKept ==
  ASSUME NEW o, NEW t \in Streams, Parked(o, t),
         blocked'[t] = blocked[t], chan'[t] = chan[t], cpc'[t] = cpc[t],
         Promised(t) => Promised(t)', Forgotten(t)' => Forgotten(t)
  PROVE  Parked(o, t)'
BY DEF Parked

\* A step that leaves quiche, the queues and the flags of t alone.
LEMMA ForgottenKept ==
  ASSUME NEW t \in Streams,
         qconn' = "open" => qconn = "open", t \in recv' => t \in recv, dropped'[t] = dropped[t],
         qnext'[t] = qnext[t], qsent'[t] = qsent[t], qend'[t] = qend[t],
         qshut[t] => qshut'[t],
         qarmed[t] => qarmed'[t] \/ InReadable(t)' \/ t \notin recv',
         Draining(t) => Draining(t)',
         Resuming(t) => Resuming(t)', Stopping(t) => Stopping(t)', InReadable(t) => InReadable(t)'
  PROVE  Forgotten(t)' => Forgotten(t)
<1>1. stream_readable(t)' => stream_readable(t)
  BY DEF stream_readable
<1> QED BY <1>1, ForgottenForm, ForgottenFormPrime, Zenon

\* What pushes and pops do to the commands and cursors of a stream.
LEMMA MailKept ==
  ASSUME NEW t \in Streams
  PROVE  /\ Elems(cmd) \subseteq Elems(cmd') => (Stopping(t) => Stopping(t)')
         /\ Elems(cmd) \subseteq Elems(cmd')
              /\ (t \in Elems(pending_resume) => t \in Elems(pending_resume'))
              => (Resuming(t) => Resuming(t)')
         /\ (t \in Elems(pending_readable) => t \in Elems(pending_readable'))
              => (InReadable(t) => InReadable(t)')
<1>1. StopSending(t)' = StopSending(t) /\ RecvResume(t)' = RecvResume(t)
  BY DEF StopSending, RecvResume
<1> QED BY <1>1, Zenon DEF Resuming, Stopping, InReadable

\* The six contents of the store buffer, and which stream they belong to.
LEMMA Shapes ==
  ASSUME NEW s, NEW t
  PROVE  /\ ~Clears(<<>>, t) /\ ~Promises(<<>>, t)
         /\ ~Clears(ClearFlag(s), t) /\ ~Promises(ClearFlag(s), t)
         /\ Clears(ClearBoth(s), t) <=> t = s
         /\ ~Promises(ClearBoth(s), t)
         /\ Clears(ClearBothSet(s), t) <=> t = s
         /\ Promises(ClearBothSet(s), t) <=> t = s
         /\ ~Clears(ClearFlagSet(s), t)
         /\ Promises(ClearFlagSet(s), t) <=> t = s
         /\ ~Clears(SetFlag(s), t) /\ (Promises(SetFlag(s), t) <=> t = s)
         /\ <<>> \notin {ClearBoth(s), ClearFlag(s), ClearBothSet(s), ClearFlagSet(s), SetFlag(s)}
<1>1. /\ Unset(s) # Unblock(t) /\ Unset(s) # Block(t) /\ Unblock(s) # Block(t)
      /\ Unblock(s) # Unset(t) /\ Block(s) # Unset(t) /\ Block(s) # Unblock(t)
      /\ Unset(s) = Unset(t) <=> s = t
      /\ Unblock(s) = Unblock(t) <=> s = t
      /\ Block(s) = Block(t) <=> s = t
  BY DEF Unset, Unblock, Block
<1>2. /\ \A x : Len(<<x>>) = 1 /\ <<x>>[1] = x
      /\ \A x, y : Len(<<x, y>>) = 2 /\ <<x, y>>[1] = x
      /\ \A x, y, z : Len(<<x, y, z>>) = 3 /\ <<x, y, z>>[1] = x
      /\ Len(<<>>) = 0
  OBVIOUS
<1>3. ASSUME NEW x
      PROVE  /\ Len(ClearBoth(x)) = 2 /\ ClearBoth(x)[1] = Unset(x)
             /\ Len(ClearFlag(x)) = 1 /\ ClearFlag(x)[1] = Unblock(x)
             /\ Len(ClearBothSet(x)) = 3 /\ ClearBothSet(x)[1] = Unset(x)
             /\ Len(ClearFlagSet(x)) = 2 /\ ClearFlagSet(x)[1] = Unblock(x)
             /\ Len(SetFlag(x)) = 1 /\ SetFlag(x)[1] = Block(x)
  BY <1>2 DEF ClearBoth, ClearFlag, ClearBothSet, ClearFlagSet, SetFlag
<1>4. Len(<<>>) = 0
  OBVIOUS
<1>5. <<>> \notin {ClearBoth(s), ClearFlag(s), ClearBothSet(s), ClearFlagSet(s), SetFlag(s)}
  BY <1>3, <1>4
<1>6. ~Clears(<<>>, t) /\ ~Promises(<<>>, t)
  BY <1>3, <1>4 DEF Clears, Promises
<1>7. ~Clears(ClearFlag(s), t) /\ ~Promises(ClearFlag(s), t)
  BY <1>1, <1>3 DEF Clears, Promises
<1>8. (Clears(ClearBoth(s), t) <=> t = s) /\ ~Promises(ClearBoth(s), t)
  BY <1>1, <1>3 DEF Clears, Promises
<1>9. (Clears(ClearBothSet(s), t) <=> t = s) /\ (Promises(ClearBothSet(s), t) <=> t = s)
  BY <1>1, <1>3 DEF Clears, Promises
<1>10. ~Clears(ClearFlagSet(s), t) /\ (Promises(ClearFlagSet(s), t) <=> t = s)
  BY <1>1, <1>3 DEF Clears, Promises
<1>11. ~Clears(SetFlag(s), t) /\ (Promises(SetFlag(s), t) <=> t = s)
  BY <1>1, <1>3 DEF Clears, Promises
<1> QED BY <1>5, <1>6, <1>7, <1>8, <1>9, <1>10, <1>11

\* An empty store buffer.
LEMMA NoStores ==
  ASSUME storebuf = <<>>, NEW t
  PROVE  ~Clearing(t) /\ ~Promised(t)
BY Shapes DEF Clearing, Promised

\* A step that leaves the store buffer alone.
LEMMA SameStores ==
  ASSUME storebuf' = storebuf, NEW t
  PROVE  (Clearing(t)' <=> Clearing(t)) /\ (Promised(t)' <=> Promised(t))
BY DEF Clearing, Promised

\* The parts of ParkInv, for use and for assembly.
LEMMA ParkKnown ==
  ASSUME NEW o, ParkInv(o), NEW t \in Streams
  PROVE  Buffered(o) /\ Fits /\ Offered /\ Requested(t) /\ Parked(o, t)
BY DEF ParkInv

\* The parts of ParkInv, put together after a step.
LEMMA ParkAssemble ==
  ASSUME NEW o, Buffered(o)', Fits', Offered', \A t \in Streams : Requested(t)' /\ Parked(o, t)'
  PROVE  ParkInv(o)'
BY DEF ParkInv

-----------------------------------------------------------------------------
(* Parking: the worker *)

\* Between the stages there is no drain and nothing in the store buffer.
LEMMA StagePark ==
  ASSUME IInv, NEW o, ParkInv(o), wpc \in Stages, Visible, wpc' \in Stages \cup {"close"},
         UNCHANGED <<storebuf, blocked, resume, cpc, dropped, qconn, qshut, qsent, qnext, qend, chan>>,
         recv' \subseteq recv,
         \A t \in Streams : t \in recv' =>
           /\ Resuming(t) => Resuming(t)'
           /\ Stopping(t) => Stopping(t)'
           /\ InReadable(t) => InReadable(t)'
           /\ qarmed[t] => qarmed'[t] \/ InReadable(t)'
  PROVE  ParkInv(o)'
<1> USE DEF Stages
<1>1. Buffered(o)' /\ Offered'
  BY DEF Visible, Buffered, Offered
<1>2. Fits'
  BY DEF ParkInv, Fits
<1>3. ASSUME NEW t \in Streams PROVE Requested(t)' /\ Parked(o, t)'
  <2>1. Requested(t) /\ Parked(o, t)
    BY ParkKnown
  <2>2. CASE t \in recv'
    <3>1. ~Draining(t)
      BY DEF Draining
    <3>2. Forgotten(t)' => Forgotten(t)
      BY <2>2, <3>1, ForgottenKept
    <3>4. (Clearing(t)' <=> Clearing(t)) /\ (Promised(t)' <=> Promised(t))
      BY SameStores
    <3>3. Parked(o, t)'
      BY <2>1, <3>2, <3>4, ParkedKept
    <3>5. Requested(t)'
      BY <2>1, <2>2, <3>4, RequestedKept
    <3> QED BY <3>3, <3>5
  <2>3. CASE t \notin recv'
    BY <2>3, ForgottenFormPrime DEF Requested, Parked
  <2> QED BY <2>2, <2>3
<1> QED BY <1>1, <1>2, <1>3, ParkAssemble

\* From stage to stage nothing is taken off a queue.
LEMMA AdvancePark ==
  ASSUME IInv, NEW o, ParkInv(o), Advance
  PROVE  ParkInv(o)'
<1>1. /\ wpc \in Stages /\ Visible /\ wpc' \in Stages \cup {"close"}
      /\ UNCHANGED <<storebuf, blocked, resume, cpc, dropped, qconn, qshut, qsent, qnext, qend,
                     chan, recv, qarmed, cmd, pending_readable, pending_resume>>
  BY DEF Advance, quiet, frontVars, flags, queueVars
<1>2. \A t \in Streams : /\ Resuming(t) => Resuming(t)'
                         /\ Stopping(t) => Stopping(t)'
                         /\ InReadable(t) => InReadable(t)'
  BY <1>1, MailKept
<1> QED BY <1>1, <1>2, StagePark

\* The command becomes an entry of the resume cursor.
LEMMA ApplyResumePark ==
  ASSUME IInv, NEW o, ParkInv(o), NEW s \in Streams, ApplyResume(s)
  PROVE  ParkInv(o)'
<1>1. /\ wpc \in Stages /\ Visible /\ wpc' \in Stages \cup {"close"}
      /\ UNCHANGED <<storebuf, blocked, resume, cpc, dropped, qconn, qshut, qsent, qnext, qend,
                     chan, recv, qarmed, pending_readable>>
  BY DEF ApplyResume, quiet, frontVars, flags, Stages
<1>2. Elems(pending_resume') = Elems(pending_resume) \cup {s}
  BY Known, ElemsEnqueue DEF ApplyResume, Types, TypeQueues
<1>3. Elems(cmd) = Elems(cmd') \cup {RecvResume(s)}
  BY Known, ElemsTail DEF ApplyResume, Types, TypeMail
<1>4. ASSUME NEW t \in Streams
      PROVE  /\ Resuming(t) => Resuming(t)'
             /\ Stopping(t) => Stopping(t)'
             /\ InReadable(t) => InReadable(t)'
  <2>1. StopSending(t) # RecvResume(s) /\ (RecvResume(t) = RecvResume(s) => t = s)
    BY DEF StopSending, RecvResume
  <2>2. StopSending(t)' = StopSending(t) /\ RecvResume(t)' = RecvResume(t)
    BY DEF StopSending, RecvResume
  <2>3. Resuming(t) => Resuming(t)'
    BY <1>2, <1>3, <2>1, <2>2 DEF Resuming
  <2>4. Stopping(t) => Stopping(t)'
    BY <1>3, <2>1, <2>2 DEF Stopping
  <2>5. InReadable(t) => InReadable(t)'
    BY <1>1, MailKept
  <2> QED BY <2>3, <2>4, <2>5
<1> QED BY <1>1, <1>4, StagePark

\* An id leaves quiche's queue for the readable cursor.
LEMMA IntakePark ==
  ASSUME IInv, NEW o, ParkInv(o), NEW s \in Streams, IntakeOne(s)
  PROVE  ParkInv(o)'
<1>1. /\ wpc \in Stages /\ Visible /\ wpc' \in Stages \cup {"close"}
      /\ UNCHANGED <<storebuf, blocked, resume, cpc, dropped, qconn, qshut, qsent, qnext, qend,
                     chan, recv, cmd, pending_resume>>
  BY DEF IntakeOne, quiet, frontVars, flags, Stages
<1>2. /\ Elems(pending_readable) \subseteq Elems(pending_readable')
      /\ s \in recv => s \in Elems(pending_readable')
  <2>1. Elems(Enqueue(pending_readable, s)) = Elems(pending_readable) \cup {s}
    BY Known, ElemsEnqueue DEF Types, TypeQueues
  <2>2. CASE s \in recv
    BY <2>1, <2>2 DEF IntakeOne
  <2>3. CASE s \notin recv
    BY <2>3 DEF IntakeOne
  <2> QED BY <2>2, <2>3
<1>3. \A t \in Streams : /\ Resuming(t) => Resuming(t)'
                         /\ Stopping(t) => Stopping(t)'
                         /\ InReadable(t) => InReadable(t)'
  BY <1>1, <1>2, MailKept
<1>4. ASSUME NEW t \in Streams, t \in recv', qarmed[t] PROVE qarmed'[t] \/ InReadable(t)'
  <2>1. CASE t = s
    BY <1>1, <1>2, <1>4, <2>1 DEF InReadable
  <2>2. CASE t # s
    BY <1>4, <2>2, Known DEF IntakeOne, Types, TypeQuiche
  <2> QED BY <2>1, <2>2
<1> QED BY <1>1, <1>3, <1>4, StagePark

\* The pop of an id with an entry is the begin of its drain; without one it
\* forgets a stream that is gone.
LEMMA PopPark ==
  ASSUME IInv, NEW o, ParkInv(o), NEW s \in Streams, PopResume(s) \/ PopReadable(s)
  PROVE  ParkInv(o)'
<1>1. /\ wpc \in {"resumed", "phase1"} /\ Visible
      /\ UNCHANGED <<blocked, resume, cpc, dropped, qconn, qshut, qsent, qnext, qend,
                     chan, recv, qarmed, cmd>>
  BY DEF PopResume, PopReadable, quiet, frontVars, flags
<1>2. /\ \A t \in Elems(pending_resume) : t # s => t \in Elems(pending_resume')
      /\ \A t \in Elems(pending_readable) : t # s => t \in Elems(pending_readable')
      /\ PopReadable(s) => pending_resume' = pending_resume
  <2>0. pending_resume \in Seq(Streams) /\ pending_readable \in Seq(Streams)
    BY Known DEF Types, TypeQueues
  <2>1. CASE PopResume(s)
    <3>1. Elems(pending_resume) = Elems(pending_resume') \cup {s} /\ pending_readable' = pending_readable
      BY <2>0, <2>1, ElemsTail DEF PopResume
    <3>2. ~PopReadable(s)
      BY <2>1 DEF PopResume, PopReadable
    <3> QED BY <3>1, <3>2
  <2>2. CASE PopReadable(s)
    <3>1. Elems(pending_readable) = Elems(pending_readable') \cup {s} /\ pending_resume' = pending_resume
      BY <2>0, <2>2, ElemsTail DEF PopReadable
    <3> QED BY <3>1
  <2> QED BY <2>1, <2>2
<1>3. \/ /\ s \in recv /\ wpc' = "drain" /\ cur' = s
         /\ \/ PopResume(s) /\ storebuf' = ClearBoth(s)
            \/ PopReadable(s) /\ storebuf' = storebuf
      \/ s \notin recv /\ UNCHANGED <<wpc, cur, storebuf>>
  <2>1. CASE PopResume(s)
    BY <2>1 DEF PopResume, ClearBoth, Unset, Unblock
  <2>2. CASE PopReadable(s)
    BY <2>2 DEF PopReadable, flags
  <2> QED BY <2>1, <2>2
<1>4. Buffered(o)'
  BY <1>1, <1>3 DEF Buffered, Visible
<1>5. Offered'
  BY <1>1, <1>3 DEF Offered
<1>6. Fits'
  BY <1>1, <1>3 DEF ParkInv, Fits
<1>7. ASSUME NEW t \in Streams, t # s PROVE Requested(t)' /\ Parked(o, t)'
  <2>1. Requested(t) /\ Parked(o, t)
    BY ParkKnown
  <2>2. /\ Resuming(t) => Resuming(t)'
        /\ Stopping(t) => Stopping(t)'
        /\ InReadable(t) => InReadable(t)'
    BY <1>1, <1>2, <1>7, MailKept
  <2>3. ~Draining(t) /\ ~Clearing(t) /\ ~Promised(t)
    BY <1>1, NoStores DEF Draining, Visible
  <2>4. Forgotten(t)' => Forgotten(t)
    BY <1>1, <2>2, <2>3, ForgottenKept
  <2> QED BY <1>1, <2>1, <2>2, <2>3, <2>4, ParkedKept, RequestedKept
<1>8. Parked(o, s)'
  <2>1. s \notin recv' \/ Draining(s)'
    BY <1>1, <1>3 DEF Draining
  <2> QED BY <2>1, ForgottenFormPrime DEF Parked
<1>9. Requested(s)'
  <2>1. CASE s \notin recv
    BY <1>1, <2>1 DEF Requested
  <2>2. CASE s \in recv /\ PopResume(s)
    <3>1. Clearing(s)'
      <4>1. storebuf' = ClearBoth(s)
        BY <1>3, <2>2 DEF PopResume, PopReadable
      <4> QED BY <4>1, Shapes DEF Clearing
    <3> QED BY <3>1 DEF Requested
  <2>3. CASE PopReadable(s)
    <3>1. Resuming(s) => Resuming(s)'
      BY <1>1, <1>2, <2>3, MailKept
    <3>2. ~Clearing(s) /\ Requested(s)
      BY <1>1, NoStores, ParkKnown DEF Visible
    <3> QED BY <1>1, <3>1, <3>2, RequestedKept
  <2> QED BY <2>1, <2>2, <2>3
<1> QED BY <1>4, <1>5, <1>6, <1>7, <1>8, <1>9, ParkAssemble

\* The set of `blocked` goes behind the stores of drain_resumed.
LEMMA AppendStore ==
  ASSUME NEW s
  PROVE  /\ Append(<<>>, Block(s)) = SetFlag(s)
         /\ Append(ClearFlag(s), Block(s)) = ClearFlagSet(s)
         /\ Append(ClearBoth(s), Block(s)) = ClearBothSet(s)
<1>1. ASSUME NEW a, NEW b, NEW c
      PROVE  /\ Append(<<>>, a) = <<a>> /\ Append(<<a>>, b) = <<a, b>>
             /\ Append(<<a, b>>, c) = <<a, b, c>>
  <2>1. Append(<<>>, a) = <<a>>
    OBVIOUS
  <2>2. Append(<<a>>, b) = <<a, b>>
    <3>1. /\ Append(<<a>>, b) \in Seq({a, b}) /\ <<a, b>> \in Seq({a, b})
          /\ Len(Append(<<a>>, b)) = 2 /\ Len(<<a, b>>) = 2
          /\ \A i \in 1..2 : Append(<<a>>, b)[i] = <<a, b>>[i]
      OBVIOUS
    <3> QED BY <3>1, SeqEqual
  <2>3. Append(<<a, b>>, c) = <<a, b, c>>
    <3>1. /\ Append(<<a, b>>, c) \in Seq({a, b, c}) /\ <<a, b, c>> \in Seq({a, b, c})
          /\ Len(Append(<<a, b>>, c)) = 3 /\ Len(<<a, b, c>>) = 3
          /\ \A i \in 1..3 : Append(<<a, b>>, c)[i] = <<a, b, c>>[i]
      OBVIOUS
    <3> QED BY <3>1, SeqEqual
  <2> QED BY <2>1, <2>2, <2>3
<1> QED BY <1>1, Zenon DEF ClearBoth, ClearFlag, ClearBothSet, ClearFlagSet, SetFlag

\* The drain goes on.
LEMMA DrainPark ==
  ASSUME IInv, NEW o, ParkInv(o), Room \/ Full \/ ReachEnd
  PROVE  ParkInv(o)'
<1>1. /\ wpc \in {"drain", "recheck", "read"} /\ wpc' \in {"read", "recheck", "fin"}
      /\ UNCHANGED <<blocked, resume, cpc, dropped, qconn, qshut, qsent, qnext, qend,
                     chan, recv, qarmed, cmd, pending_readable, pending_resume, cur>>
  BY DEF Room, Full, ReachEnd, quiet, frontVars, flags, queueVars
<1>2. \/ wpc' = "read" /\ storebuf = <<>> /\ storebuf' \in {<<>>, ClearFlag(cur)}
           /\ Len(chan[cur]) < Depth
      \/ /\ wpc' = "recheck" /\ storebuf' = Append(storebuf, Block(cur))
         /\ storebuf \in {<<>>, ClearBoth(cur), ClearFlag(cur)}
      \/ wpc' = "fin" /\ storebuf = <<>> /\ storebuf' = <<>>
  <2>1. CASE Room
    BY <2>1 DEF Room, Visible, ClearFlag, Unblock
  <2>2. CASE Full
    <3>1. wpc = "drain" /\ wpc' = "recheck" /\ storebuf' = Append(storebuf, Block(cur))
      BY <2>2 DEF Full, Block
    <3> QED BY <3>1 DEF ParkInv, Buffered
  <2>3. CASE ReachEnd
    BY <1>1, <2>3 DEF ReachEnd, Visible, flags
  <2> QED BY <2>1, <2>2, <2>3
<1>3. /\ wpc' = "recheck" => Promised(cur)' /\ ~Visible'
      /\ \A t \in Streams : ~Promised(t) /\ (Clearing(t) => Clearing(t)')
  <2>1. CASE storebuf = <<>> /\ wpc' # "recheck"
    BY <2>1, NoStores
  <2>2. CASE wpc' = "recheck"
    <3>1. storebuf' = Append(storebuf, Block(cur))
      BY <1>2, <2>2
    <3>2. \/ storebuf = <<>> /\ storebuf' = SetFlag(cur)
          \/ storebuf = ClearFlag(cur) /\ storebuf' = ClearFlagSet(cur)
          \/ /\ storebuf = ClearBoth(cur)
             /\ storebuf' = ClearBothSet(cur)
      BY <1>2, <2>2, <3>1, AppendStore
    <3>3. cur' = cur /\ ~Visible'
      BY <1>1, <3>2, Shapes DEF Visible
    <3>4. Promised(cur)'
      BY <3>2, <3>3, Shapes DEF Promised
    <3>5. \A t \in Streams : ~Promised(t) /\ (Clearing(t) => Clearing(t)')
      BY <3>2, Shapes DEF Promised, Clearing
    <3> QED BY <3>3, <3>4, <3>5
  <2> QED BY <1>2, <2>1, <2>2
<1>31. Buffered(o)'
  BY <1>1, <1>2, <1>3 DEF Buffered, Unblock
<1>4. Offered'
  BY <1>1, <1>2, <1>3 DEF Offered
<1>5. Fits'
  BY <1>1, <1>2 DEF ParkInv, Fits
<1>6. ASSUME NEW t \in Streams PROVE Requested(t)' /\ Parked(o, t)'
  <2>1. Requested(t) /\ Parked(o, t)
    BY ParkKnown
  <2>2. /\ Resuming(t) => Resuming(t)'
        /\ Stopping(t) => Stopping(t)'
        /\ InReadable(t) => InReadable(t)'
        /\ Draining(t) => Draining(t)'
    BY <1>1, MailKept DEF Draining
  <2>3. Forgotten(t)' => Forgotten(t)
    BY <1>1, <2>2, ForgottenKept
  <2> QED BY <1>1, <1>3, <2>1, <2>2, <2>3, ParkedKept, RequestedKept
<1> QED BY <1>31, <1>4, <1>5, <1>6, ParkAssemble

\* The drain returns: a stream it leaves behind a full channel has published
\* `blocked`, or somebody has seen it in the meantime.
LEMMA LeavePark ==
  ASSUME IInv, NEW o, ParkInv(o), o = "kept" => ~Overtakes, Leave
  PROVE  ParkInv(o)'
<1>1. /\ wpc \in {"drain", "recheck", "read"} /\ wpc' = ret
      /\ Visible \/ wpc = "recheck"
      /\ UNCHANGED <<storebuf, blocked, resume, cpc, dropped, qconn, qshut, qsent, qnext, qend,
                     chan, recv, qarmed, cmd>>
  BY DEF Leave, Return, quiet, frontVars, flags
<1>2. wpc' \in {"resumed", "phase1"} /\ (o = "kept" => Visible)
  BY <1>1, Known DEF Types, TypeLoop, Overtakes
<1>3. cur \in Streams
  BY <1>1, CurIsStream, Known DEF Busy
<1>21. \A t \in Streams : (Clearing(t)' <=> Clearing(t)) /\ (Promised(t)' <=> Promised(t))
  BY <1>1, SameStores
<1>22. ~Visible => wpc = "recheck" /\ Promised(cur)
  BY <1>1 DEF ParkInv, Buffered, Visible
<1>41. Offered' /\ Fits'
  BY <1>1, <1>2 DEF Offered, ParkInv, Fits
<1>42. Buffered(o)'
  BY <1>1, <1>2, <1>21, <1>22, <1>3 DEF Buffered, Visible
<1>4. Buffered(o)' /\ Offered' /\ Fits'
  BY <1>41, <1>42
<1>5. qconn = "closing" \/ (pending_resume' = pending_resume
        /\ Elems(pending_readable) \subseteq Elems(pending_readable'))
  <2>1. Elems(Enqueue(pending_readable, cur)) = Elems(pending_readable) \cup {cur}
    BY <1>3, Known, ElemsEnqueue DEF Types, TypeQueues
  <2>2. \/ qconn = "closing"
        \/ pending_resume' = pending_resume /\ pending_readable' = pending_readable
        \/ pending_resume' = pending_resume /\ pending_readable' = Enqueue(pending_readable, cur)
    BY Zenon DEF Leave, queueVars
  <2> QED BY <2>1, <2>2
<1>6. CASE qconn = "closing"
  <2>1. qconn' # "open"
    BY <1>1, <1>6
  <2>2. \A t \in Streams : Requested(t)' /\ Parked(o, t)'
    BY <2>1, ForgottenFormPrime DEF Requested, Parked
  <2> QED BY <1>4, <2>2, ParkAssemble
<1>7. CASE qconn # "closing"
  <2>1. ASSUME NEW t \in Streams
        PROVE  /\ Requested(t) /\ Parked(o, t)
               /\ Resuming(t) => Resuming(t)'
               /\ Stopping(t) => Stopping(t)'
               /\ InReadable(t) => InReadable(t)'
    BY <1>1, <1>5, <1>7, MailKept, ParkKnown
  <2>2. ASSUME NEW t \in Streams PROVE Requested(t)'
    BY <1>1, <1>21, <2>1, RequestedKept
  <2>3. ASSUME NEW t \in Streams, t # cur PROVE Parked(o, t)'
    <3>1. ~Draining(t)
      BY <2>3 DEF Draining
    <3>2. Forgotten(t)' => Forgotten(t)
      BY <1>1, <2>1, <3>1, ForgottenKept
    <3> QED BY <1>1, <1>21, <2>1, <3>2, ParkedKept
  <2>4. ASSUME NEW t \in Streams, t = cur PROVE Parked(o, t)'
    <3> SUFFICES ASSUME Forgotten(t)'
                 PROVE  \/ (blocked'[t] \/ Promised(t)') /\ Len(chan'[t]) = Depth
                        \/ cpc'[t] \in {"resume", "send", "dropping"}
      BY DEF Parked
    <3>1. /\ qconn = "open" /\ ~dropped[cur] /\ stream_readable(cur)
          /\ ~Resuming(cur) /\ ~Stopping(cur) /\ ~InReadable(t)'
      <4>1. /\ qconn' = "open" /\ ~dropped'[t] /\ stream_readable(t)'
            /\ ~Resuming(t)' /\ ~Stopping(t)' /\ ~InReadable(t)'
        BY ForgottenFormPrime
      <4>2. stream_readable(t)' => stream_readable(t)
        BY <1>1 DEF stream_readable
      <4> QED BY <1>1, <2>1, <2>4, <4>1, <4>2
    <3>2. pending_readable' # Enqueue(pending_readable, cur)
      BY <2>4, <3>1, Known, ElemsEnqueue DEF InReadable, Types, TypeQueues
    <3>3. wpc = "recheck" /\ Len(chan[cur]) >= Depth
      BY <1>7, <3>1, <3>2 DEF Leave
    <3>4. blocked[cur] \/ Promised(cur) \/ cpc[cur] \in {"resume", "send", "dropping"}
      BY <1>22, <3>1, <3>3 DEF ParkInv, Offered
    <3>5. Len(chan[cur]) = Depth
      <4>1. Len(chan[cur]) <= Depth /\ Len(chan[cur]) \in Nat /\ Depth \in Nat
        BY <1>3, BoundsAssumption, Known DEF ParkInv, Fits, Types, TypeCells
      <4> QED BY <3>3, <4>1
    <3> QED BY <1>1, <1>21, <2>4, <3>4, <3>5
  <2>5. ASSUME NEW t \in Streams PROVE Parked(o, t)'
    BY <2>3, <2>4
  <2> QED BY <1>4, <2>2, <2>5, ParkAssemble
<1> QED BY <1>6, <1>7

\* The two stores of drain_resumed, first in first out.
LEMMA TwoStores ==
  ASSUME NEW a, NEW b
  PROVE  Head(<<a, b>>) = a /\ Tail(<<a, b>>) = <<b>>
<1>1. Head(<<a, b>>) = a
  OBVIOUS
<1>2. DEFINE q == <<a, b>>
<1>3. /\ Len(Tail(q)) = 1 /\ Len(<<b>>) = 1
      /\ Tail(q)[1] = b /\ <<b>>[1] = b
  OBVIOUS
<1>4. q \in Seq({a, b}) /\ q # <<>> /\ <<b>> \in Seq({a, b})
  OBVIOUS
<1>5. Tail(q) \in Seq({a, b})
  BY <1>4
<1>6. Tail(q) = <<b>>
  <2>1. \A i \in 1..Len(Tail(q)) : Tail(q)[i] = <<b>>[i]
    BY <1>3
  <2>. HIDE DEF q
  <2> QED BY <1>3, <1>4, <1>5, <2>1, SeqEqual
<1> QED BY <1>1, <1>6

\* A store on its own.
LEMMA LoneStore ==
  ASSUME NEW a
  PROVE  Head(<<a>>) = a /\ Tail(<<a>>) = <<>>
OBVIOUS

\* The three stores of a resumed drain, first in first out.
LEMMA ThreeStores ==
  ASSUME NEW a, NEW b, NEW c
  PROVE  Head(<<a, b, c>>) = a /\ Tail(<<a, b, c>>) = <<b, c>>
<1>1. Head(<<a, b, c>>) = a
  OBVIOUS
<1>2. DEFINE q == <<a, b, c>>
<1>3. /\ Len(Tail(q)) = 2 /\ Len(<<b, c>>) = 2
      /\ Tail(q)[1] = b /\ Tail(q)[2] = c /\ <<b, c>>[1] = b /\ <<b, c>>[2] = c
  OBVIOUS
<1>4. q \in Seq({a, b, c}) /\ q # <<>> /\ <<b, c>> \in Seq({a, b, c})
  OBVIOUS
<1>5. Tail(q) \in Seq({a, b, c})
  BY <1>4
<1>6. Tail(q) = <<b, c>>
  <2>1. \A i \in 1..Len(Tail(q)) : Tail(q)[i] = <<b, c>>[i]
    BY <1>3
  <2>. HIDE DEF q
  <2> QED BY <1>3, <1>4, <1>5, <2>1, SeqEqual
<1> QED BY <1>1, <1>6

\* The oldest store becomes visible, in each of the contents of the buffer.
LEMMA FlushShape ==
  ASSUME NEW r, NEW s \in Streams, NEW v \in BOOLEAN, FlushBlocked(s, v) \/ FlushResume(s, v),
         storebuf \in {ClearBoth(r), ClearFlag(r)} \/ Promised(r)
  PROVE  /\ s = r
         /\ \/ /\ FlushResume(s, v) /\ v = FALSE
               /\ \/ storebuf = ClearBoth(r) /\ storebuf' = ClearFlag(r)
                  \/ storebuf = ClearBothSet(r) /\ storebuf' = ClearFlagSet(r)
            \/ /\ FlushBlocked(s, v)
               /\ \/ storebuf = ClearFlag(r) /\ storebuf' = <<>>
                  \/ storebuf = ClearFlagSet(r) /\ storebuf' = SetFlag(r)
                  \/ storebuf = SetFlag(r) /\ storebuf' = <<>> /\ v = TRUE
<1>1. storebuf' = Tail(storebuf)
  BY DEF FlushBlocked, FlushResume
<1>2. ASSUME Head(storebuf) = Unset(r) PROVE s = r /\ FlushResume(s, v) /\ v = FALSE
  <2>1. ~FlushBlocked(s, v)
    BY <1>2 DEF FlushBlocked, Unset
  <2>2. Unset(r) = <<"resume", s, v>>
    BY <1>2, <2>1 DEF FlushResume
  <2> QED BY <2>1, <2>2 DEF Unset
<1>3. ASSUME NEW w, Head(storebuf) = <<"blocked", r, w>> PROVE s = r /\ FlushBlocked(s, v) /\ v = w
  <2>1. ~FlushResume(s, v)
    BY <1>3 DEF FlushResume
  <2>2. <<"blocked", r, w>> = <<"blocked", s, v>>
    BY <1>3, <2>1 DEF FlushBlocked
  <2> QED BY <2>1, <2>2
<1>4. storebuf \in {ClearBoth(r), ClearFlag(r), ClearBothSet(r), ClearFlagSet(r), SetFlag(r)}
  BY DEF Promised, Promises
<1>5. CASE storebuf = ClearBoth(r)
  <2>1. Head(storebuf) = Unset(r) /\ Tail(storebuf) = ClearFlag(r)
    BY <1>5, TwoStores DEF ClearBoth, ClearFlag
  <2> QED BY <1>1, <1>2, <1>5, <2>1
<1>6. CASE storebuf = ClearBothSet(r)
  <2>1. Head(storebuf) = Unset(r) /\ Tail(storebuf) = ClearFlagSet(r)
    BY <1>6, ThreeStores DEF ClearBothSet, ClearFlagSet
  <2> QED BY <1>1, <1>2, <1>6, <2>1
<1>7. CASE storebuf = ClearFlag(r)
  <2>1. Head(storebuf) = <<"blocked", r, FALSE>> /\ Tail(storebuf) = <<>>
    BY <1>7, LoneStore, Zenon DEF ClearFlag, Unblock
  <2> QED BY <1>1, <1>3, <1>7, <2>1
<1>8. CASE storebuf = ClearFlagSet(r)
  <2>1. Head(storebuf) = Unblock(r) /\ Tail(storebuf) = SetFlag(r)
    BY <1>8, TwoStores, Zenon DEF ClearFlagSet, SetFlag
  <2> QED BY <1>1, <1>3, <1>8, <2>1 DEF Unblock
<1>9. CASE storebuf = SetFlag(r)
  <2>1. storebuf = <<<<"blocked", r, TRUE>>>>
    BY <1>9 DEF SetFlag, Block
  <2>2. Head(storebuf) = <<"blocked", r, TRUE>> /\ Tail(storebuf) = <<>>
    BY <2>1, LoneStore, Zenon
  <2> QED BY <1>1, <1>3, <1>9, <2>2
<1> QED BY <1>4, <1>5, <1>6, <1>7, <1>8, <1>9

\* A store becomes visible: it is one of the stream being drained, or of the
\* one whose drain has left by overtaking.
LEMMA FlushPark ==
  ASSUME IInv, NEW o, ParkInv(o), NEW s \in Streams, NEW v \in BOOLEAN,
         FlushBlocked(s, v) \/ FlushResume(s, v)
  PROVE  ParkInv(o)'
<1>1. UNCHANGED <<cpc, dropped, qconn, qshut, qsent, qnext, qend, chan, recv, qarmed, cmd,
                  pending_readable, pending_resume, wpc, cur>>
      /\ storebuf # <<>>
  BY DEF FlushBlocked, FlushResume, quicheVars, workerVars, queueVars, loopVars, frontVars
<1>2. PICK r : /\ storebuf \in {ClearBoth(r), ClearFlag(r)} \/ Promised(r)
               /\ \/ wpc \in {"drain", "recheck", "read"} /\ r = cur
                  \/ o # "kept" /\ wpc \in {"resumed", "phase1"} /\ Promised(r)
               /\ wpc \in {"drain", "read"} => ~Promised(r)
               /\ wpc = "recheck" => Promised(r)
               /\ wpc = "read" => storebuf = ClearFlag(r)
  BY <1>1, Shapes DEF ParkInv, Buffered, Promised
<1>3. /\ s = r
      /\ \/ /\ FlushResume(s, v) /\ v = FALSE
            /\ \/ storebuf = ClearBoth(r) /\ storebuf' = ClearFlag(r)
               \/ storebuf = ClearBothSet(r) /\ storebuf' = ClearFlagSet(r)
         \/ /\ FlushBlocked(s, v)
            /\ \/ storebuf = ClearFlag(r) /\ storebuf' = <<>>
               \/ storebuf = ClearFlagSet(r) /\ storebuf' = SetFlag(r)
               \/ storebuf = SetFlag(r) /\ storebuf' = <<>> /\ v = TRUE
  BY <1>2, FlushShape
<1>4. /\ \A t : ~Clearing(t)' /\ (Promised(t) => t = s)
      /\ \/ FlushResume(s, v) /\ v = FALSE /\ \A t : Clearing(t) => t = s
         \/ FlushBlocked(s, v) /\ \A t : ~Clearing(t)
      /\ Promised(s) => Promised(s)' \/ (FlushBlocked(s, v) /\ v = TRUE /\ storebuf' = <<>>)
  BY <1>3, Shapes DEF Clearing, Promised
<1>5. Buffered(o)'
  <2>1. CASE Promised(s)
    BY <1>1, <1>2, <1>3, <1>4, <2>1 DEF Buffered
  <2>2. CASE ~Promised(s)
    BY <1>1, <1>2, <1>3, <2>2, Shapes DEF Buffered, Promised
  <2> QED BY <2>1, <2>2
<1>6. Fits'
  BY <1>1 DEF ParkInv, Fits
<1>7. FlushBlocked(s, v) => blocked'[s] = v /\ resume' = resume
  BY Known DEF FlushBlocked, Types, TypeCells
<1>8. Offered'
  <2>1. wpc = "recheck" /\ storebuf' = <<>> => FlushBlocked(s, v) /\ v = TRUE /\ s = cur
    BY <1>2, <1>3, <1>4, Shapes DEF Promised
  <2> QED BY <1>1, <1>7, <2>1 DEF Offered, Visible
<1>9. ASSUME NEW t \in Streams
      PROVE  /\ Requested(t) /\ Parked(o, t)
             /\ Resuming(t) => Resuming(t)'
             /\ Stopping(t) => Stopping(t)'
             /\ InReadable(t) => InReadable(t)'
             /\ Draining(t) => Draining(t)'
  BY <1>1, ParkKnown, MailKept DEF Draining
<1>10. ASSUME NEW t \in Streams PROVE Parked(o, t)'
  <2>1. CASE t = s /\ wpc \in {"drain", "recheck", "read"} /\ s = cur
    <3>1. Draining(t)'
      BY <1>1, <2>1 DEF Draining
    <3> QED BY <3>1, ForgottenFormPrime DEF Parked
  <2>2. CASE t = s /\ o # "kept" /\ Promised(s)
    <3>1. blocked'[t] \/ Promised(t)'
      BY <1>4, <1>7, <2>2
    <3> QED BY <2>2, <3>1 DEF Parked
  <2>3. CASE t # s
    <3>1. blocked'[t] = blocked[t]
      BY <2>3, Known DEF FlushBlocked, FlushResume, Types, TypeCells
    <3>2. Forgotten(t)' => Forgotten(t)
      BY <1>1, <1>9, ForgottenKept
    <3>3. ~Promised(t)
      BY <1>4, <2>3
    <3> QED BY <1>1, <1>9, <3>1, <3>2, <3>3, ParkedKept
  <2> QED BY <1>2, <1>3, <2>1, <2>2, <2>3
<1>11. ASSUME NEW t \in Streams PROVE Requested(t)'
  <2>1. CASE FlushBlocked(s, v) /\ ~Clearing(t)
    BY <1>1, <1>7, <1>9, <2>1, RequestedKept
  <2>2. CASE FlushResume(s, v) /\ v = FALSE /\ t = s
    <3>1. resume'[t] = FALSE
      BY <2>2, Known DEF FlushResume, Types, TypeCells
    <3> QED BY <3>1 DEF Requested
  <2>3. CASE FlushResume(s, v) /\ ~Clearing(t) /\ t # s
    <3>1. resume'[t] = resume[t]
      BY <2>3, Known DEF FlushResume, Types, TypeCells
    <3> QED BY <1>1, <1>9, <2>3, <3>1, RequestedKept
  <2> QED BY <1>4, <2>1, <2>2, <2>3
<1> QED BY <1>5, <1>6, <1>8, <1>10, <1>11, ParkAssemble

\* Every step of Bookkeeping keeps the parking invariant.
LEMMA BookkeepingPark ==
  ASSUME IInv, NEW o, ParkInv(o), o = "kept" => ~Overtakes, Bookkeeping
  PROVE  ParkInv(o)'
<1>1. CASE Advance \/ Room \/ Full \/ ReachEnd \/ Leave
  BY <1>1, AdvancePark, DrainPark, LeavePark
<1>2. ASSUME NEW s \in Streams, ApplyResume(s) \/ IntakeOne(s) \/ PopResume(s) \/ PopReadable(s)
      PROVE  ParkInv(o)'
  BY <1>2, ApplyResumePark, IntakePark, PopPark
<1>3. ASSUME NEW s \in Streams, NEW v \in BOOLEAN, FlushBlocked(s, v) \/ FlushResume(s, v)
      PROVE  ParkInv(o)'
  BY <1>3, FlushPark
<1> QED BY <1>1, <1>2, <1>3 DEF Bookkeeping

\* An effect on stream s, by a worker with nothing in its store buffer.
LEMMA EffectPark ==
  ASSUME IInv, NEW o, ParkInv(o), NEW s, storebuf = <<>>, storebuf' = <<>>, wpc' # "recheck", Fits',
         UNCHANGED <<blocked, resume, cpc, dropped>>,
         qconn' = "open" => qconn = "open", recv' \subseteq recv,
         \A t \in Streams : t \in recv' /\ qconn' = "open" =>
           /\ Resuming(t) => Resuming(t)'
           /\ t # s =>
                /\ chan'[t] = chan[t] /\ qsent'[t] = qsent[t] /\ qnext'[t] = qnext[t]
                /\ qend'[t] = qend[t] /\ qshut'[t] = qshut[t] /\ qarmed'[t] = qarmed[t]
                /\ Draining(t) => Draining(t)'
                /\ Stopping(t) => Stopping(t)'
                /\ InReadable(t) => InReadable(t)',
         s \in recv' /\ qconn' = "open" => ~Forgotten(s)'
  PROVE  ParkInv(o)'
<1>1. Buffered(o)' /\ Offered'
  BY DEF Buffered, Offered
<1>2. ASSUME NEW t \in Streams PROVE Requested(t)'
  <2>1. Requested(t) /\ ~Clearing(t) /\ ~Promised(t)
    BY ParkKnown, NoStores
  <2>2. CASE t \in recv' /\ qconn' = "open"
    BY <2>1, <2>2, RequestedKept
  <2>3. CASE ~(t \in recv' /\ qconn' = "open")
    BY <2>3 DEF Requested
  <2> QED BY <2>2, <2>3
<1>3. ASSUME NEW t \in Streams PROVE Parked(o, t)'
  <2>1. CASE ~(t \in recv' /\ qconn' = "open")
    BY <2>1, ForgottenFormPrime DEF Parked
  <2>2. CASE t \in recv' /\ qconn' = "open" /\ t = s
    BY <2>2 DEF Parked
  <2>3. CASE t \in recv' /\ qconn' = "open" /\ t # s
    <3>1. Forgotten(t)' => Forgotten(t)
      BY <2>3, ForgottenKept
    <3>2. Parked(o, t) /\ ~Promised(t)
      BY ParkKnown, NoStores
    <3> QED BY <2>3, <3>1, <3>2, ParkedKept
  <2> QED BY <2>1, <2>2, <2>3
<1> QED BY <1>1, <1>2, <1>3, ParkAssemble

\* mark_recv_done forgets the queued ids of the stream it releases, no other.
LEMMA DonePark ==
  ASSUME IInv, NEW s \in Streams, mark_recv_done(s), cmd' = cmd
  PROVE  /\ recv' = recv \ {s}
         /\ \A t \in Streams : t # s =>
              /\ Resuming(t) => Resuming(t)'
              /\ Stopping(t) => Stopping(t)'
              /\ InReadable(t) => InReadable(t)'
<1>1. /\ recv' = recv \ {s}
      /\ \A t \in Elems(pending_resume) : t # s => t \in Elems(pending_resume')
      /\ \A t \in Elems(pending_readable) : t # s => t \in Elems(pending_readable')
  BY Known, DoneTypes DEF Types, TypeLoop
<1> QED BY <1>1, MailKept

\* abandon_recv releases the stream.
LEMMA AbandonPark ==
  ASSUME IInv, NEW o, ParkInv(o), Abandon
  PROVE  ParkInv(o)'
<1>1. PICK s \in Streams : s = cur
  BY Known, CurIsStream DEF Abandon, Busy
<1>2. /\ storebuf = <<>> /\ storebuf' = <<>> /\ mark_recv_done(s)
      /\ UNCHANGED <<blocked, resume, cpc, dropped, qconn, cmd, chan, qsent, qnext, qend>>
      /\ wpc' = ret
  BY <1>1 DEF Abandon, AbandonRecv, Visible, Shutdown, Return, sharedVars, frontVars
<1>3. wpc' \in {"resumed", "phase1"}
  BY <1>2, Known DEF Types, TypeLoop
<1>4. Fits'
  BY <1>2, <1>3 DEF ParkInv, Fits
<1>5. ASSUME NEW t \in Streams, t # s
      PROVE  qshut'[t] = qshut[t] /\ qarmed'[t] = qarmed[t] /\ ~Draining(t)
  BY <1>1, <1>5, Known DEF Abandon, AbandonRecv, Shutdown, Types, TypeQuiche, Draining
<1>6. recv' = recv \ {s}
  BY <1>2, DonePark
<1>7. \A t \in Streams : t \in recv' => t # s
  BY <1>6
<1> QED BY <1>2, <1>3, <1>4, <1>5, <1>6, <1>7, DonePark, EffectPark

\* mark_recv_done releases the stream.
LEMMA SealPark ==
  ASSUME IInv, NEW o, ParkInv(o), SealRecv
  PROVE  ParkInv(o)'
<1>1. PICK s \in Streams : s = cur
  BY Known, CurIsStream DEF SealRecv, Busy
<1>2. /\ storebuf = <<>> /\ storebuf' = <<>> /\ mark_recv_done(s)
      /\ UNCHANGED <<blocked, resume, cpc, dropped, qconn, cmd, chan, qsent, qnext, qend, qshut, qarmed>>
      /\ wpc' = ret
  BY <1>1 DEF SealRecv, Visible, Return, sharedVars, quicheVars
<1>3. wpc' \in {"resumed", "phase1"}
  BY <1>2, Known DEF Types, TypeLoop
<1>4. Fits'
  BY <1>2, <1>3 DEF ParkInv, Fits
<1>5. \A t \in Streams : t # s => ~Draining(t)
  BY <1>1 DEF Draining
<1>6. recv' = recv \ {s}
  BY <1>2, DonePark
<1>7. \A t \in Streams : t \in recv' => t # s
  BY <1>6
<1> QED BY <1>2, <1>3, <1>4, <1>5, <1>6, <1>7, DonePark, EffectPark

\* stop_sending releases the entry of a stream that is not being drained.
LEMMA ApplyStopPark ==
  ASSUME IInv, NEW o, ParkInv(o), NEW s \in Streams, ApplyStop(s)
  PROVE  ParkInv(o)'
<1>1. /\ storebuf = <<>> /\ storebuf' = <<>> /\ wpc = "apply" /\ wpc' = "apply"
      /\ UNCHANGED <<blocked, resume, cpc, dropped, qconn, chan, qsent, qnext, qend>>
  BY DEF ApplyStop, Visible, Shutdown, flags
<1>2. Fits'
  BY <1>1 DEF ParkInv, Fits
<1>3. /\ recv' = recv \ {s}
      /\ \A t \in Elems(pending_resume) : t # s => t \in Elems(pending_resume')
      /\ \A t \in Elems(pending_readable) : t # s => t \in Elems(pending_readable')
  BY Known, DoneTypes DEF ApplyStop, Types, TypeLoop
<1>4. Elems(cmd) = Elems(cmd') \cup {StopSending(s)}
  BY Known, ElemsTail DEF ApplyStop, Types, TypeMail
<1>5. ASSUME NEW t \in Streams, t # s
      PROVE  /\ Resuming(t) => Resuming(t)'
             /\ Stopping(t) => Stopping(t)'
             /\ InReadable(t) => InReadable(t)'
  <2>1. RecvResume(t) # StopSending(s) /\ StopSending(t) # StopSending(s)
    BY <1>5 DEF StopSending, RecvResume
  <2>2. StopSending(t)' = StopSending(t) /\ RecvResume(t)' = RecvResume(t)
    BY DEF StopSending, RecvResume
  <2>3. InReadable(t) => InReadable(t)'
    BY <1>3, <1>5, MailKept
  <2> QED BY <1>3, <1>4, <1>5, <2>1, <2>2, <2>3 DEF Resuming, Stopping
<1>6. ASSUME NEW t \in Streams, t # s
      PROVE  qshut'[t] = qshut[t] /\ qarmed'[t] = qarmed[t] /\ ~Draining(t)
  BY <1>1, <1>6, Known DEF ApplyStop, Shutdown, Types, TypeQuiche, Draining
<1>7. \A t \in Streams : t \in recv' => t # s
  BY <1>3
<1> QED BY <1>1, <1>2, <1>3, <1>5, <1>6, <1>7, EffectPark

\* A closing connection forgets nothing that anybody still has to come back to.
LEMMA ClosePark ==
  ASSUME IInv, NEW o, ParkInv(o), storebuf = <<>>, storebuf' = <<>>, wpc' # "recheck", Fits',
         UNCHANGED <<blocked, resume, cpc, dropped>>, recv' \subseteq recv, qconn' # "open"
  PROVE  ParkInv(o)'
<1>1. Buffered(o)' /\ Offered'
  BY DEF Buffered, Offered
<1>2. \A t \in Streams : Requested(t)' /\ Parked(o, t)'
  BY ForgottenFormPrime DEF Requested, Parked
<1> QED BY <1>1, <1>2, ParkAssemble

\* The three steps of a closing connection.
LEMMA ClosingPark ==
  ASSUME IInv, NEW o, ParkInv(o), CloseDrop \/ ConnectionClosing \/ \E s \in Streams : ClosePublish(s)
  PROVE  ParkInv(o)'
<1>1. /\ UNCHANGED <<blocked, resume, cpc, dropped, chan, storebuf>> /\ recv' \subseteq recv
      /\ wpc \in {"wait", "close"} /\ wpc' \in {"wait", "close", "exited"}
      /\ wpc = "wait" => storebuf = <<>>
      /\ qconn' # "open"
  <2>1. CASE CloseDrop
    BY <2>1 DEF CloseDrop
  <2>2. CASE ConnectionClosing
    BY <2>2 DEF ConnectionClosing, workerVars, loopVars, sharedVars, frontVars, Visible
  <2>3. CASE \E s \in Streams : ClosePublish(s)
    BY <2>3, Known DEF ClosePublish, workerVars, loopVars, quicheVars, Loop
  <2> QED BY <2>1, <2>2, <2>3
<1>2. storebuf = <<>>
  BY <1>1 DEF ParkInv, Buffered
<1>3. Fits'
  BY <1>1 DEF ParkInv, Fits
<1> QED BY <1>1, <1>2, <1>3, ClosePark

\* A frame arms its stream, unless the receive side was shut down.
LEMMA FramePark ==
  ASSUME IInv, NEW o, ParkInv(o), NEW s \in Streams,
         FrameChunk(s) \/ FrameEnd(s, "fin") \/ FrameEnd(s, "reset")
  PROVE  ParkInv(o)'
<1>1. /\ storebuf = <<>> /\ wpc = "wait" /\ qarmed' = [qarmed EXCEPT ![s] = ~qshut[s]]
      /\ UNCHANGED <<storebuf, wpc, cur, blocked, resume, cpc, dropped, qconn, chan, qnext, qshut, recv,
                     cmd, pending_readable, pending_resume>>
  BY DEF FrameChunk, FrameEnd, Visible, workerVars, queueVars, loopVars, sharedVars, frontVars
<1>2. Fits'
  BY <1>1 DEF ParkInv, Fits
<1>3. ASSUME NEW t \in Streams
      PROVE  /\ Resuming(t) => Resuming(t)'
             /\ Stopping(t) => Stopping(t)'
             /\ InReadable(t) => InReadable(t)'
             /\ Draining(t) => Draining(t)'
  BY <1>1, MailKept DEF Draining
<1>4. ASSUME NEW t \in Streams, t # s
      PROVE  qsent'[t] = qsent[t] /\ qend'[t] = qend[t] /\ qarmed'[t] = qarmed[t]
  BY <1>1, <1>4, Known DEF FrameChunk, FrameEnd, Types, TypeQuiche
<1>5. ~Forgotten(s)'
  <2>1. qarmed'[s] = ~qshut[s]
    BY <1>1, Known DEF Types, TypeQuiche
  <2>2. qshut[s] => ~stream_readable(s)'
    BY <1>1 DEF stream_readable
  <2> QED BY <2>1, <2>2, ForgottenFormPrime, Zenon
<1> QED BY <1>1, <1>2, <1>3, <1>4, <1>5, EffectPark

\* The terminal goes out while the drain still holds the stream.
LEMMA PublishPark ==
  ASSUME IInv, NEW o, ParkInv(o), PublishTerminal
  PROVE  ParkInv(o)'
<1>1. PICK s \in Streams : s = cur
  BY Known, CurIsStream DEF PublishTerminal, Busy
<1>2. /\ storebuf = <<>> /\ wpc' = "seal"
      /\ UNCHANGED <<storebuf, cur, blocked, resume, cpc, dropped, qconn, chan, qsent, qnext, qend, qshut,
                     qarmed, recv, cmd, pending_readable, pending_resume>>
  BY DEF PublishTerminal, Visible, quicheVars, queueVars
<1>3. Fits'
  BY <1>2 DEF ParkInv, Fits
<1>4. ASSUME NEW t \in Streams
      PROVE  /\ Resuming(t) => Resuming(t)'
             /\ Stopping(t) => Stopping(t)'
             /\ InReadable(t) => InReadable(t)'
             /\ Draining(t) => Draining(t)'
  BY <1>2, MailKept DEF Draining
<1>5. ~Forgotten(s)'
  <2>1. Draining(s)'
    BY <1>1, <1>2 DEF Draining
  <2> QED BY <2>1, ForgottenFormPrime
<1> QED BY <1>2, <1>3, <1>4, <1>5, EffectPark

\* A chunk goes into the slot that was reserved for it; the drain goes on, or
\* has read all there is.
LEMMA PushPark ==
  ASSUME IInv, NEW o, ParkInv(o), Push
  PROVE  ParkInv(o)'
<1>1. PICK s \in Streams : s = cur
  BY Known, CurIsStream DEF Push, Busy
<1>2. /\ storebuf = <<>> /\ wpc = "read"
      /\ UNCHANGED <<storebuf, blocked, resume, cpc, dropped, qconn, qsent, qend, qshut,
                     qarmed, recv, cmd, pending_readable, pending_resume>>
      /\ chan' = [chan EXCEPT ![s] = IF dropped[s] THEN @ ELSE Append(@, qnext[s])]
      /\ qnext' = [qnext EXCEPT ![s] = qnext[s] + 1]
  BY <1>1 DEF Push, Visible, PermitSend, flags, queueVars
<1>3. \/ wpc' \in {"drain", "fin"} /\ cur' = s
      \/ /\ qnext[s] = qsent[s] /\ qend[s] = "none"
         /\ wpc' \in {"resumed", "phase1"}
  BY <1>1, Known DEF Push, Return, Types, TypeLoop
<1>4. /\ chan'[s] = IF dropped[s] THEN chan[s] ELSE Append(chan[s], qnext[s])
      /\ qnext'[s] = qnext[s] + 1 /\ qnext[s] \in Nat
      /\ \A t \in Streams : t # s => chan'[t] = chan[t] /\ qnext'[t] = qnext[t]
  BY <1>2, Known DEF Types, TypeCells, TypeQuiche
<1>5. Fits'
  <2>1. Len(chan[s]) < Depth /\ Len(chan[s]) \in Nat /\ Depth \in Nat
    BY <1>1, <1>2, BoundsAssumption, Known DEF ParkInv, Fits, Types, TypeCells
  <2>2. Len(chan'[s]) <= Depth
    BY <1>4, <2>1, Known DEF Types, TypeCells
  <2>3. \A t \in Streams : Len(chan'[t]) <= Depth
    BY <1>4, <2>2 DEF ParkInv, Fits
  <2> QED BY <1>3, <2>3 DEF Fits
<1>6. ASSUME NEW t \in Streams
      PROVE  /\ Resuming(t) => Resuming(t)'
             /\ Stopping(t) => Stopping(t)'
             /\ InReadable(t) => InReadable(t)'
             /\ t # s => ~Draining(t)
  BY <1>1, <1>2, MailKept DEF Draining
<1>7. ~Forgotten(s)'
  <2>1. CASE wpc' \in {"drain", "fin"} /\ cur' = s
    <3>1. Draining(s)'
      BY <2>1 DEF Draining
    <3> QED BY <3>1, ForgottenFormPrime
  <2>2. CASE qnext[s] = qsent[s] /\ qend[s] = "none"
    <3>1. ~stream_readable(s)'
      BY <1>2, <1>4, <2>2 DEF stream_readable
    <3> QED BY <3>1, ForgottenFormPrime
  <2> QED BY <1>3, <2>1, <2>2
<1> QED BY <1>2, <1>3, <1>4, <1>5, <1>6, <1>7, EffectPark

\* Every step of Effects keeps the parking invariant.
LEMMA EffectsPark ==
  ASSUME IInv, NEW o, ParkInv(o), Effects
  PROVE  ParkInv(o)'
<1>1. CASE Abandon \/ Push \/ PublishTerminal \/ SealRecv
  BY <1>1, AbandonPark, PushPark, PublishPark, SealPark
<1>2. CASE CloseDrop \/ ConnectionClosing \/ \E s \in Streams : ClosePublish(s)
  BY <1>2, ClosingPark
<1>3. ASSUME NEW s \in Streams,
             ApplyStop(s) \/ FrameChunk(s) \/ FrameEnd(s, "fin") \/ FrameEnd(s, "reset")
      PROVE  ParkInv(o)'
  BY <1>3, ApplyStopPark, FramePark
<1> QED BY <1>1, <1>2, <1>3 DEF Effects

-----------------------------------------------------------------------------
(* Parking: the application *)

\* Offered, for the stream it is about.
Handed(s) ==
  wpc = "recheck" /\ cur = s /\ Visible /\ qconn = "open" /\ ~dropped[s] =>
    \/ blocked[s] \/ cpc[s] \in {"resume", "send", "dropping"} \/ Resuming(s) \/ Stopping(s)

\* What the parking invariant says of one stream under recheck.
LEMMA HandedKnown ==
  ASSUME NEW o, ParkInv(o), NEW s \in Streams
  PROVE  Handed(s)
BY DEF ParkInv, Offered, Handed

\* A step of stream s on the application's side.
LEMMA PollPark ==
  ASSUME IInv, NEW o, ParkInv(o), NEW s \in Streams, UNCHANGED <<quicheVars, workerVars, storebuf>>,
         \A t \in Streams : t # s =>
           /\ chan'[t] = chan[t] /\ blocked'[t] = blocked[t] /\ resume'[t] = resume[t]
           /\ cpc'[t] = cpc[t] /\ dropped'[t] = dropped[t],
         Elems(cmd) \subseteq Elems(cmd'),
         Len(chan'[s]) <= Len(chan[s]), Len(chan'[s]) \in Nat,
         Requested(s)', Parked(o, s)', Handed(s)'
  PROVE  ParkInv(o)'
<1>1. UNCHANGED <<qconn, qshut, qsent, qnext, qend, qarmed, recv, pending_readable, pending_resume,
                  wpc, cur, storebuf>>
  BY DEF quicheVars, workerVars, queueVars, loopVars
<1>2. Buffered(o)'
  <2>1. \A t : Promised(t)' <=> Promised(t)
    BY <1>1, SameStores
  <2> QED BY <1>1, <2>1 DEF ParkInv, Buffered
<1>3. ASSUME NEW t \in Streams
      PROVE  /\ Requested(t) /\ Parked(o, t) /\ Handed(t)
             /\ Resuming(t) => Resuming(t)'
             /\ Stopping(t) => Stopping(t)'
             /\ InReadable(t) => InReadable(t)'
             /\ Draining(t) => Draining(t)'
             /\ (Clearing(t)' <=> Clearing(t)) /\ (Promised(t)' <=> Promised(t))
  BY <1>1, ParkKnown, HandedKnown, MailKept, SameStores DEF Draining
<1>4. Fits'
  <2>1. Len(chan[s]) \in Nat /\ Depth \in Nat
    BY BoundsAssumption, PollKnown
  <2>2. Len(chan[s]) <= Depth /\ (wpc = "read" /\ cur = s => Len(chan[s]) < Depth)
    BY DEF ParkInv, Fits
  <2>3. Len(chan'[s]) <= Depth /\ (wpc = "read" /\ cur = s => Len(chan'[s]) < Depth)
    BY <2>1, <2>2
  <2>4. wpc = "read" => cur \in Streams
    BY Known, CurIsStream DEF Busy
  <2>5. \A t \in Streams : Len(chan'[t]) <= Depth
    BY <2>3 DEF ParkInv, Fits
  <2>6. wpc = "read" => Len(chan'[cur]) < Depth
    BY <2>3, <2>4 DEF ParkInv, Fits
  <2> QED BY <1>1, <2>5, <2>6 DEF Fits
<1>5. ASSUME NEW t \in Streams, t # s PROVE Requested(t)' /\ Parked(o, t)' /\ Handed(t)'
  <2>1. Forgotten(t)' => Forgotten(t)
    BY <1>1, <1>3, <1>5, ForgottenKept
  <2>2. Parked(o, t)'
    BY <1>3, <1>5, <2>1, ParkedKept
  <2>3. Requested(t)'
    BY <1>1, <1>3, <1>5, RequestedKept
  <2>4. Visible' <=> Visible
    BY <1>1 DEF Visible
  <2>5. Handed(t)'
    BY <1>1, <1>3, <1>5, <2>4, Zenon DEF Handed
  <2> QED BY <2>2, <2>3, <2>5
<1>6. Offered'
  <2> SUFFICES ASSUME wpc' = "recheck" PROVE Offered'
    BY DEF Offered
  <2>1. PICK t \in Streams : t = cur
    BY <1>1, Known, CurIsStream DEF Busy
  <2>2. Handed(t)' /\ cur' = t
    BY <1>1, <1>5, <2>1
  <2> QED BY <2>2 DEF Offered, Handed
<1> QED BY <1>2, <1>4, <1>5, <1>6, ParkAssemble

\* What these steps leave of stream s.
LEMMA PollForgotten ==
  ASSUME IInv, NEW o, ParkInv(o), NEW s \in Streams, UNCHANGED <<quicheVars, workerVars, storebuf>>,
         dropped'[s] = dropped[s], Elems(cmd) \subseteq Elems(cmd')
  PROVE  /\ Forgotten(s)' => Forgotten(s)
         /\ Resuming(s) => Resuming(s)'
         /\ Stopping(s) => Stopping(s)'
         /\ UNCHANGED <<wpc, cur, qconn, recv>> /\ (Visible' <=> Visible)
         /\ (Clearing(s)' <=> Clearing(s)) /\ (Promised(s)' <=> Promised(s))
<1>1. UNCHANGED <<qconn, qshut, qsent, qnext, qend, qarmed, recv, pending_readable, pending_resume,
                  wpc, cur, storebuf>>
  BY DEF quicheVars, workerVars, queueVars, loopVars
<1>2. /\ Resuming(s) => Resuming(s)'
      /\ Stopping(s) => Stopping(s)'
      /\ InReadable(s) => InReadable(s)'
      /\ Draining(s) => Draining(s)'
  BY <1>1, MailKept DEF Draining
<1>3. Forgotten(s)' => Forgotten(s)
  BY <1>1, <1>2, ForgottenKept
<1> QED BY <1>1, <1>2, <1>3, SameStores DEF Visible

\* A poll that leaves the flags alone keeps a full channel full, or goes on to
\* signal_resume with what it took.
LEMMA FlagsPark ==
  ASSUME IInv, NEW o, ParkInv(o), NEW s \in Streams,
         UNCHANGED <<quicheVars, workerVars, storebuf, blocked, resume, dropped>>,
         \A t \in Streams : t # s => chan'[t] = chan[t] /\ cpc'[t] = cpc[t],
         Elems(cmd) \subseteq Elems(cmd'), cpc[s] \notin {"send", "resume", "swap", "dropping"},
         \/ chan'[s] = chan[s]
         \/ cpc'[s] = "swap" /\ Len(chan'[s]) <= Len(chan[s]) /\ Len(chan'[s]) \in Nat
  PROVE  ParkInv(o)'
<1>1. /\ Forgotten(s)' => Forgotten(s)
      /\ Resuming(s) => Resuming(s)'
      /\ Stopping(s) => Stopping(s)'
      /\ UNCHANGED <<wpc, cur, qconn, recv>> /\ (Visible' <=> Visible)
      /\ (Clearing(s)' <=> Clearing(s)) /\ (Promised(s)' <=> Promised(s))
  BY PollForgotten
<1>2. Requested(s) /\ Parked(o, s) /\ Handed(s)
  BY ParkKnown, HandedKnown
<1>3. Requested(s)'
  BY <1>1, <1>2, RequestedKept
<1>4. Parked(o, s)'
  BY <1>1, <1>2 DEF Parked
<1>5. Handed(s)'
  BY <1>1, <1>2, Zenon DEF Handed
<1>6. Len(chan'[s]) <= Len(chan[s]) /\ Len(chan'[s]) \in Nat
  <2>1. Len(chan[s]) \in Nat
    BY PollKnown
  <2> QED BY <2>1
<1> QED BY <1>3, <1>4, <1>5, <1>6, PollPark

\* cmd_tx.send adds a command, or nothing to a closed connection.
LEMMA SendGrows ==
  ASSUME cmd \in Seq(Commands), NEW c \in Commands, SendCmd(c)
  PROVE  Elems(cmd) \subseteq Elems(cmd') /\ (qconn # "closed" => c \in Elems(cmd'))
<1>1. Elems(Append(cmd, c)) = Elems(cmd) \cup {c}
  BY ElemsAppend
<1> QED BY <1>1 DEF SendCmd

\* The polls, stop_sending and the first half of a drop.
LEMMA ReadPark ==
  ASSUME IInv, NEW o, ParkInv(o), NEW s \in Streams,
         \/ Take(s) \/ CallStopSending(s) \/ DropBegin(s)
         \/ \E e \in Ends \cup {"internal"} : ResolveTo(s, e)
         \/ \E c \in {"poll", "closed", "open", "recheck", "parked"} : Move(s, c)
  PROVE  ParkInv(o)'
<1>1. chan \in [Streams -> Seq(Chunk)] /\ chan[s] \in Seq(Chunk) /\ TypeFront /\ cmd \in Seq(Commands)
  BY PollKnown
<1>2. StopSending(s) \in Commands
  BY DEF StopSending, Commands
<1>3. CASE Take(s)
  <2>1. /\ UNCHANGED <<quicheVars, workerVars, storebuf, blocked, resume, dropped, cmd>>
        /\ chan' = [chan EXCEPT ![s] = Tail(chan[s])] /\ cpc' = [cpc EXCEPT ![s] = "swap"]
        /\ cpc[s] \in {"poll", "recheck"} /\ chan[s] # <<>>
    BY <1>3 DEF Take, TakeChunk, flags
  <2>2. Tail(chan[s]) \in Seq(Chunk) /\ Len(Tail(chan[s])) <= Len(chan[s])
    BY <1>1, <2>1
  <2>3. /\ \A t \in Streams : t # s => chan'[t] = chan[t] /\ cpc'[t] = cpc[t]
        /\ cpc'[s] = "swap" /\ Len(chan'[s]) <= Len(chan[s]) /\ Len(chan'[s]) \in Nat
    BY <1>1, <2>1, <2>2 DEF TypeFront
  <2> QED BY <2>1, <2>3, FlagsPark
<1>4. CASE CallStopSending(s)
  <2>1. /\ UNCHANGED <<quicheVars, workerVars, storebuf, blocked, resume, dropped, chan, cpc>>
        /\ cpc[s] \in {"idle", "parked"} /\ SendCmd(StopSending(s))
    BY <1>4 DEF CallStopSending
  <2>2. Elems(cmd) \subseteq Elems(cmd')
    BY <1>1, <1>2, <2>1, SendGrows
  <2> QED BY <2>1, <2>2, FlagsPark
<1>5. CASE DropBegin(s)
  <2>1. /\ UNCHANGED <<quicheVars, workerVars, storebuf, blocked, resume, dropped, chan>>
        /\ cpc[s] \in {"idle", "parked"} /\ cpc' = [cpc EXCEPT ![s] = "dropping"]
        /\ UNCHANGED cmd \/ SendCmd(StopSending(s))
    BY <1>5 DEF DropBegin, flags
  <2>2. Elems(cmd) \subseteq Elems(cmd')
    BY <1>1, <1>2, <2>1, SendGrows
  <2>3. \A t \in Streams : t # s => chan'[t] = chan[t] /\ cpc'[t] = cpc[t]
    BY <1>1, <2>1 DEF TypeFront
  <2> QED BY <2>1, <2>2, <2>3, FlagsPark
<1>6. ASSUME NEW e, ResolveTo(s, e) PROVE ParkInv(o)'
  <2>1. /\ UNCHANGED <<quicheVars, workerVars, storebuf, blocked, resume, dropped, chan, cmd>>
        /\ cpc[s] \in {"closed", "recheck"} /\ cpc' = [cpc EXCEPT ![s] = "idle"]
    BY <1>6 DEF ResolveTo, Resolve, flags
  <2>2. \A t \in Streams : t # s => chan'[t] = chan[t] /\ cpc'[t] = cpc[t]
    BY <1>1, <2>1 DEF TypeFront
  <2> QED BY <2>1, <2>2, FlagsPark
<1>7. ASSUME NEW c, Move(s, c) PROVE ParkInv(o)'
  <2>1. /\ UNCHANGED <<quicheVars, workerVars, storebuf, blocked, resume, dropped, chan, cmd>>
        /\ cpc[s] \in {"idle", "parked", "poll", "open"} /\ cpc' = [cpc EXCEPT ![s] = c]
    BY <1>7 DEF Move, sharedVars
  <2>2. \A t \in Streams : t # s => chan'[t] = chan[t] /\ cpc'[t] = cpc[t]
    BY <1>1, <2>1 DEF TypeFront
  <2> QED BY <2>1, <2>2, FlagsPark
<1> QED BY <1>3, <1>4, <1>5, <1>6, <1>7

\* A stream whose flag is in the store buffer is being drained, as long as no
\* load overtakes; a clear of its resume bit is followed by the set of `blocked`
\* or belongs to its drain.
LEMMA PromisedDrains ==
  ASSUME NEW o, ParkInv(o), NEW s \in Streams
  PROVE  /\ Promised(s) /\ o = "kept" => ~Forgotten(s)
         /\ Clearing(s) => ~Visible /\ (Draining(s) \/ (Promised(s) /\ o # "kept"))
<1>1. CASE storebuf = <<>>
  BY <1>1, NoStores
<1>2. CASE wpc \in {"drain", "recheck", "read"} /\ storebuf # <<>>
  <2>1. Promised(s) \/ Clearing(s) => s = cur
    BY <1>2, Shapes DEF ParkInv, Buffered, Promised, Promises, Clearing
  <2>2. Promised(s) \/ Clearing(s) => Draining(s)
    BY <1>2, <2>1 DEF Draining
  <2> QED BY <1>2, <2>2, ForgottenForm DEF Visible
<1>3. CASE o # "kept" /\ storebuf # <<>> /\ \E r \in Streams : Promised(r)
  BY <1>3, Shapes DEF Promised, Promises, Clearing, Visible
<1> QED BY <1>1, <1>2, <1>3 DEF ParkInv, Buffered

\* The pop takes the flag and owes the resume.
LEMMA SwapPark ==
  ASSUME IInv, NEW o, ParkInv(o), NEW s \in Streams, Swap(s)
  PROVE  ParkInv(o)'
<1>1. /\ UNCHANGED <<quicheVars, workerVars, storebuf, chan, resume, dropped, cmd>>
      /\ cpc[s] = "swap" /\ blocked' = [blocked EXCEPT ![s] = FALSE]
      /\ cpc' = [cpc EXCEPT ![s] = IF blocked[s] THEN "resume" ELSE "idle"]
  BY DEF Swap
<1>2. TypeCells /\ TypeFront /\ Len(chan[s]) \in Nat
  BY PollKnown
<1>3. /\ cpc'[s] = IF blocked[s] THEN "resume" ELSE "idle"
      /\ \A t \in Streams : t # s => cpc'[t] = cpc[t] /\ blocked'[t] = blocked[t]
  BY <1>1, <1>2 DEF TypeCells, TypeFront
<1>4. /\ Forgotten(s)' => Forgotten(s)
      /\ Resuming(s) => Resuming(s)'
      /\ Stopping(s) => Stopping(s)'
      /\ UNCHANGED <<wpc, cur, qconn, recv>> /\ (Visible' <=> Visible)
      /\ (Clearing(s)' <=> Clearing(s)) /\ (Promised(s)' <=> Promised(s))
  BY <1>1, PollForgotten
<1>5. Requested(s) /\ Parked(o, s) /\ Handed(s)
  BY ParkKnown, HandedKnown
<1>6. Requested(s)'
  BY <1>1, <1>4, <1>5, RequestedKept
<1>7. Parked(o, s)'
  BY <1>1, <1>3, <1>4, <1>5, PromisedDrains DEF Parked
<1>8. Handed(s)'
  BY <1>1, <1>3, <1>4, <1>5 DEF Handed
<1>9. Len(chan'[s]) <= Len(chan[s]) /\ Len(chan'[s]) \in Nat
  BY <1>1, <1>2
<1> QED BY <1>1, <1>3, <1>6, <1>7, <1>8, <1>9, PollPark

\* A bit that is already set stands for somebody else's resume: by Requested
\* it is still under way, so that nothing has to be sent.
LEMMA BitPark ==
  ASSUME IInv, NEW o, ParkInv(o), NEW s \in Streams, Bit(s)
  PROVE  ParkInv(o)'
<1>1. /\ UNCHANGED <<quicheVars, workerVars, storebuf, chan, blocked, dropped, cmd>>
      /\ cpc[s] = "resume" /\ resume' = [resume EXCEPT ![s] = TRUE]
      /\ cpc' = [cpc EXCEPT ![s] = IF resume[s] THEN "idle" ELSE "send"]
  BY DEF Bit
<1>2. TypeCells /\ TypeFront /\ Len(chan[s]) \in Nat
  BY PollKnown
<1>3. /\ cpc'[s] = IF resume[s] THEN "idle" ELSE "send"
      /\ \A t \in Streams : t # s => cpc'[t] = cpc[t] /\ resume'[t] = resume[t]
  BY <1>1, <1>2 DEF TypeCells, TypeFront
<1>4. /\ Forgotten(s)' => Forgotten(s)
      /\ Resuming(s) => Resuming(s)'
      /\ Stopping(s) => Stopping(s)'
      /\ UNCHANGED <<wpc, cur, qconn, recv>> /\ (Visible' <=> Visible)
      /\ (Clearing(s)' <=> Clearing(s)) /\ (Promised(s)' <=> Promised(s))
  BY <1>1, PollForgotten
<1>5. Requested(s) /\ Parked(o, s) /\ Handed(s)
  BY ParkKnown, HandedKnown
<1>6. Len(chan'[s]) <= Len(chan[s]) /\ Len(chan'[s]) \in Nat
  BY <1>1, <1>2
<1>7. CASE ~resume[s]
  <2>1. cpc'[s] = "send"
    BY <1>3, <1>7
  <2>2. Requested(s)' /\ Parked(o, s)' /\ Handed(s)'
    BY <2>1 DEF Requested, Parked, Handed
  <2> QED BY <1>1, <1>3, <1>6, <2>2, PollPark
<1>8. CASE resume[s]
  <2>1. s \in recv /\ qconn = "open" => Resuming(s) \/ Clearing(s)
    BY <1>1, <1>5, <1>8 DEF Requested
  <2>3. Requested(s)'
    BY <1>1, <1>4, <2>1 DEF Requested
  <2>4. Clearing(s) => ~Visible /\ (Draining(s) \/ (Promised(s) /\ o # "kept"))
    BY PromisedDrains
  <2>5. Forgotten(s) => Promised(s) /\ o # "kept"
    BY <2>1, <2>4, ForgottenForm
  <2>6. Parked(o, s)'
    BY <1>4, <2>5 DEF Parked
  <2>7. Handed(s)'
    <3>1. wpc = "recheck" /\ cur = s => s \in recv
      BY Known DEF Loop, Busy
    <3> QED BY <1>4, <2>1, <2>4, <3>1 DEF Handed
  <2> QED BY <1>1, <1>3, <1>6, <2>3, <2>6, <2>7, PollPark
<1> QED BY <1>7, <1>8

\* The command is on its way, unless the connection is gone.
LEMMA NudgePark ==
  ASSUME IInv, NEW o, ParkInv(o), NEW s \in Streams, Nudge(s)
  PROVE  ParkInv(o)'
<1>1. /\ UNCHANGED <<quicheVars, workerVars, storebuf, chan, blocked, resume, dropped>>
      /\ cpc' = [cpc EXCEPT ![s] = "idle"] /\ SendCmd(RecvResume(s))
  BY DEF Nudge, flags
<1>2. TypeFront /\ Len(chan[s]) \in Nat /\ cmd \in Seq(Commands)
  BY PollKnown
<1>3. \A t \in Streams : t # s => cpc'[t] = cpc[t]
  BY <1>1, <1>2 DEF TypeFront
<1>4. Elems(cmd) \subseteq Elems(cmd') /\ (qconn # "closed" => RecvResume(s) \in Elems(cmd'))
  <2>1. RecvResume(s) \in Commands
    BY DEF RecvResume, Commands
  <2> QED BY <1>1, <1>2, <2>1, SendGrows
<1>5. qconn' = "open" => Resuming(s)'
  <2>1. RecvResume(s)' = RecvResume(s) /\ qconn' = qconn
    BY <1>1 DEF RecvResume, quicheVars
  <2> QED BY <1>4, <2>1 DEF Resuming
<1>6. Requested(s)' /\ Handed(s)'
  BY <1>5 DEF Requested, Handed
<1>7. Parked(o, s)'
  BY <1>5, ForgottenFormPrime DEF Parked
<1>8. Len(chan'[s]) <= Len(chan[s]) /\ Len(chan'[s]) \in Nat
  BY <1>1, <1>2
<1> QED BY <1>1, <1>3, <1>4, <1>6, <1>7, <1>8, PollPark

\* With the Receiver gone there is nobody to resume for.
LEMMA DropEndPark ==
  ASSUME IInv, NEW o, ParkInv(o), NEW s \in Streams, DropEnd(s)
  PROVE  ParkInv(o)'
<1>1. /\ UNCHANGED <<quicheVars, workerVars, storebuf, blocked, resume, cmd>>
      /\ cpc[s] = "dropping" /\ cpc' = [cpc EXCEPT ![s] = "idle"]
      /\ chan' = [chan EXCEPT ![s] = <<>>] /\ dropped' = [dropped EXCEPT ![s] = TRUE]
  BY DEF DropEnd, flags
<1>2. TypeCells /\ TypeFront /\ Len(chan[s]) \in Nat
  BY PollKnown
<1>3. /\ chan'[s] = <<>> /\ dropped'[s] = TRUE
      /\ \A t \in Streams : t # s => chan'[t] = chan[t] /\ cpc'[t] = cpc[t] /\ dropped'[t] = dropped[t]
  BY <1>1, <1>2 DEF TypeCells, TypeFront
<1>4. Handed(s)'
  BY <1>3 DEF Handed
<1>5. Parked(o, s)'
  BY <1>3, ForgottenFormPrime DEF Parked
<1>6. Requested(s)'
  <2>1. Requested(s)
    BY ParkKnown
  <2>2. UNCHANGED <<qconn, recv, pending_resume>>
    BY <1>1 DEF quicheVars, workerVars, queueVars
  <2>3. Resuming(s) => Resuming(s)'
    BY <1>1, <2>2, MailKept
  <2>4. Clearing(s)' <=> Clearing(s)
    BY <1>1, SameStores
  <2> QED BY <1>1, <2>1, <2>2, <2>3, <2>4, RequestedKept
<1>7. Len(chan'[s]) <= Len(chan[s]) /\ Len(chan'[s]) \in Nat
  BY <1>2, <1>3
<1> QED BY <1>1, <1>3, <1>4, <1>5, <1>6, <1>7, PollPark

\* Every step of Polls keeps the parking invariant.
LEMMA PollsPark ==
  ASSUME IInv, NEW o, ParkInv(o), Polls
  PROVE  ParkInv(o)'
<1>1. PICK s \in Streams :
        \/ Take(s) \/ Swap(s) \/ Bit(s) \/ Nudge(s)
        \/ CallStopSending(s) \/ DropBegin(s) \/ DropEnd(s)
        \/ \E e \in Ends \cup {"internal"} : ResolveTo(s, e)
        \/ \E c \in {"poll", "closed", "open", "recheck", "parked"} : Move(s, c)
  BY DEF Polls
<1> QED BY <1>1, ReadPark, SwapPark, BitPark, NudgePark, DropEndPark

\* At the start there is nothing to read and nothing is parked.
LEMMA InitPark ==
  ASSUME NEW o, Init
  PROVE  ParkInv(o)
<1>1. Buffered(o) /\ Offered
  BY DEF Init, Buffered, Offered
<1>2. Fits
  BY BoundsAssumption DEF Init, Fits
<1>3. ASSUME NEW s \in Streams PROVE Requested(s) /\ Parked(o, s)
  <2>1. ~resume[s] /\ ~stream_readable(s)
    BY DEF Init, stream_readable
  <2> QED BY <2>1, ForgottenForm DEF Requested, Parked
<1> QED BY <1>1, <1>2, <1>3 DEF ParkInv

\* Every step keeps the parking invariant; with the order kept, every step that
\* overtakes no store.
LEMMA StepPark ==
  ASSUME NEW o, IInv, ParkInv(o), [Next]_vars, o = "kept" => ~Overtakes
  PROVE  ParkInv(o)'
<1>1. CASE Next
  BY <1>1, StepCases, BookkeepingPark, EffectsPark, PollsPark
<1>2. CASE UNCHANGED vars
  <2>1. UNCHANGED <<quicheVars, recv, queueVars, loopVars, sharedVars, frontVars>>
    BY <1>2 DEF vars, workerVars
  <2>2. Buffered(o)' /\ Fits'
    <3>1. \A t : Promised(t)' <=> Promised(t)
      BY <2>1, SameStores DEF sharedVars
    <3> QED BY <2>1, <3>1 DEF ParkInv, Buffered, Fits, loopVars, sharedVars
  <2>3. UNCHANGED <<pending_readable, pending_resume, cmd, storebuf, resume, blocked, chan, cpc, dropped,
                    recv, qconn, qshut, qsent, qnext, qend, qarmed, wpc, cur>>
    BY <2>1 DEF queueVars, sharedVars, frontVars, quicheVars, loopVars
  <2>4. ASSUME NEW t \in Streams PROVE Requested(t)' /\ Parked(o, t)'
    <3>1. /\ Requested(t) /\ Parked(o, t)
          /\ Resuming(t) => Resuming(t)'
          /\ Stopping(t) => Stopping(t)'
          /\ InReadable(t) => InReadable(t)'
          /\ Draining(t) => Draining(t)'
          /\ (Clearing(t)' <=> Clearing(t)) /\ (Promised(t)' <=> Promised(t))
      BY <2>3, ParkKnown, MailKept, SameStores DEF Draining
    <3>2. Forgotten(t)' => Forgotten(t)
      BY <2>3, <3>1, ForgottenKept
    <3> QED BY <2>3, <3>1, <3>2, ParkedKept, RequestedKept
  <2>5. Offered'
    <3>1. Offered
      BY DEF ParkInv
    <3> QED BY <2>3, <3>1 DEF Offered, Visible, Resuming, Stopping, RecvResume, StopSending
  <2> QED BY <2>2, <2>4, <2>5, ParkAssemble
<1> QED BY <1>1, <1>2

\* drain_stream's flag is never lost, under either memory order: whatever the
\* interleaving of the drain, the pops and the stores that become visible late, a
\* stream that nobody will come back to has `blocked` set or on its way, or its
\* reader is sending the resume.
THEOREM FlagIsNeverLost == Spec => []ParkIsFlagged
<1>1. Init => IInv /\ ParkInv("any")
  BY InitInvariant, InitPark
<1>2. IInv /\ ParkInv("any") /\ [Next]_vars => (IInv /\ ParkInv("any"))'
  BY StepInvariant, StepPark, "any" # "kept"
<1>3. ParkInv("any") => ParkIsFlagged
  BY DEF ParkInv, Parked, ParkIsFlagged
<1> QED BY <1>1, <1>2, <1>3, PTL DEF Spec

\* drain_stream's claim that it never parks with a slot already free, under
\* either memory order: it holds in every behaviour in which the second
\* try_reserve does not find the channel full before the store of `blocked` is
\* visible.  So that load passing that store is the only way the claim fails.
THEOREM ParksWithFreeSlotOnlyByOvertaking ==
  Spec /\ [][~Overtakes]_vars => []NeverParksWithFreeSlot
<1>1. Init => IInv /\ ParkInv("kept")
  BY InitInvariant, InitPark
<1>2. IInv /\ ParkInv("kept") /\ [Next]_vars /\ [~Overtakes]_vars => (IInv /\ ParkInv("kept"))'
  <2> SUFFICES ASSUME IInv, ParkInv("kept"), [Next]_vars, [~Overtakes]_vars
               PROVE  IInv' /\ ParkInv("kept")'
    OBVIOUS
  <2>1. ~Overtakes
    <3>1. CASE UNCHANGED vars
      BY <3>1 DEF Overtakes, vars, workerVars, loopVars
    <3> QED BY <3>1
  <2> QED BY <2>1, StepInvariant, StepPark
<1>3. ParkInv("kept") => NeverParksWithFreeSlot
  <2> SUFFICES ASSUME ParkInv("kept"), NEW s \in Streams, Forgotten(s)
               PROVE  \/ Len(chan[s]) = Depth /\ (blocked[s] \/ ~Visible)
                      \/ cpc[s] = "swap" /\ (blocked[s] \/ ~Visible)
                      \/ cpc[s] \in {"resume", "send", "dropping"}
    BY DEF NeverParksWithFreeSlot
  <2>1. Promised(s) => ~Visible
    BY NoStores DEF Visible
  <2> QED BY <2>1 DEF ParkInv, Parked
<1> QED BY <1>1, <1>2, <1>3, PTL DEF Spec

-----------------------------------------------------------------------------
(* The cursors *)

\* A push of what is not there keeps a cursor exact-once.
LEMMA OnceEnqueue ==
  ASSUME NEW S, NEW q \in Seq(S), NEW x \in S, Once(q)
  PROVE  Once(Enqueue(q, x))
<1>1. CASE x \in Elems(q)
  BY <1>1 DEF Enqueue
<1>2. CASE x \notin Elems(q)
  <2> DEFINE w == Append(q, x)
  <2>1. /\ DOMAIN w = 1..Len(q) + 1 /\ DOMAIN q = 1..Len(q) /\ Len(q) \in Nat
        /\ w[Len(q) + 1] = x /\ \A i \in 1..Len(q) : w[i] = q[i]
    OBVIOUS
  <2>2. \A i \in 1..Len(q) : q[i] # x
    BY <1>2, <2>1 DEF Elems
  <2>3. Enqueue(q, x) = w
    BY <1>2 DEF Enqueue
  <2> HIDE DEF w
  <2>4. \A i \in 1..Len(q) + 1 : i \in 1..Len(q) \/ i = Len(q) + 1
    BY <2>1
  <2>5. Once(w)
    BY <2>1, <2>2, <2>4 DEF Once
  <2> QED BY <2>3, <2>5
<1> QED BY <1>1, <1>2

\* A pop keeps a cursor exact-once.
LEMMA OnceTail ==
  ASSUME NEW S, NEW q \in Seq(S), q # <<>>, Once(q)
  PROVE  Once(Tail(q))
<1>1. Tail(q) \in Seq(S) /\ Len(Tail(q)) = Len(q) - 1 /\ Len(q) \in Nat \ {0}
  OBVIOUS
<1>2. \A i \in 1..Len(q) - 1 : Tail(q)[i] = q[i + 1]
  OBVIOUS
<1>3. DOMAIN Tail(q) = 1..Len(q) - 1 /\ DOMAIN q = 1..Len(q)
  BY <1>1
<1>4. ASSUME NEW i \in 1..Len(q) - 1, NEW j \in 1..Len(q) - 1, Tail(q)[i] = Tail(q)[j]
      PROVE  i = j
  <2>1. i + 1 \in DOMAIN q /\ j + 1 \in DOMAIN q /\ q[i + 1] = q[j + 1]
    BY <1>1, <1>2, <1>3, <1>4
  <2>2. i + 1 = j + 1
    BY <2>1 DEF Once
  <2> QED BY <2>2
<1> QED BY <1>3, <1>4 DEF Once

\* A removal keeps it, and leaves nothing of what it took out.
LEMMA OnceWithout ==
  ASSUME NEW S, NEW q \in Seq(S), NEW s \in S, Once(q)
  PROVE  Once(Without(q, s)) /\ s \notin Elems(Without(q, s))
<1>1. CASE s \notin Elems(q)
  BY <1>1 DEF Without
<1>2. CASE s \in Elems(q)
  <2> DEFINE w == Without(q, s)
  <2>1. PICK k \in DOMAIN q :
          /\ q[k] = s /\ Len(w) = Len(q) - 1
          /\ \A i \in 1..Len(q) - 1 : w[i] = IF i < k THEN q[i] ELSE q[i + 1]
    BY <1>2, WithoutShape
  <2>2. w \in Seq(S)
    BY <1>2, WithoutShape
  <2> HIDE DEF w
  <2>3. DOMAIN w = 1..Len(q) - 1 /\ DOMAIN q = 1..Len(q) /\ Len(q) \in Nat
    BY <2>1, <2>2
  <2> DEFINE at(i) == IF i < k THEN i ELSE i + 1
  <2>4. ASSUME NEW i \in DOMAIN w
        PROVE  at(i) \in DOMAIN q /\ at(i) # k /\ w[i] = q[at(i)]
    BY <2>1, <2>3
  <2>5. ASSUME NEW i \in DOMAIN w, NEW j \in DOMAIN w, at(i) = at(j) PROVE i = j
    BY <2>3, <2>5
  <2> HIDE DEF at
  <2>6. Once(w)
    BY <2>4, <2>5 DEF Once
  <2>7. \A i \in DOMAIN w : w[i] # s
    BY <2>1, <2>4 DEF Once
  <2> QED BY <2>6, <2>7 DEF Elems, w
<1> QED BY <1>1, <1>2

\* Whatever of these a step does to a cursor.
LEMMA OnceStep ==
  ASSUME NEW q \in Seq(Streams), NEW r, Once(q),
         \/ r = q
         \/ q # <<>> /\ r = Tail(q)
         \/ \E s \in Streams : r \in {Enqueue(q, s), Without(q, s)}
  PROVE  Once(r)
<1>1. CASE r = q
  BY <1>1
<1>2. CASE q # <<>> /\ r = Tail(q)
  BY <1>2, OnceTail
<1>3. ASSUME NEW s \in Streams, r \in {Enqueue(q, s), Without(q, s)} PROVE Once(r)
  BY <1>3, OnceEnqueue, OnceWithout
<1> QED BY <1>1, <1>2, <1>3

\* Every step that touches a cursor pushes, pops or removes.
LEMMA CursorSteps ==
  ASSUME IInv, Next
  PROVE  /\ \/ pending_readable' = pending_readable
            \/ pending_readable # <<>> /\ pending_readable' = Tail(pending_readable)
            \/ \E s \in Streams : pending_readable' \in {Enqueue(pending_readable, s),
                                                         Without(pending_readable, s)}
         /\ \/ pending_resume' = pending_resume
            \/ pending_resume # <<>> /\ pending_resume' = Tail(pending_resume)
            \/ \E s \in Streams : pending_resume' \in {Enqueue(pending_resume, s),
                                                       Without(pending_resume, s)}
<1> DEFINE Reads == \/ pending_readable' = pending_readable
                    \/ pending_readable # <<>> /\ pending_readable' = Tail(pending_readable)
                    \/ \E s \in Streams : pending_readable' \in {Enqueue(pending_readable, s),
                                                                 Without(pending_readable, s)}
           Resumes == \/ pending_resume' = pending_resume
                      \/ pending_resume # <<>> /\ pending_resume' = Tail(pending_resume)
                      \/ \E s \in Streams : pending_resume' \in {Enqueue(pending_resume, s),
                                                                 Without(pending_resume, s)}
<1>1. Busy => cur \in Streams
  BY Known, CurIsStream
<1>2. CASE Bookkeeping
  <2>1. CASE Advance \/ Room \/ Full \/ ReachEnd
    BY <2>1 DEF Advance, Room, Full, ReachEnd, queueVars
  <2>2. CASE Leave
    BY <1>1, <2>2 DEF Leave, queueVars, Busy
  <2>3. ASSUME NEW s \in Streams, ApplyResume(s) \/ IntakeOne(s) \/ PopResume(s) \/ PopReadable(s)
        PROVE  Reads /\ Resumes
    BY <2>3 DEF ApplyResume, IntakeOne, PopResume, PopReadable
  <2>4. ASSUME NEW s \in Streams, NEW v \in BOOLEAN, FlushBlocked(s, v) \/ FlushResume(s, v)
        PROVE  Reads /\ Resumes
    BY <2>4 DEF FlushBlocked, FlushResume, workerVars, queueVars
  <2> QED BY <1>2, <2>1, <2>2, <2>3, <2>4 DEF Bookkeeping
<1>3. CASE Effects
  <2>1. CASE Abandon \/ SealRecv
    BY <1>1, <2>1 DEF Abandon, AbandonRecv, SealRecv, mark_recv_done, Busy
  <2>2. CASE Push \/ PublishTerminal \/ CloseDrop \/ ConnectionClosing
    BY <2>2 DEF Push, PublishTerminal, CloseDrop, ConnectionClosing, workerVars, queueVars
  <2>3. ASSUME NEW s \in Streams, ApplyStop(s) PROVE Reads /\ Resumes
    BY <2>3 DEF ApplyStop, mark_recv_done
  <2>4. ASSUME NEW s \in Streams,
               ClosePublish(s) \/ FrameChunk(s) \/ FrameEnd(s, "fin") \/ FrameEnd(s, "reset")
        PROVE  Reads /\ Resumes
    BY <2>4 DEF ClosePublish, FrameChunk, FrameEnd, workerVars, queueVars
  <2> QED BY <1>3, <2>1, <2>2, <2>3, <2>4 DEF Effects
<1>4. CASE Polls
  <2>1. UNCHANGED workerVars
    BY <1>4 DEF Polls, Take, Swap, Bit, Nudge, CallStopSending, DropBegin, DropEnd, ResolveTo, Move
  <2> QED BY <2>1 DEF workerVars, queueVars
<1> QED BY <1>2, <1>3, <1>4, StepCases

\* readable_set and resume_set keep each cursor exact-once, so that one removal
\* takes a released stream out of it.
THEOREM CursorsExactOnce == Spec => []ExactOnce
<1>1. Init => ExactOnce
  BY DEF Init, ExactOnce, Once
<1>2. IInv /\ ExactOnce /\ [Next]_vars => ExactOnce'
  <2> SUFFICES ASSUME IInv, ExactOnce, [Next]_vars PROVE ExactOnce'
    OBVIOUS
  <2>1. pending_readable \in Seq(Streams) /\ pending_resume \in Seq(Streams)
    BY Known DEF Types, TypeQueues
  <2>2. CASE Next
    <3>0. Once(pending_readable) /\ Once(pending_resume)
      BY DEF ExactOnce
    <3>1. Once(pending_readable')
      BY <2>1, <2>2, <3>0, CursorSteps, OnceStep
    <3>2. Once(pending_resume')
      BY <2>1, <2>2, <3>0, CursorSteps, OnceStep
    <3> QED BY <3>1, <3>2 DEF ExactOnce, Once
  <2>3. CASE UNCHANGED vars
    BY <2>3 DEF vars, workerVars, queueVars, ExactOnce, Once
  <2> QED BY <2>2, <2>3
<1> QED BY <1>1, <1>2, Invariant, PTL DEF Spec
=============================================================================
