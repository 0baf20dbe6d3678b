--------------------------- MODULE SendPathProofs ---------------------------
(***************************************************************************)
(* The send path, for every set of streams, every size of a write and      *)
(* every budget.                                                           *)
(*                                                                         *)
(* A stream's commands and operations form a chain: the handle, the        *)
(* command channel, the operation queue, the held write and the wire.      *)
(* Queues says what the channel and the queue of one stream may hold,      *)
(* Handle what that means for the front end, EntryState and Reported what  *)
(* a terminal means for the entry and for the answers, and Carried where   *)
(* the bytes of every write are.  Turns is about the round robin.          *)
(***************************************************************************)
EXTENDS SendPath, FiniteSetTheorems, SequenceTheorems, TLAPS

\* Commands of s in the channel q, and operations of a kind in a queue.
Has(q, s, o) == \E i \in DOMAIN q : q[i].id = s /\ q[i].op = o
HasOp(ops, k) == \E i \in DOMAIN ops : ops[i].kind = k

\* A finish or a reset is the last command of its stream, and at most one
\* write comes before it.
InOrder(q, s) ==
  \A i, j \in DOMAIN q :
    i < j /\ q[i].id = s /\ q[j].id = s => q[i].op = "Send" /\ q[j].op # "Send"
OpsInOrder(ops) ==
  \A i \in DOMAIN ops : /\ ops[i].kind = "write" => i = 1
                        /\ ops[i].kind = "finish" => i = Len(ops)

\* The writes of s that wait in q are its latest one.
SendsAre(q, s, g, k) ==
  \A i \in DOMAIN q : q[i].id = s /\ q[i].op = "Send" => q[i].n = g /\ q[i].size = k
OpsAre(ops, g) == \A i \in DOMAIN ops : ops[i].kind = "write" => ops[i].n = g

Wrote(s, x) == x \in Elems(wire[s])
OpsOf(s) == Entry(s).send_ops

Writing(s) == Has(cmd, s, "Send") \/ HasOp(OpsOf(s), "write")
Finishing(s) == Has(cmd, s, "Finish") \/ HasOp(OpsOf(s), "finish") \/ Wrote(s, FIN)
Resetting(s) == Has(cmd, s, "Reset") \/ Entry(s).pending_reset \/ Wrote(s, RESET)

Queues(s) ==
  /\ InOrder(cmd, s) /\ OpsInOrder(OpsOf(s))
  /\ Has(cmd, s, "Send") => ~HasOp(OpsOf(s), "write") /\ Len(submitted[s]) > 0
  /\ HasOp(OpsOf(s), "write") => Len(submitted[s]) > 0
  /\ HasOp(OpsOf(s), "finish") \/ Wrote(s, FIN) =>
       ~Has(cmd, s, "Send") /\ ~Has(cmd, s, "Finish") /\ ~Has(cmd, s, "Reset")
  /\ Entry(s).pending_reset \/ Wrote(s, RESET) => ~Has(cmd, s, "Reset")
  /\ SendsAre(cmd, s, Len(submitted[s]), submitted[s][Len(submitted[s])])
  /\ OpsAre(OpsOf(s), Len(submitted[s]))

Handle(s) ==
  /\ Writing(s) => fpc[s] \in {"inflight", "dropped"}
  /\ Writing(s) /\ fpc[s] = "inflight" => slot[s] = NoSlot
  /\ fpc[s] = "inflight" => Writing(s) \/ slot[s] # NoSlot
  /\ Finishing(s) => finalized[s] /\ fpc[s] \in {"finwait", "over", "dropped"}
  /\ Resetting(s) => finalized[s] /\ fpc[s] \notin {"flush", "fin", "finwait"}
  /\ ~(Resetting(s) /\ Finishing(s))
  /\ fpc[s] = "flush" => ~finalized[s]
  /\ fpc[s] \in {"fin", "finwait"} => finalized[s]
  /\ fpc[s] \in {"idle", "inflight"} /\ finalized[s] => TerminalNow(s) # "none"

EntryState(s) ==
  /\ Entry(s).terminal # "none" => OpsOf(s) = <<>> /\ Entry(s).held = NoHeld
  /\ Entry(s).finished =>
       /\ OpsOf(s) = <<>> /\ Entry(s).held = NoHeld /\ ~Entry(s).pending_reset
       /\ qsend[s] # "open"
  /\ Entry(s).finished /\ Entry(s).terminal = "none" => Wrote(s, FIN)
  /\ Entry(s).pending_reset => Entry(s).terminal # "none"
  /\ Entry(s).held # NoHeld => Entry(s).held.n > 0 /\ Entry(s).held.rem > 0
  /\ ~Entry(s).shared => qsend[s] # "open"
  /\ Wrote(s, FIN) => qsend[s] \in {"fin", "gone"}
  /\ Wrote(s, RESET) => qsend[s] \in {"shut", "gone"}
  /\ Wrote(s, FIN) /\ s \in DOMAIN send => Entry(s).finished /\ s \in recv

Reported(s) ==
  /\ \/ Entry(s).shared /\ Entry(s).terminal = "none" /\ ~Entry(s).finished
     \/ status[s] # "none" \/ Wrote(s, FIN)
  /\ conn_terminal => status[s] # "none" \/ Wrote(s, FIN)
  /\ finslot[s] = "ok" \/ finish_result[s] = "ok" => Wrote(s, FIN)
  /\ slot[s] # "internal" /\ finslot[s] # "internal"
  /\ failed[s] # "internal" /\ finish_result[s] # "internal"

Stage ==
  /\ wpc = "turn" => cur \in Streams
  /\ conn_terminal => wpc \in {"close", "exited"} /\ \A s \in DOMAIN send : send[s].terminal # "none"
  /\ wpc \in {"close", "exited"} => conn_terminal /\ qconn # "open"
  /\ ~ingress => wpc = "exited"

Chain(s) == Queues(s) /\ Handle(s) /\ EntryState(s) /\ Reported(s)
IInv == TypeOK /\ Stage /\ \A s \in Streams : Chain(s)

-----------------------------------------------------------------------------
(* The round robin *)

Once(q) == \A i, j \in DOMAIN q : q[i] = q[j] => i = j

\* An id is in the round robin once, and the worker never waits with one in
\* it unless it has asked for another iteration.
Robin ==
  /\ Once(runnable_send)
  /\ wpc = "turn" => cur \notin Elems(runnable_send)
  /\ wpc = "wait" /\ ~needs_iteration => runnable_send = <<>>

\* WorkIsCovered for one stream: its work has a turn, its turn has work.
Covered(s) ==
  s \in DOMAIN send /\ qconn = "open" =>
    /\ Entry(s).pending_reset => s \in HasTurn
    /\ Entry(s).terminal = "none" /\ OpsOf(s) # <<>> =>
         s \in HasTurn \cup qarmed \/ qsend[s] = "gone"
Useful(s) ==
  s \in HasTurn /\ ~conn_terminal =>
    \/ Entry(s).pending_reset
    \/ Entry(s).terminal = "none" /\ (OpsOf(s) # <<>> \/ Entry(s).held # NoHeld)

\* quiche's half is finished by a FIN and shut by a RESET_STREAM only; a reset
\* that was applied is emitted once and leaves nothing to write.
Half(s) ==
  /\ qsend[s] = "fin" => Wrote(s, FIN)
  /\ qsend[s] = "shut" => Wrote(s, RESET)
  /\ Entry(s).pending_reset => ~Wrote(s, RESET)
  /\ Entry(s).pending_reset \/ Wrote(s, RESET) => ~Writing(s)

Turns == Robin /\ \A s \in Streams : Covered(s) /\ Useful(s) /\ Half(s)

-----------------------------------------------------------------------------
(* The bytes *)

\* WireIsBody for one stream: w on the wire, b the sizes of its writes.
Count(w, n) == Cardinality({i \in DOMAIN w : w[i] = n})
IsBody(w, b) ==
  /\ \A j \in DOMAIN w :
       /\ \A i \in 1..j - 1 : w[i] > 0
       /\ w[j] <= Len(b)
       /\ w[j] > 0 =>
            /\ Count(w, w[j]) <= b[w[j]]
            /\ \A i \in 1..j - 1 : w[i] <= w[j]
            /\ \A n \in 1..w[j] - 1 : Count(w, n) = b[n]
  /\ FIN \in Elems(w) => \A n \in 1..Len(b) : Count(w, n) = b[n]

Live(s) == s \in DOMAIN send /\ Entry(s).shared /\ Entry(s).terminal = "none" /\ ~Entry(s).finished

\* With c units of k on the wire, the write in a queue is the rest of them.
Owes(ops, c, k) == \A i \in DOMAIN ops : ops[i].kind = "write" => c + ops[i].rem = k

\* Every write of a live stream is on the wire, up to what is held, queued or
\* still in the channel.
Carried(s) ==
  LET g == Len(submitted[s])
      h == Entry(s).held IN
  /\ \A n \in 1..g : n # h.n /\ ~(n = g /\ Writing(s)) => Count(wire[s], n) = submitted[s][n]
  /\ h # NoHeld =>
       /\ h.n \in 1..g /\ h.rem > 0 /\ Count(wire[s], h.n) + h.rem = submitted[s][h.n]
       /\ \A i \in DOMAIN wire[s] : wire[s][i] <= h.n
  /\ Writing(s) => h.n # g
  /\ Has(cmd, s, "Send") => Count(wire[s], g) = 0
  /\ Owes(OpsOf(s), Count(wire[s], g), submitted[s][g])

Body(s) == IsBody(wire[s], submitted[s]) /\ (Live(s) => Carried(s))
BodyInv == \A s \in Streams : Body(s)

-----------------------------------------------------------------------------
(* Sequences *)
\* What a queue holds after a push, a pop and a push of something new.
LEMMA ElemsAppend ==
  ASSUME NEW S, NEW q \in Seq(S), NEW x \in S
  PROVE  Append(q, x) \in Seq(S) /\ Elems(Append(q, x)) = Elems(q) \cup {x}
<1>1. /\ Append(q, x) \in Seq(S) /\ DOMAIN Append(q, x) = 1..Len(q) + 1
      /\ DOMAIN q = 1..Len(q) /\ Len(q) \in Nat
  OBVIOUS
<1>2. Append(q, x)[Len(q) + 1] = x /\ \A i \in 1..Len(q) : Append(q, x)[i] = q[i]
  OBVIOUS
<1>3. \A i \in 1..Len(q) + 1 : i \in 1..Len(q) \/ i = Len(q) + 1
  BY <1>1
<1>4. Len(q) + 1 \in 1..Len(q) + 1 /\ \A i \in 1..Len(q) : i \in 1..Len(q) + 1
  BY <1>1
<1> QED BY <1>1, <1>2, <1>3, <1>4 DEF Elems

\* A pop takes the head and leaves the rest.
LEMMA ElemsTail ==
  ASSUME NEW S, NEW q \in Seq(S), q # <<>>
  PROVE  /\ Head(q) \in S /\ Tail(q) \in Seq(S) /\ Len(Tail(q)) = Len(q) - 1
         /\ Elems(q) = Elems(Tail(q)) \cup {Head(q)}
<1>1. Tail(q) \in Seq(S) /\ Len(Tail(q)) = Len(q) - 1 /\ Len(q) \in Nat \ {0} /\ Head(q) = q[1]
  OBVIOUS
<1>2. \A i \in 1..Len(q) - 1 : Tail(q)[i] = q[i + 1]
  OBVIOUS
<1>3. ASSUME NEW i \in DOMAIN q PROVE q[i] \in Elems(Tail(q)) \cup {Head(q)}
  <2>1. CASE i = 1
    BY <1>1, <2>1
  <2>2. CASE i # 1
    <3>1. i - 1 \in 1..Len(Tail(q)) /\ Tail(q)[i - 1] = q[i]
      BY <1>1, <1>2, <2>2
    <3> QED BY <1>1, <3>1 DEF Elems
  <2> QED BY <2>1, <2>2
<1>4. ASSUME NEW i \in DOMAIN Tail(q) PROVE Tail(q)[i] \in Elems(q)
  BY <1>1, <1>2 DEF Elems
<1>5. Head(q) \in Elems(q) /\ Head(q) \in S
  BY <1>1 DEF Elems
<1> QED BY <1>1, <1>3, <1>4, <1>5 DEF Elems

\* mark_send_runnable adds the id, if it was not there.
LEMMA ElemsEnqueue ==
  ASSUME NEW S, NEW q \in Seq(S), NEW x \in S
  PROVE  /\ Enqueue(q, x) \in Seq(S) /\ Elems(Enqueue(q, x)) = Elems(q) \cup {x}
         /\ Once(q) => Once(Enqueue(q, x))
<1>1. Enqueue(q, x) \in Seq(S) /\ Elems(Enqueue(q, x)) = Elems(q) \cup {x}
  BY ElemsAppend DEF Enqueue
<1>2. ASSUME Once(q), x \notin Elems(q) PROVE Once(Append(q, x))
  <2>1. /\ DOMAIN Append(q, x) = 1..Len(q) + 1 /\ DOMAIN q = 1..Len(q) /\ Len(q) \in Nat
        /\ Append(q, x)[Len(q) + 1] = x /\ \A i \in 1..Len(q) : Append(q, x)[i] = q[i]
    OBVIOUS
  <2>2. \A i \in 1..Len(q) + 1 : i \in 1..Len(q) \/ i = Len(q) + 1
    BY <2>1
  <2>3. \A i \in 1..Len(q) : q[i] # x
    BY <1>2, <2>1 DEF Elems
  <2> QED BY <1>2, <2>1, <2>2, <2>3 DEF Once
<1> QED BY <1>1, <1>2 DEF Enqueue

\* The head of a queue that holds its members once is not in the rest.
LEMMA OnceTail ==
  ASSUME NEW S, NEW q \in Seq(S), q # <<>>, Once(q)
  PROVE  Once(Tail(q)) /\ Head(q) \notin Elems(Tail(q))
<1>1. /\ Tail(q) \in Seq(S) /\ Len(Tail(q)) = Len(q) - 1 /\ Len(q) \in Nat \ {0} /\ Head(q) = q[1]
      /\ DOMAIN q = 1..Len(q) /\ DOMAIN Tail(q) = 1..Len(q) - 1
  OBVIOUS
<1>2. \A i \in DOMAIN Tail(q) : Tail(q)[i] = q[i + 1] /\ i + 1 \in DOMAIN q /\ i + 1 # 1 /\ 1 \in DOMAIN q
  BY <1>1
<1>3. \A i, j \in DOMAIN Tail(q) : i + 1 = j + 1 => i = j
  BY <1>1
<1>4. Once(Tail(q))
  BY <1>2, <1>3 DEF Once
<1>5. Head(q) \notin Elems(Tail(q))
  BY <1>1, <1>2 DEF Once, Elems
<1> QED BY <1>4, <1>5

\* Taking s out keeps everything else, and its first place closes up.
LEMMA WithoutShape ==
  ASSUME NEW S, NEW q \in Seq(S), NEW s \in Elems(q)
  PROVE  /\ Without(q, s) \in Seq(S)
         /\ \E k \in DOMAIN q :
              /\ q[k] = s /\ Len(Without(q, s)) = Len(q) - 1
              /\ \A i \in 1..Len(q) - 1 :
                   Without(q, s)[i] = IF i < k THEN q[i] ELSE q[i + 1]
<1> DEFINE k == CHOOSE k \in DOMAIN q : q[k] = s
           a == SubSeq(q, 1, k - 1)
           b == SubSeq(q, k + 1, Len(q))
<1>1. k \in DOMAIN q /\ q[k] = s /\ Len(q) \in Nat
  BY DEF Elems
<1>2. Without(q, s) = a \o b
  BY DEF Without
<1> HIDE DEF k
<1>3. a \in Seq(S) /\ Len(a) = k - 1 /\ \A i \in 1..k - 1 : a[i] = q[i]
  <2>1. k \in 1..Len(q) /\ \A i \in 1..Len(q) : q[i] \in S
    BY <1>1
  <2> QED BY <2>1, SubSeqProperties
<1>4. b \in Seq(S) /\ Len(b) = Len(q) - k /\ \A i \in 1..Len(q) - k : b[i] = q[i + k]
  <2>1. k \in 1..Len(q) /\ \A i \in 1..Len(q) : q[i] \in S
    BY <1>1
  <2> QED BY <2>1, SubSeqProperties
<1> HIDE DEF a, b
<1>5. /\ a \o b \in Seq(S) /\ Len(a \o b) = Len(q) - 1
      /\ \A i \in 1..Len(q) - 1 : (a \o b)[i] = IF i < k THEN q[i] ELSE q[i + 1]
  <2>1. a \o b \in Seq(S) /\ Len(a \o b) = Len(q) - 1
    BY <1>1, <1>3, <1>4
  <2>2. ASSUME NEW i \in 1..Len(q) - 1, i < k PROVE (a \o b)[i] = q[i]
    BY <1>1, <1>3, <1>4, <2>2
  <2>3. ASSUME NEW i \in 1..Len(q) - 1, ~(i < k) PROVE (a \o b)[i] = q[i + 1]
    <3>0. k \in 1..Len(q)
      BY <1>1
    <3>1. k \in 1..Len(q) /\ i - (k - 1) \in 1..Len(q) - k /\ i \in Len(a) + 1..Len(a) + Len(b)
      <4>1. \A l, j, m \in Nat : j \in 1..l /\ m \in 1..l - 1 /\ ~(m < j) =>
              m - (j - 1) \in 1..l - j /\ m \in (j - 1) + 1..(j - 1) + (l - j)
        OBVIOUS
      <4>2. Len(q) \in Nat /\ k \in Nat /\ i \in Nat
        BY <1>1, <3>0
      <4> QED BY <1>3, <1>4, <2>3, <3>0, <4>1, <4>2
    <3>2. (a \o b)[i] = b[i - Len(a)]
      <4>1. \A j \in 1..Len(a) + Len(b) : (a \o b)[j] = IF j <= Len(a) THEN a[j] ELSE b[j - Len(a)]
        BY <1>3, <1>4, ConcatProperties
      <4>2. Len(a) \in Nat /\ Len(b) \in Nat
        BY <1>3, <1>4
      <4>3. i \in 1..Len(a) + Len(b) /\ ~(i <= Len(a))
        BY <3>1, <4>2
      <4> QED BY <4>1, <4>3
    <3>3. b[i - (k - 1)] = q[(i - (k - 1)) + k]
      BY <1>4, <3>1
    <3>4. (i - (k - 1)) + k = i + 1 /\ i - Len(a) = i - (k - 1)
      BY <3>1, <1>3
    <3> QED BY <3>2, <3>3, <3>4
  <2> QED BY <2>1, <2>2, <2>3
<1> QED BY <1>1, <1>2, <1>5

\* send_terminal_transition and classify_send_err lose no other id.
LEMMA ElemsWithout ==
  ASSUME NEW S, NEW q \in Seq(S), NEW s \in S
  PROVE  /\ Without(q, s) \in Seq(S)
         /\ \A t \in Elems(q) : t # s => t \in Elems(Without(q, s))
         /\ Elems(Without(q, s)) \subseteq Elems(q)
         /\ Once(q) => Once(Without(q, s)) /\ s \notin Elems(Without(q, s))
<1>1. CASE s \notin Elems(q)
  BY <1>1 DEF Without
<1>2. CASE s \in Elems(q)
  <2> DEFINE w == Without(q, s)
  <2>1. PICK k \in DOMAIN q :
          /\ q[k] = s /\ Len(w) = Len(q) - 1
          /\ \A i \in 1..Len(q) - 1 : w[i] = IF i < k THEN q[i] ELSE q[i + 1]
    BY <1>2, WithoutShape
  <2>2. w \in Seq(S)
    BY <1>2, WithoutShape
  <2> HIDE DEF w
  <2>3. ASSUME NEW i \in DOMAIN q, q[i] # s PROVE q[i] \in Elems(w)
    <3>1. i \in 1..Len(q) /\ k \in 1..Len(q) /\ i # k /\ DOMAIN w = 1..Len(q) - 1
      BY <2>1, <2>2, <2>3
    <3>2. CASE i < k
      <4>1. i \in 1..Len(q) - 1 /\ w[i] = q[i]
        BY <2>1, <3>1, <3>2
      <4> QED BY <3>1, <4>1 DEF Elems
    <3>3. CASE i > k
      <4>1. i - 1 \in 1..Len(q) - 1 /\ ~(i - 1 < k) /\ (i - 1) + 1 = i
        BY <3>1, <3>3
      <4>2. w[i - 1] = q[i]
        BY <2>1, <4>1
      <4> QED BY <3>1, <4>1, <4>2 DEF Elems
    <3> QED BY <3>1, <3>2, <3>3
  <2>4. \A i \in DOMAIN w : /\ i < k => i \in DOMAIN q /\ w[i] = q[i]
                            /\ ~(i < k) => i + 1 \in DOMAIN q /\ i + 1 > k /\ w[i] = q[i + 1]
    BY <2>1, <2>2
  <2>5. Elems(w) \subseteq Elems(q)
    BY <2>4 DEF Elems
  <2>6. ASSUME Once(q) PROVE Once(w) /\ s \notin Elems(w)
    <3>0. k \in 1..Len(q) /\ DOMAIN w = 1..Len(q) - 1 /\ Len(q) \in Nat
      BY <2>1, <2>2
    <3>1. ASSUME NEW i \in DOMAIN w, NEW j \in DOMAIN w, w[i] = w[j] PROVE i = j
      <4>1. CASE i < k /\ j < k
        BY <2>4, <2>6, <3>1, <4>1 DEF Once
      <4>2. CASE ~(i < k) /\ ~(j < k)
        <5>1. i + 1 = j + 1
          BY <2>4, <2>6, <3>1, <4>2 DEF Once
        <5> QED BY <3>0, <5>1
      <4>3. CASE i < k /\ ~(j < k)
        <5>1. i = j + 1
          BY <2>4, <2>6, <3>1, <4>3 DEF Once
        <5> QED BY <3>0, <4>3, <5>1
      <4>4. CASE ~(i < k) /\ j < k
        <5>1. i + 1 = j
          BY <2>4, <2>6, <3>1, <4>4 DEF Once
        <5> QED BY <3>0, <4>4, <5>1
      <4> QED BY <4>1, <4>2, <4>3, <4>4
    <3>2. ASSUME NEW i \in DOMAIN w, w[i] = s PROVE FALSE
      <4>1. CASE i < k
        <5>1. i = k
          BY <2>1, <2>4, <2>6, <3>2, <4>1 DEF Once
        <5> QED BY <3>0, <4>1, <5>1
      <4>2. CASE ~(i < k)
        <5>1. i + 1 = k
          BY <2>1, <2>4, <2>6, <3>2, <4>2 DEF Once
        <5> QED BY <3>0, <4>2, <5>1
      <4> QED BY <4>1, <4>2
    <3> QED BY <3>1, <3>2 DEF Once, Elems
  <2> QED BY <2>2, <2>3, <2>5, <2>6 DEF Elems, w
<1> QED BY <1>1, <1>2

-----------------------------------------------------------------------------
(* The command channel *)

\* A command that enters the channel, as the handle of stream t sees it.
LEMMA CmdAppend ==
  ASSUME NEW q \in Seq(Commands), NEW c \in Commands, NEW t
  PROVE  /\ Append(q, c) \in Seq(Commands)
         /\ \A o : Has(Append(q, c), t, o) <=> Has(q, t, o) \/ (c.id = t /\ c.op = o)
         /\ \A g, k : SendsAre(q, t, g, k) /\ (c.id = t /\ c.op = "Send" => c.n = g /\ c.size = k)
                        => SendsAre(Append(q, c), t, g, k)
         /\ InOrder(q, t) /\ (c.id = t => \A i \in DOMAIN q : q[i].id = t => q[i].op = "Send" /\ c.op # "Send")
              => InOrder(Append(q, c), t)
<1> DEFINE a == Append(q, c)
<1>1. /\ a \in Seq(Commands) /\ DOMAIN a = 1..Len(q) + 1
      /\ DOMAIN q = 1..Len(q) /\ Len(q) \in Nat
  OBVIOUS
<1>2. a[Len(q) + 1] = c /\ \A i \in 1..Len(q) : a[i] = q[i]
  OBVIOUS
<1>3. \A i \in DOMAIN a : i = Len(q) + 1 \/ i \in DOMAIN q
  BY <1>1
<1>4. Len(q) + 1 \in DOMAIN a /\ \A i \in DOMAIN q : i \in DOMAIN a /\ a[i] = q[i] /\ i < Len(q) + 1
  BY <1>1, <1>2
<1> HIDE DEF a
<1>5. ASSUME NEW o PROVE Has(a, t, o) <=> Has(q, t, o) \/ (c.id = t /\ c.op = o)
  BY <1>2, <1>3, <1>4 DEF Has
<1>6. ASSUME NEW g, NEW k, SendsAre(q, t, g, k), c.id = t /\ c.op = "Send" => c.n = g /\ c.size = k
      PROVE  SendsAre(a, t, g, k)
  BY <1>2, <1>3, <1>4, <1>6 DEF SendsAre
<1>7. ASSUME InOrder(q, t),
             c.id = t => \A i \in DOMAIN q : q[i].id = t => q[i].op = "Send" /\ c.op # "Send"
      PROVE  InOrder(a, t)
  <2> SUFFICES ASSUME NEW i \in DOMAIN a, NEW j \in DOMAIN a, i < j, a[i].id = t, a[j].id = t
               PROVE  a[i].op = "Send" /\ a[j].op # "Send"
    BY DEF InOrder
  <2>1. i \in DOMAIN q /\ a[i] = q[i]
    BY <1>1, <1>3, <1>4
  <2>2. CASE j \in DOMAIN q
    BY <1>4, <1>7, <2>1, <2>2 DEF InOrder
  <2>3. CASE j = Len(q) + 1
    BY <1>2, <1>7, <2>1, <2>3
  <2> QED BY <1>3, <2>2, <2>3
<1> QED BY <1>1, <1>5, <1>6, <1>7 DEF a

\* The worker takes the oldest command.
LEMMA CmdTail ==
  ASSUME NEW q \in Seq(Commands), q # <<>>, NEW t
  PROVE  /\ Head(q) \in Commands /\ Tail(q) \in Seq(Commands)
         /\ \A o : Has(q, t, o) <=> Has(Tail(q), t, o) \/ (Head(q).id = t /\ Head(q).op = o)
         /\ \A g, k : SendsAre(q, t, g, k) => SendsAre(Tail(q), t, g, k)
         /\ \A g, k : SendsAre(q, t, g, k) /\ Head(q).id = t /\ Head(q).op = "Send"
                        => Head(q).n = g /\ Head(q).size = k
         /\ InOrder(q, t) => InOrder(Tail(q), t)
         /\ InOrder(q, t) /\ Head(q).id = t => ~Has(Tail(q), t, "Send")
         /\ InOrder(q, t) /\ Head(q).id = t /\ Head(q).op # "Send" => \A o : ~Has(Tail(q), t, o)
<1> DEFINE r == Tail(q)
<1>1. r \in Seq(Commands) /\ Len(r) = Len(q) - 1 /\ Len(q) \in Nat \ {0} /\ Head(q) = q[1]
  OBVIOUS
<1>2. \A i \in 1..Len(q) - 1 : r[i] = q[i + 1]
  OBVIOUS
<1>3. 1 \in DOMAIN q /\ q[1] \in Commands /\ DOMAIN r = 1..Len(q) - 1 /\ DOMAIN q = 1..Len(q)
  BY <1>1
<1> HIDE DEF r
<1>4. \A i \in DOMAIN r : i + 1 \in DOMAIN q /\ r[i] = q[i + 1] /\ 1 < i + 1
  BY <1>1, <1>2, <1>3
<1>5. \A i \in DOMAIN q : i = 1 \/ (i - 1 \in DOMAIN r /\ r[i - 1] = q[i])
  BY <1>1, <1>2, <1>3
<1>6. ASSUME NEW o PROVE Has(q, t, o) <=> Has(r, t, o) \/ (Head(q).id = t /\ Head(q).op = o)
  BY <1>1, <1>3, <1>4, <1>5 DEF Has
<1>7. ASSUME NEW g, NEW k, SendsAre(q, t, g, k)
      PROVE  /\ SendsAre(r, t, g, k)
             /\ Head(q).id = t /\ Head(q).op = "Send" => Head(q).n = g /\ Head(q).size = k
  BY <1>1, <1>3, <1>4, <1>7 DEF SendsAre
<1>8. ASSUME InOrder(q, t) PROVE InOrder(r, t)
  <2> SUFFICES ASSUME NEW i \in DOMAIN r, NEW j \in DOMAIN r, i < j, r[i].id = t, r[j].id = t
               PROVE  r[i].op = "Send" /\ r[j].op # "Send"
    BY DEF InOrder
  <2>1. i + 1 < j + 1 /\ i + 1 \in DOMAIN q /\ j + 1 \in DOMAIN q
    BY <1>3, <1>4
  <2> QED BY <1>4, <1>8, <2>1 DEF InOrder
<1>9. ASSUME InOrder(q, t), Head(q).id = t, NEW i \in DOMAIN r, r[i].id = t
      PROVE  r[i].op # "Send" /\ Head(q).op = "Send"
  BY <1>1, <1>3, <1>4, <1>9 DEF InOrder
<1>10. InOrder(q, t) /\ Head(q).id = t => ~Has(r, t, "Send")
  BY <1>9 DEF Has
<1>11. InOrder(q, t) /\ Head(q).id = t /\ Head(q).op # "Send" => \A o : ~Has(r, t, o)
  BY <1>9 DEF Has
<1> QED BY <1>1, <1>3, <1>6, <1>7, <1>8, <1>10, <1>11 DEF r

\* A closed channel has no commands.
LEMMA CmdNone ==
  ASSUME NEW t
  PROVE  /\ <<>> \in Seq(Commands) /\ InOrder(<<>>, t)
         /\ \A o : ~Has(<<>>, t, o)
         /\ \A g, k : SendsAre(<<>>, t, g, k)
BY DEF InOrder, Has, SendsAre

\* What is known of the commands of t when some are missing.
LEMMA CmdKinds ==
  ASSUME NEW q \in Seq(Commands), NEW t, ~Has(q, t, "Finish"), ~Has(q, t, "Reset")
  PROVE  /\ \A i \in DOMAIN q : q[i].id = t => q[i].op = "Send"
         /\ ~Has(q, t, "Send") => \A i \in DOMAIN q : q[i].id # t
<1>1. \A i \in DOMAIN q : q[i].op \in {"Send", "Finish", "Reset"}
  <2>1. \A i \in DOMAIN q : q[i] \in Commands
    OBVIOUS
  <2>2. \A c \in Commands : c.op \in {"Send", "Finish", "Reset"}
    BY DEF Commands
  <2> QED BY <2>1, <2>2
<1> QED BY <1>1 DEF Has

-----------------------------------------------------------------------------
(* The operations of a stream *)

\* A command becomes the last operation.
LEMMA OpAppend ==
  ASSUME NEW ops \in Seq(Ops), NEW op \in Ops, OpsInOrder(ops)
  PROVE  /\ Append(ops, op) \in Seq(Ops) /\ Append(ops, op) # <<>>
         /\ \A k : HasOp(Append(ops, op), k) <=> HasOp(ops, k) \/ op.kind = k
         /\ \A g : OpsAre(ops, g) /\ (op.kind = "write" => op.n = g) => OpsAre(Append(ops, op), g)
         /\ ~HasOp(ops, "finish") /\ (op.kind = "write" => ~HasOp(ops, "write"))
              => OpsInOrder(Append(ops, op))
<1> DEFINE a == Append(ops, op)
<1>1. /\ a \in Seq(Ops) /\ DOMAIN a = 1..Len(ops) + 1 /\ Len(a) = Len(ops) + 1
      /\ DOMAIN ops = 1..Len(ops) /\ Len(ops) \in Nat
  OBVIOUS
<1>2. a[Len(ops) + 1] = op /\ \A i \in 1..Len(ops) : a[i] = ops[i]
  OBVIOUS
<1>3. \A i \in DOMAIN a : i = Len(a) \/ i \in DOMAIN ops
  BY <1>1
<1>4. Len(a) \in DOMAIN a /\ a[Len(a)] = op /\ \A i \in DOMAIN ops : i \in DOMAIN a /\ a[i] = ops[i]
  BY <1>1, <1>2
<1>5. a # <<>>
  BY <1>1
<1> HIDE DEF a
<1>6. \A k : HasOp(a, k) <=> HasOp(ops, k) \/ op.kind = k
  BY <1>3, <1>4 DEF HasOp
<1>7. \A g : OpsAre(ops, g) /\ (op.kind = "write" => op.n = g) => OpsAre(a, g)
  BY <1>3, <1>4 DEF OpsAre
<1>8. ASSUME ~HasOp(ops, "finish"), op.kind = "write" => ~HasOp(ops, "write") PROVE OpsInOrder(a)
  <2>1. ASSUME op.kind = "write" PROVE Len(a) = 1
    <3>1. \A i \in DOMAIN ops : ops[i].kind \in {"write", "finish"}
      <4>1. \A i \in DOMAIN ops : ops[i] \in Ops
        OBVIOUS
      <4>2. \A o \in Ops : o.kind \in {"write", "finish"}
        BY DEF Ops
      <4> QED BY <4>1, <4>2
    <3>2. \A i \in 1..Len(ops) : FALSE
      BY <1>1, <1>8, <2>1, <3>1 DEF HasOp
    <3>3. Len(ops) = 0
      BY <1>1, <3>2
    <3> QED BY <1>1, <3>3
  <2>2. ASSUME NEW i \in DOMAIN a
        PROVE  (a[i].kind = "write" => i = 1) /\ (a[i].kind = "finish" => i = Len(a))
    <3>1. CASE i = Len(a)
      BY <1>4, <2>1, <3>1
    <3>2. CASE i \in DOMAIN ops
      BY <1>4, <1>8, <3>2 DEF OpsInOrder, HasOp
    <3> QED BY <1>3, <3>1, <3>2
  <2> QED BY <2>2 DEF OpsInOrder
<1> QED BY <1>1, <1>5, <1>6, <1>7, <1>8 DEF a

\* The head operation is done.
LEMMA OpTail ==
  ASSUME NEW ops \in Seq(Ops), ops # <<>>, OpsInOrder(ops)
  PROVE  /\ Head(ops) \in Ops /\ Tail(ops) \in Seq(Ops) /\ OpsInOrder(Tail(ops))
         /\ ~HasOp(Tail(ops), "write")
         /\ HasOp(ops, Head(ops).kind)
         /\ \A k : HasOp(Tail(ops), k) => HasOp(ops, k)
         /\ Head(ops).kind = "write" => (HasOp(Tail(ops), "finish") <=> HasOp(ops, "finish"))
         /\ Head(ops).kind = "finish" => Tail(ops) = <<>>
         /\ \A g : OpsAre(ops, g) => OpsAre(Tail(ops), g) /\ (Head(ops).kind = "write" => Head(ops).n = g)
<1> DEFINE r == Tail(ops)
<1>1. r \in Seq(Ops) /\ Len(r) = Len(ops) - 1 /\ Len(ops) \in Nat \ {0} /\ Head(ops) = ops[1]
  OBVIOUS
<1>2. \A i \in 1..Len(ops) - 1 : r[i] = ops[i + 1]
  OBVIOUS
<1>3. 1 \in DOMAIN ops /\ ops[1] \in Ops /\ DOMAIN r = 1..Len(ops) - 1 /\ DOMAIN ops = 1..Len(ops)
  BY <1>1
<1> HIDE DEF r
<1>4. \A i \in DOMAIN r : i + 1 \in DOMAIN ops /\ r[i] = ops[i + 1] /\ i + 1 # 1 /\ (i + 1 = Len(ops) => i = Len(r))
  BY <1>1, <1>2, <1>3
<1>5. \A i \in DOMAIN ops : i = 1 \/ (i - 1 \in DOMAIN r /\ r[i - 1] = ops[i])
  BY <1>1, <1>2, <1>3
<1>6. OpsInOrder(r) /\ ~HasOp(r, "write")
  BY <1>4 DEF OpsInOrder, HasOp
<1>7. HasOp(ops, Head(ops).kind) /\ \A k : HasOp(r, k) => HasOp(ops, k)
  BY <1>1, <1>3, <1>4 DEF HasOp
<1>8. Head(ops).kind = "write" => (HasOp(r, "finish") <=> HasOp(ops, "finish"))
  BY <1>1, <1>4, <1>5 DEF HasOp
<1>9. ASSUME Head(ops).kind = "finish" PROVE r = <<>>
  <2>1. Len(ops) = 1
    BY <1>1, <1>3, <1>9 DEF OpsInOrder
  <2> QED BY <1>1, <2>1
<1>10. \A g : OpsAre(ops, g) => OpsAre(r, g) /\ (Head(ops).kind = "write" => Head(ops).n = g)
  BY <1>1, <1>3, <1>4 DEF OpsAre
<1> QED BY <1>1, <1>3, <1>6, <1>7, <1>8, <1>9, <1>10 DEF r

\* A partial write shortens the head operation.
LEMMA OpShorten ==
  ASSUME NEW ops \in Seq(Ops), ops # <<>>, OpsInOrder(ops), NEW n \in Nat
  PROVE  LET a == [ops EXCEPT ![1].rem = n] IN
         /\ a \in Seq(Ops) /\ a # <<>> /\ OpsInOrder(a) /\ \A k : HasOp(a, k) <=> HasOp(ops, k)
         /\ \A g : OpsAre(ops, g) => OpsAre(a, g)
         /\ DOMAIN a = DOMAIN ops /\ a[1].rem = n /\ a[1].kind = ops[1].kind
<1> DEFINE a == [ops EXCEPT ![1].rem = n]
<1>1. Len(ops) \in Nat \ {0} /\ DOMAIN ops = 1..Len(ops) /\ 1 \in DOMAIN ops
      /\ \A i \in DOMAIN ops : ops[i] \in Ops
  OBVIOUS
<1>2. DOMAIN a = DOMAIN ops /\ \A i \in DOMAIN ops : i # 1 => a[i] = ops[i]
  OBVIOUS
<1>3. a[1] = [ops[1] EXCEPT !.rem = n]
  BY <1>1
<1>4. a[1] \in Ops /\ a[1].kind = ops[1].kind /\ a[1].n = ops[1].n /\ a[1].rem = n
  BY <1>1, <1>3 DEF Ops
<1> HIDE DEF a
<1>5. \A i \in DOMAIN ops : a[i] \in Ops /\ a[i].kind = ops[i].kind /\ a[i].n = ops[i].n
  BY <1>1, <1>2, <1>4
<1>6. a \in Seq(Ops) /\ Len(a) = Len(ops)
  <2>1. a \in [1..Len(ops) -> Ops]
    <3>1. DOMAIN a = 1..Len(ops)
      BY <1>1, <1>2
    <3>2. a = [i \in DOMAIN a |-> a[i]]
      BY DEF a
    <3> QED BY <1>1, <1>5, <3>1, <3>2
  <2> QED BY <1>1, <2>1
<1>7. a # <<>>
  BY <1>1, <1>6
<1>8. OpsInOrder(a) /\ \A k : HasOp(a, k) <=> HasOp(ops, k)
  BY <1>2, <1>5, <1>6 DEF OpsInOrder, HasOp
<1>9. \A g : OpsAre(ops, g) => OpsAre(a, g)
  BY <1>2, <1>5 DEF OpsAre
<1> QED BY <1>2, <1>4, <1>6, <1>7, <1>8, <1>9 DEF a

LEMMA OpNone ==
  /\ <<>> \in Seq(Ops) /\ OpsInOrder(<<>>) /\ \A k : ~HasOp(<<>>, k)
  /\ \A g : OpsAre(<<>>, g)
BY DEF OpsInOrder, HasOp, OpsAre

-----------------------------------------------------------------------------
(* The wire *)

Units == Nat \cup {RESET}

\* What an accepted stream_send adds.
Grown(a, w, n, f) == a \o Copies(w, n) \o f

\* Unit by unit.
IsGrown(b, a, w, n, f) ==
  /\ b \in Seq(Units) /\ Len(b) = Len(a) + n + Len(f)
  /\ \A i \in 1..Len(a) : b[i] = a[i]
  /\ \A i \in Len(a) + 1..Len(a) + n : b[i] = w
  /\ Len(f) = 1 => b[Len(a) + n + 1] = FIN

LEMMA WireGrows ==
  ASSUME NEW a \in Seq(Units), NEW w \in Nat, NEW n \in Nat, NEW f \in Seq({FIN}), Len(f) \in {0, 1}
  PROVE  Grown(a, w, n, f) \in Seq(Units) /\ IsGrown(Grown(a, w, n, f), a, w, n, f)
<1> DEFINE c == Copies(w, n)
           d == a \o c
           b == Grown(a, w, n, f)
<1>1. c \in Seq(Units) /\ Len(c) = n /\ \A i \in 1..n : c[i] = w
  BY DEF Copies, Units
<1>2. f \in Seq(Units) /\ (Len(f) = 1 => f[1] = FIN)
  <2>1. FIN \in Units
    BY DEF Units, FIN
  <2> QED BY <2>1
<1> HIDE DEF c
<1>3. /\ d \in Seq(Units) /\ Len(d) = Len(a) + n /\ Len(a) \in Nat
      /\ \A i \in 1..Len(a) : d[i] = a[i]
      /\ \A i \in Len(a) + 1..Len(a) + n : d[i] = c[i - Len(a)]
  <2>1. /\ d \in Seq(Units) /\ Len(d) = Len(a) + Len(c)
        /\ \A i \in 1..Len(a) + Len(c) : d[i] = IF i <= Len(a) THEN a[i] ELSE c[i - Len(a)]
    BY <1>1, ConcatProperties
  <2>2. Len(a) \in Nat
    OBVIOUS
  <2> HIDE DEF d
  <2>3. \A i \in 1..Len(a) : i \in 1..Len(a) + Len(c) /\ i <= Len(a)
    BY <1>1, <2>2
  <2>4. \A i \in Len(a) + 1..Len(a) + n : i \in 1..Len(a) + Len(c) /\ ~(i <= Len(a))
    BY <1>1, <2>2
  <2> QED BY <1>1, <2>1, <2>2, <2>3, <2>4
<1>4. \A i \in Len(a) + 1..Len(a) + n : d[i] = w
  <2>1. \A l, m \in Nat : \A i \in l + 1..l + m : i - l \in 1..m
    OBVIOUS
  <2>2. \A i \in Len(a) + 1..Len(a) + n : i - Len(a) \in 1..n
    BY <1>3, <2>1
  <2> QED BY <1>1, <1>3, <2>2
<1> HIDE DEF d
<1>5. /\ d \o f \in Seq(Units) /\ Len(d \o f) = Len(d) + Len(f) /\ Len(d) \in Nat
      /\ \A i \in 1..Len(d) + Len(f) : (d \o f)[i] = IF i <= Len(d) THEN d[i] ELSE f[i - Len(d)]
      /\ \A i \in 1..Len(d) : (d \o f)[i] = d[i]
  <2>1. \A S : \A x, y \in Seq(S) :
          /\ x \o y \in Seq(S) /\ Len(x \o y) = Len(x) + Len(y)
          /\ \A i \in 1..Len(x) + Len(y) : (x \o y)[i] = IF i <= Len(x) THEN x[i] ELSE y[i - Len(x)]
    BY ConcatProperties
  <2>2. /\ d \o f \in Seq(Units) /\ Len(d \o f) = Len(d) + Len(f)
        /\ \A i \in 1..Len(d) + Len(f) : (d \o f)[i] = IF i <= Len(d) THEN d[i] ELSE f[i - Len(d)]
    BY <1>2, <1>3, <2>1
  <2>3. Len(d) \in Nat /\ Len(f) \in Nat
    BY <1>2, <1>3
  <2>4. \A i \in 1..Len(d) : i \in 1..Len(d) + Len(f) /\ i <= Len(d)
    BY <2>3
  <2> QED BY <2>2, <2>3, <2>4
<1>6. ASSUME Len(f) = 1 PROVE (d \o f)[Len(d) + 1] = FIN
  <2>1. Len(d) + 1 \in 1..Len(d) + Len(f) /\ ~(Len(d) + 1 <= Len(d)) /\ (Len(d) + 1) - Len(d) = 1
    BY <1>2, <1>5, <1>6
  <2> QED BY <1>2, <1>5, <1>6, <2>1
<1>7. \A i \in 1..Len(a) : i \in 1..Len(d)
  BY <1>3
<1>8. \A i \in Len(a) + 1..Len(a) + n : i \in 1..Len(d)
  BY <1>3
<1>9. \A i \in 1..Len(a) : (d \o f)[i] = a[i]
  BY <1>3, <1>5, <1>7
<1>10. \A i \in Len(a) + 1..Len(a) + n : (d \o f)[i] = w
  BY <1>4, <1>5, <1>8
<1>11. b = d \o f
  BY DEF d, c, Grown
<1> HIDE DEF b
<1>12. /\ b \in Seq(Units) /\ Len(b) = Len(a) + n + Len(f)
       /\ \A i \in 1..Len(a) : b[i] = a[i]
       /\ \A i \in Len(a) + 1..Len(a) + n : b[i] = w
       /\ Len(f) = 1 => b[Len(a) + n + 1] = FIN
  BY <1>3, <1>5, <1>6, <1>9, <1>10, <1>11
<1> QED BY <1>12 DEF b, IsGrown

\* The units of a write are neither a FIN nor a RESET_STREAM.
LEMMA WireMembers ==
  ASSUME NEW a \in Seq(Units), NEW w \in Nat, w # 0, NEW n \in Nat, NEW f \in Seq({FIN}),
         Len(f) \in {0, 1}
  PROVE  /\ FIN \in Elems(Grown(a, w, n, f)) <=> (FIN \in Elems(a) \/ Len(f) = 1)
         /\ RESET \in Elems(Grown(a, w, n, f)) <=> RESET \in Elems(a)
<1> DEFINE b == Grown(a, w, n, f)
<1>1. /\ b \in Seq(Units) /\ Len(b) = Len(a) + n + Len(f)
      /\ \A i \in 1..Len(a) : b[i] = a[i]
      /\ \A i \in Len(a) + 1..Len(a) + n : b[i] = w
      /\ Len(f) = 1 => b[Len(a) + n + 1] = FIN
  <2>1. IsGrown(b, a, w, n, f)
    BY WireGrows
  <2> HIDE DEF b
  <2> QED BY <2>1 DEF IsGrown
<1> HIDE DEF b
<1>2. Len(a) \in Nat /\ DOMAIN a = 1..Len(a) /\ DOMAIN b = 1..Len(a) + n + Len(f)
  BY <1>1
<1>3. Len(f) = 0 \/ Len(f) = 1
  OBVIOUS
<1>4. \A i \in DOMAIN a : i \in DOMAIN b /\ b[i] = a[i]
  BY <1>1, <1>2, <1>3
<1>5. Len(f) = 1 => Len(a) + n + 1 \in DOMAIN b
  BY <1>2, <1>3
<1>6. \A i \in DOMAIN b : i \in DOMAIN a \/ b[i] = w \/ (Len(f) = 1 /\ b[i] = FIN)
  <2> SUFFICES ASSUME NEW i \in DOMAIN b
               PROVE  i \in DOMAIN a \/ b[i] = w \/ (Len(f) = 1 /\ b[i] = FIN)
    OBVIOUS
  <2>0. \A l, m, k \in Nat : \A x \in 1..l + m + k :
          (k = 0 \/ k = 1) => x \in 1..l \/ x \in l + 1..l + m \/ (k = 1 /\ x = l + m + 1)
    OBVIOUS
  <2>1. i \in 1..Len(a) \/ i \in Len(a) + 1..Len(a) + n \/ (Len(f) = 1 /\ i = Len(a) + n + 1)
    <3>1. Len(f) \in Nat /\ (Len(f) = 0 \/ Len(f) = 1)
      BY <1>3
    <3> QED BY <1>2, <2>0, <3>1
  <2>2. CASE i \in 1..Len(a)
    BY <1>2, <2>2
  <2>3. CASE i \in Len(a) + 1..Len(a) + n
    BY <1>1, <2>3
  <2>4. CASE Len(f) = 1 /\ i = Len(a) + n + 1
    BY <1>1, <1>3, <2>4
  <2> QED BY <2>1, <2>2, <2>3, <2>4
<1>7. w # FIN /\ w # RESET /\ FIN # RESET
  BY DEF FIN, RESET
<1>8. \A x \in {FIN, RESET} : x \in Elems(b) => x \in Elems(a) \/ (Len(f) = 1 /\ x = FIN)
  <2> SUFFICES ASSUME NEW x \in {FIN, RESET}, NEW i \in DOMAIN b, b[i] = x
               PROVE  x \in Elems(a) \/ (Len(f) = 1 /\ x = FIN)
    BY DEF Elems
  <2>1. i \in DOMAIN a \/ (Len(f) = 1 /\ b[i] = FIN)
    BY <1>6, <1>7
  <2> QED BY <1>4, <2>1 DEF Elems
<1>9. Elems(a) \subseteq Elems(b)
  BY <1>4 DEF Elems
<1>10. Len(f) = 1 => FIN \in Elems(b)
  <2>1. Len(f) = 1 => b[Len(a) + n + 1] = FIN
    BY <1>1
  <2> QED BY <1>5, <2>1 DEF Elems
<1> QED BY <1>7, <1>8, <1>9, <1>10 DEF b

-----------------------------------------------------------------------------
(* The registry *)

LEMMA EntryType ==
  ASSUME TypeWorker, NEW s
  PROVE  Entry(s) \in Entries /\ (s \notin DOMAIN send => Entry(s) = NewState(FALSE))
<1>1. \A b \in BOOLEAN : NewState(b) \in Entries
  BY DEF NewState, Entries, Ends, NoHeld
<1>2. CASE s \in DOMAIN send
  BY <1>2 DEF TypeWorker, Entry
<1>3. CASE s \notin DOMAIN send
  BY <1>1, <1>3 DEF Entry
<1> QED BY <1>2, <1>3

\* The fields of an entry.
LEMMA EntryFields ==
  ASSUME NEW e \in Entries
  PROVE  /\ e.send_ops \in Seq(Ops) /\ e.pending_reset \in BOOLEAN /\ e.terminal \in Ends
         /\ e.finished \in BOOLEAN /\ e.held \in [n : Nat, rem : Nat] /\ e.shared \in BOOLEAN
BY DEF Entries

\* What a fresh entry says.
LEMMA FreshEntry ==
  ASSUME NEW b
  PROVE  /\ NewState(b).send_ops = <<>> /\ ~NewState(b).pending_reset
         /\ NewState(b).terminal = "none" /\ ~NewState(b).finished
         /\ NewState(b).held = NoHeld /\ NewState(b).shared = b
BY DEF NewState

SameEntry(t) == (t \in DOMAIN send' <=> t \in DOMAIN send) /\ Entry(t)' = Entry(t)

\* The entry of s becomes e, or leaves.
Updated(s, e) ==
  /\ DOMAIN send' = DOMAIN send \cup {s} /\ send' \in [DOMAIN send' -> Entries]
  /\ Entry(s)' = e
  /\ \A t \in Streams : t # s => SameEntry(t)
Removed(s) ==
  /\ DOMAIN send' = DOMAIN send \ {s} /\ send' \in [DOMAIN send' -> Entries]
  /\ Entry(s)' = NewState(FALSE)
  /\ \A t \in Streams : t # s => SameEntry(t)

LEMMA PutEntry ==
  ASSUME TypeWorker, NEW s \in Streams, NEW e \in Entries, send' = Put(send, s, e)
  PROVE  Updated(s, e)
<1>1. DOMAIN send' = DOMAIN send \cup {s}
  BY DEF Put
<1>2. \A t \in DOMAIN send' : send'[t] = IF t = s THEN e ELSE send[t]
  BY <1>1 DEF Put
<1>3. send' \in [DOMAIN send' -> Entries]
  <2>1. \A t \in DOMAIN send' : send'[t] \in Entries
    BY <1>1, <1>2 DEF TypeWorker
  <2>2. send' = [t \in DOMAIN send' |-> send'[t]]
    BY <1>1 DEF Put
  <2> QED BY <2>1, <2>2
<1>4. Entry(s)' = e
  BY <1>1, <1>2 DEF Entry
<1>5. \A t \in Streams : t # s => SameEntry(t)
  BY <1>1, <1>2 DEF SameEntry, Entry
<1> QED BY <1>1, <1>3, <1>4, <1>5 DEF Updated

LEMMA SetEntry ==
  ASSUME TypeWorker, NEW s \in DOMAIN send, NEW e \in Entries, send' = [send EXCEPT ![s] = e]
  PROVE  Updated(s, e)
<1>1. DOMAIN send' = DOMAIN send \cup {s} /\ s \in Streams
  BY DEF TypeWorker
<1>2. \A t \in DOMAIN send : send'[t] = IF t = s THEN e ELSE send[t]
  OBVIOUS
<1>3. send' \in [DOMAIN send' -> Entries]
  BY <1>1 DEF TypeWorker
<1>4. Entry(s)' = e
  BY <1>1, <1>2 DEF Entry
<1>5. \A t \in Streams : t # s => SameEntry(t)
  BY <1>1, <1>2 DEF SameEntry, Entry
<1> QED BY <1>1, <1>3, <1>4, <1>5 DEF Updated

LEMMA RemoveEntry ==
  ASSUME TypeWorker, NEW s \in Streams, send' = Remove(send, s)
  PROVE  Removed(s)
<1>1. DOMAIN send' = DOMAIN send \ {s}
  BY DEF Remove
<1>2. \A t \in DOMAIN send' : send'[t] = send[t]
  BY <1>1 DEF Remove
<1>3. send' \in [DOMAIN send' -> Entries]
  <2>1. \A t \in DOMAIN send' : send'[t] \in Entries
    BY <1>1, <1>2 DEF TypeWorker
  <2>2. send' = [t \in DOMAIN send' |-> send'[t]]
    BY <1>1 DEF Remove
  <2> QED BY <2>1, <2>2
<1>4. Entry(s)' = NewState(FALSE)
  BY <1>1 DEF Entry
<1>5. \A t \in Streams : t # s => SameEntry(t)
  BY <1>1, <1>2 DEF SameEntry, Entry
<1> QED BY <1>1, <1>3, <1>4, <1>5 DEF Removed

-----------------------------------------------------------------------------
(* Frames: what a step leaves alone *)

SameCmds(t) ==
  /\ \A o : Has(cmd', t, o) <=> Has(cmd, t, o)
  /\ InOrder(cmd, t) => InOrder(cmd', t)
  /\ \A g, k : SendsAre(cmd, t, g, k) => SendsAre(cmd', t, g, k)

SameFront(t) ==
  /\ fpc'[t] = fpc[t] /\ submitted'[t] = submitted[t] /\ finalized'[t] = finalized[t]
  /\ local_terminal'[t] = local_terminal[t]
  /\ finish_result'[t] = finish_result[t] /\ failed'[t] = failed[t]

SameCells(t) == status'[t] = status[t] /\ slot'[t] = slot[t] /\ finslot'[t] = finslot[t]

SameQuiche(t) == qsend'[t] = qsend[t] /\ wire'[t] = wire[t]

Same(t) ==
  /\ SameFront(t) /\ SameCells(t) /\ SameCmds(t) /\ SameEntry(t) /\ SameQuiche(t)
  /\ t \in recv => t \in recv'

LEMMA CmdsStay ==
  ASSUME cmd' = cmd, NEW t
  PROVE  SameCmds(t)
BY DEF SameCmds

LEMMA EntryStays ==
  ASSUME send' = send, NEW t
  PROVE  SameEntry(t)
BY DEF SameEntry, Entry

LEMMA FrontStays ==
  ASSUME UNCHANGED frontVars, NEW t
  PROVE  SameFront(t)
BY DEF SameFront, frontVars

\* The chain of a stream that a step does not touch.
LEMMA QueuesSame ==
  ASSUME NEW t, Queues(t), SameCmds(t), OpsOf(t)' = OpsOf(t),
         Entry(t)'.pending_reset = Entry(t).pending_reset,
         wire'[t] = wire[t], submitted'[t] = submitted[t]
  PROVE  Queues(t)'
<1>1. \A x : Wrote(t, x)' <=> Wrote(t, x)
  BY DEF Wrote
<1> QED BY <1>1 DEF Queues, SameCmds

LEMMA HandleSame ==
  ASSUME NEW t, Handle(t), \A o : Has(cmd', t, o) <=> Has(cmd, t, o), OpsOf(t)' = OpsOf(t),
         Entry(t)'.pending_reset = Entry(t).pending_reset,
         wire'[t] = wire[t], fpc'[t] = fpc[t], slot'[t] = slot[t], finalized'[t] = finalized[t],
         local_terminal'[t] = local_terminal[t],
         status'[t] = status[t] \/ (status[t] = "none" /\ status'[t] # "none")
  PROVE  Handle(t)'
<1>1. \A x : Wrote(t, x)' <=> Wrote(t, x)
  BY DEF Wrote
<1>2. /\ Writing(t)' <=> Writing(t)
      /\ Finishing(t)' <=> Finishing(t)
      /\ Resetting(t)' <=> Resetting(t)
  BY <1>1 DEF Writing, Finishing, Resetting
<1>3. TerminalNow(t) # "none" => TerminalNow(t)' # "none"
  BY DEF TerminalNow
<1> QED BY <1>2, <1>3 DEF Handle

LEMMA EntrySame ==
  ASSUME NEW t, EntryState(t), SameEntry(t), SameQuiche(t), t \in recv => t \in recv'
  PROVE  EntryState(t)'
<1>1. \A x : Wrote(t, x)' <=> Wrote(t, x)
  BY DEF Wrote, SameQuiche
<1> QED BY <1>1 DEF EntryState, SameEntry, SameQuiche, OpsOf

LEMMA ReportedSame ==
  ASSUME NEW t, Reported(t), SameEntry(t), SameCells(t), wire'[t] = wire[t],
         failed'[t] = failed[t], finish_result'[t] = finish_result[t], conn_terminal' = conn_terminal
  PROVE  Reported(t)'
<1>1. \A x : Wrote(t, x)' <=> Wrote(t, x)
  BY DEF Wrote
<1> QED BY <1>1 DEF Reported, SameEntry, SameCells

LEMMA SameChain ==
  ASSUME NEW t \in Streams, Chain(t), Same(t), conn_terminal' = conn_terminal
  PROVE  Chain(t)'
<1>1. OpsOf(t)' = OpsOf(t) /\ Entry(t)'.pending_reset = Entry(t).pending_reset
  BY DEF Same, SameEntry, OpsOf
<1>2. Queues(t)'
  BY <1>1, QueuesSame DEF Chain, Same, SameFront, SameQuiche
<1>3. Handle(t)'
  BY <1>1, HandleSame DEF Chain, Same, SameFront, SameQuiche, SameCells, SameCmds
<1>4. EntryState(t)'
  BY EntrySame DEF Chain, Same
<1>5. Reported(t)'
  BY ReportedSame DEF Chain, Same, SameFront, SameQuiche
<1> QED BY <1>2, <1>3, <1>4, <1>5 DEF Chain

\* A step of one stream keeps the invariant if it keeps it there.
LEMMA StepOf ==
  ASSUME IInv, NEW s \in Streams, TypeOK', Stage', conn_terminal' = conn_terminal,
         \A t \in Streams : t # s => Same(t), Chain(s)'
  PROVE  IInv'
<1>1. ASSUME NEW t \in Streams PROVE Chain(t)'
  <2>1. CASE t = s
    BY <2>1
  <2>2. CASE t # s
    BY <2>2, SameChain DEF IInv
  <2> QED BY <2>1, <2>2
<1> QED BY <1>1 DEF IInv

LEMMA FrontTypes == TypeFront /\ UNCHANGED frontVars => TypeFront'
BY DEF TypeFront, frontVars
LEMMA SharedTypes == TypeShared /\ UNCHANGED sharedVars => TypeShared'
BY DEF TypeShared, sharedVars
LEMMA QuicheTypes == TypeQuiche /\ UNCHANGED quicheVars => TypeQuiche'
BY DEF TypeQuiche, quicheVars
LEMMA WorkerTypes ==
  TypeWorker /\ UNCHANGED <<regVars, runnable_send, needs_iteration, conn_terminal, loopVars>>
    => TypeWorker'
BY DEF TypeWorker, regVars, loopVars

\* The worker's side while the front end moves.
LEMMA WorkerStays ==
  ASSUME UNCHANGED workerVars, Stage, ingress' = ingress
  PROVE  /\ Stage' /\ conn_terminal' = conn_terminal
         /\ send' = send /\ recv' = recv /\ qsend' = qsend /\ wire' = wire
         /\ TypeWorker => TypeWorker'
         /\ TypeQuiche => TypeQuiche'
<1>1. UNCHANGED <<regVars, runnable_send, needs_iteration, conn_terminal, loopVars, quicheVars>>
  BY DEF workerVars
<1>2. /\ conn_terminal' = conn_terminal
      /\ send' = send /\ recv' = recv /\ qsend' = qsend /\ wire' = wire
      /\ qconn' = qconn /\ wpc' = wpc /\ cur' = cur
  BY <1>1 DEF regVars, quicheVars, loopVars
<1> QED BY <1>1, <1>2, WorkerTypes, QuicheTypes DEF Stage

-----------------------------------------------------------------------------
(* The front end *)

\* A step of the handle of s keeps the invariant if it keeps these parts.
LEMMA FrontStep ==
  ASSUME IInv, NEW s \in Streams, UNCHANGED workerVars, status' = status, ingress' = ingress,
         TypeFront', TypeShared',
         \A t \in Streams : t # s => /\ SameFront(t) /\ SameCmds(t)
                                     /\ slot'[t] = slot[t] /\ finslot'[t] = finslot[t],
         Queues(s)', Handle(s)', Reported(s)'
  PROVE  IInv'
<1>1. /\ Stage' /\ conn_terminal' = conn_terminal
      /\ send' = send /\ recv' = recv /\ qsend' = qsend /\ wire' = wire
      /\ TypeWorker' /\ TypeQuiche'
  BY WorkerStays DEF IInv, TypeOK
<1>2. \A t \in Streams : SameEntry(t) /\ SameQuiche(t) /\ (t \in recv => t \in recv')
  BY <1>1, EntryStays DEF SameQuiche
<1>3. \A t \in Streams : t # s => Same(t)
  BY <1>2 DEF Same, SameCells
<1>4. EntryState(s)'
  BY <1>2, EntrySame DEF IInv, Chain
<1> QED BY <1>1, <1>3, <1>4, StepOf DEF Chain, TypeOK

\* What the invariant says of one stream, and of its entry.
LEMMA Known ==
  ASSUME IInv, NEW s \in Streams
  PROVE  /\ TypeFront /\ TypeShared /\ TypeWorker /\ TypeQuiche /\ Stage
         /\ Queues(s) /\ Handle(s) /\ EntryState(s) /\ Reported(s)
         /\ Entry(s) \in Entries /\ OpsOf(s) \in Seq(Ops)
         /\ wire[s] \in Seq(Units) /\ submitted[s] \in Seq(Nat) /\ Len(submitted[s]) \in Nat
<1>1. TypeFront /\ TypeShared /\ TypeWorker /\ TypeQuiche /\ Stage /\ Chain(s)
  BY DEF IInv, TypeOK
<1>2. Entry(s) \in Entries
  BY <1>1, EntryType
<1>3. OpsOf(s) \in Seq(Ops)
  BY <1>2, EntryFields DEF OpsOf
<1>4. wire[s] \in Seq(Units) /\ submitted[s] \in Seq(Nat)
  BY <1>1 DEF TypeQuiche, TypeFront, Units
<1> QED BY <1>1, <1>2, <1>3, <1>4 DEF Chain

\* Nothing on the wire or in the registry moves while the handle does.
LEMMA HandleMoves ==
  ASSUME IInv, NEW s \in Streams, UNCHANGED workerVars
  PROVE  /\ OpsOf(s)' = OpsOf(s) /\ Entry(s)' = Entry(s) /\ SameEntry(s)
         /\ wire' = wire /\ conn_terminal' = conn_terminal
         /\ \A x : Wrote(s, x)' <=> Wrote(s, x)
<1>1. send' = send /\ wire' = wire /\ conn_terminal' = conn_terminal
  BY DEF workerVars, regVars, quicheVars
<1> QED BY <1>1 DEF OpsOf, Entry, Wrote, SameEntry

\* A write begins, or is refused by a terminal.
LEMMA StartWriteStep ==
  ASSUME IInv, NEW s \in Streams, NEW k \in Sizes, StartWrite(s, k)
  PROVE  IInv'
<1>1. /\ TypeFront /\ TypeShared /\ Queues(s) /\ Handle(s) /\ Reported(s)
      /\ fpc[s] = "idle" /\ k \in Nat
  BY Known, SendBoundsAssumption DEF StartWrite
<1>2. /\ UNCHANGED workerVars /\ UNCHANGED sharedVars
      /\ UNCHANGED <<submitted, finalized, local_terminal, finish_result>>
  BY DEF StartWrite
<1>3. /\ status' = status /\ slot' = slot /\ finslot' = finslot /\ cmd' = cmd /\ ingress' = ingress
      /\ TypeShared'
  BY <1>1, <1>2, SharedTypes DEF sharedVars
<1>4. TerminalNow(s) \in Ends /\ TerminalNow(s)' = TerminalNow(s)
  BY <1>1, <1>2, <1>3 DEF TerminalNow, TypeFront, TypeShared
<1>5. /\ OpsOf(s)' = OpsOf(s) /\ Entry(s)' = Entry(s) /\ SameEntry(s)
      /\ wire' = wire /\ conn_terminal' = conn_terminal
      /\ \A x : Wrote(s, x)' <=> Wrote(s, x)
  BY <1>2, HandleMoves
<1>6. SameCmds(s) /\ \A t \in Streams : SameCmds(t)
  BY <1>3, CmdsStay
<1>7. /\ Writing(s)' <=> Writing(s)
      /\ Finishing(s)' <=> Finishing(s)
      /\ Resetting(s)' <=> Resetting(s)
  BY <1>5, <1>6 DEF Writing, Finishing, Resetting, SameCmds
<1>8. Queues(s)'
  BY <1>1, <1>2, <1>5, <1>6, QueuesSame
<1>9. ~Writing(s) /\ ~Finishing(s)
  BY <1>1 DEF Handle
<1>10. CASE TerminalNow(s) # "none"
  <2>1. /\ fpc' = [fpc EXCEPT ![s] = "over"] /\ failed' = [failed EXCEPT ![s] = TerminalNow(s)]
        /\ size' = size
    BY <1>10 DEF StartWrite
  <2>2. TypeFront'
    BY <1>1, <1>2, <1>4, <2>1 DEF TypeFront, Ends, Results, NoSlot
  <2>3. fpc'[s] = "over" /\ failed'[s] = TerminalNow(s)
    BY <1>1, <2>1 DEF TypeFront
  <2>4. Handle(s)'
    BY <1>1, <1>2, <1>7, <1>9, <2>3 DEF Handle
  <2>5. Reported(s)'
    BY <1>1, <1>2, <1>3, <1>4, <1>5, <2>3 DEF Reported, Ends
  <2>6. \A t \in Streams : t # s => SameFront(t)
    BY <1>1, <1>2, <2>1 DEF SameFront, TypeFront
  <2> QED BY <1>2, <1>3, <1>6, <1>8, <2>2, <2>4, <2>5, <2>6, FrontStep
<1>11. CASE TerminalNow(s) = "none"
  <2>1. /\ fpc' = [fpc EXCEPT ![s] = "flush"] /\ size' = [size EXCEPT ![s] = k]
        /\ failed' = failed
    BY <1>11 DEF StartWrite
  <2>2. TypeFront'
    BY <1>1, <1>2, <2>1 DEF TypeFront
  <2>3. fpc'[s] = "flush" /\ ~finalized[s]
    BY <1>1, <1>11, <2>1 DEF TypeFront, Handle
  <2>4. Handle(s)'
    BY <1>1, <1>2, <1>7, <1>9, <2>3 DEF Handle
  <2>5. Reported(s)'
    BY <1>1, <1>2, <1>3, <1>5, <2>1 DEF Reported
  <2>6. \A t \in Streams : t # s => SameFront(t)
    BY <1>1, <1>2, <2>1 DEF SameFront, TypeFront
  <2> QED BY <1>2, <1>3, <1>6, <1>8, <2>2, <2>4, <2>5, <2>6, FrontStep
<1> QED BY <1>10, <1>11

\* Once ingress is closed, a handle that has not sent its Finish finds a
\* terminal in its cell.
LEMMA ClosedIsTold ==
  ASSUME IInv, NEW s \in Streams, ~ingress, ~Finishing(s)
  PROVE  TerminalNow(s) \in Ends \ {"none"} /\ StickyOrInternal(s) = TerminalNow(s)
<1>1. TypeFront /\ TypeShared /\ Stage /\ Reported(s)
  BY Known
<1>2. conn_terminal
  BY <1>1 DEF Stage
<1>3. status[s] # "none"
  BY <1>1, <1>2 DEF Reported, Finishing
<1> QED BY <1>1, <1>3 DEF TerminalNow, StickyOrInternal, TypeFront, TypeShared

\* The write is handed over, or refused by the closed ingress.
LEMMA FlushWriteStep ==
  ASSUME IInv, NEW s \in Streams, FlushWrite(s)
  PROVE  IInv'
<1> DEFINE g == Len(submitted[s])
           c == Send(s, g + 1, size[s])
<1>1. /\ TypeFront /\ TypeShared /\ Queues(s) /\ Handle(s) /\ Reported(s)
      /\ fpc[s] = "flush" /\ submitted[s] \in Seq(Nat) /\ g \in Nat /\ OpsOf(s) \in Seq(Ops)
  BY Known DEF FlushWrite
<1>2. /\ UNCHANGED workerVars
      /\ UNCHANGED <<finalized, local_terminal, finish_result, status, finslot, ingress>>
  BY DEF FlushWrite
<1>3. /\ submitted' = [submitted EXCEPT ![s] = Append(@, size[s])]
      /\ size' = [size EXCEPT ![s] = 0] /\ slot' = [slot EXCEPT ![s] = NoSlot]
  BY DEF FlushWrite
<1>4. /\ submitted'[s] \in Seq(Nat) /\ Len(submitted'[s]) = g + 1 /\ submitted'[s][g + 1] = size[s]
      /\ slot'[s] = NoSlot /\ size[s] \in Nat
  <2>1. size[s] \in Nat /\ submitted'[s] = Append(submitted[s], size[s]) /\ slot'[s] = NoSlot
    BY <1>1, <1>3 DEF TypeFront, TypeShared
  <2> QED BY <1>1, <2>1
<1>5. /\ OpsOf(s)' = OpsOf(s) /\ Entry(s)' = Entry(s) /\ SameEntry(s)
      /\ wire' = wire /\ conn_terminal' = conn_terminal
      /\ \A x : Wrote(s, x)' <=> Wrote(s, x)
  BY <1>2, HandleMoves
<1>6. ~Writing(s) /\ ~Finishing(s) /\ ~Resetting(s) /\ ~finalized[s]
  BY <1>1 DEF Handle
<1>7. ~HasOp(OpsOf(s), "write") /\ ~Has(cmd, s, "Send") /\ ~Has(cmd, s, "Finish") /\ ~Has(cmd, s, "Reset")
      /\ ~HasOp(OpsOf(s), "finish") /\ ~Wrote(s, FIN) /\ ~Wrote(s, RESET) /\ ~Entry(s).pending_reset
  BY <1>6 DEF Writing, Finishing, Resetting
<1>8. OpsAre(OpsOf(s), g + 1) /\ SendsAre(cmd, s, g + 1, size[s])
  BY <1>7 DEF OpsAre, HasOp, SendsAre, Has
<1>9. \A t \in Streams : t # s => slot'[t] = slot[t] /\ finslot'[t] = finslot[t]
                                  /\ submitted'[t] = submitted[t]
  BY <1>1, <1>2, <1>3 DEF TypeFront, TypeShared
<1>10. CASE ingress
  <2>1. cmd' = Append(cmd, c) /\ fpc' = [fpc EXCEPT ![s] = "inflight"] /\ failed' = failed
    BY <1>10 DEF FlushWrite, Generation
  <2>2. c \in Commands /\ c.id = s /\ c.op = "Send" /\ c.n = g + 1 /\ c.size = size[s]
    BY <1>1, <1>4 DEF Commands, Send
  <2> HIDE DEF c
  <2>3. TypeFront'
    BY <1>1, <1>2, <1>3, <1>4, <2>1 DEF TypeFront
  <2>4. cmd \in Seq(Commands)
    BY <1>1 DEF TypeShared
  <2>5. cmd' \in Seq(Commands)
    BY <2>1, <2>2, <2>4, CmdAppend
  <2>6. TypeShared'
    BY <1>1, <1>2, <1>3, <2>5 DEF TypeShared, Results
  <2>7. fpc'[s] = "inflight"
    BY <1>1, <2>1 DEF TypeFront
  <2>8. /\ Has(cmd', s, "Send") /\ ~Has(cmd', s, "Finish") /\ ~Has(cmd', s, "Reset")
    <3>1. \A o : Has(cmd', s, o) <=> Has(cmd, s, o) \/ (c.id = s /\ c.op = o)
      BY <2>1, <2>2, <2>4, CmdAppend
    <3> QED BY <1>7, <2>2, <3>1
  <2>9. \A i \in DOMAIN cmd : cmd[i].id # s
    BY <1>7, <2>4, CmdKinds
  <2>10. InOrder(cmd', s)
    BY <1>1, <2>1, <2>2, <2>4, <2>9, CmdAppend DEF Queues
  <2>11. SendsAre(cmd', s, g + 1, size[s])
    BY <1>8, <2>1, <2>2, <2>4, CmdAppend
  <2>12. Queues(s)'
    BY <1>1, <1>4, <1>5, <1>7, <1>8, <2>8, <2>10, <2>11 DEF Queues
  <2>13. Handle(s)'
    BY <1>2, <1>4, <1>5, <1>6, <1>7, <2>7, <2>8 DEF Handle, Writing, Finishing, Resetting
  <2>14. Reported(s)'
    BY <1>1, <1>2, <1>4, <1>5, <2>1 DEF Reported, NoSlot
  <2>15. \A t \in Streams : t # s => SameFront(t)
    BY <1>1, <1>2, <1>9, <2>1 DEF SameFront, TypeFront
  <2>16. \A t \in Streams : t # s => SameCmds(t)
    BY <2>1, <2>2, <2>4, CmdAppend DEF SameCmds
  <2> QED BY <1>2, <1>9, <2>3, <2>6, <2>12, <2>13, <2>14, <2>15, <2>16, FrontStep
<1>11. CASE ~ingress
  <2>1. /\ cmd' = cmd /\ fpc' = [fpc EXCEPT ![s] = "over"]
        /\ failed' = [failed EXCEPT ![s] = StickyOrInternal(s)]
    BY <1>11 DEF FlushWrite
  <2>2. StickyOrInternal(s) \in Ends \ {"none"}
    BY <1>6, <1>11, ClosedIsTold
  <2>3. TypeFront'
    BY <1>1, <1>2, <1>3, <1>4, <2>1, <2>2 DEF TypeFront, Results, Ends
  <2>4. TypeShared'
    BY <1>1, <1>2, <1>3, <2>1 DEF TypeShared, Results
  <2>5. fpc'[s] = "over" /\ failed'[s] = StickyOrInternal(s)
    BY <1>1, <2>1 DEF TypeFront
  <2>6. Queues(s)'
    BY <1>1, <1>4, <1>5, <1>7, <1>8, <2>1 DEF Queues
  <2>7. Handle(s)'
    BY <1>2, <1>4, <1>5, <1>6, <1>7, <2>1, <2>5 DEF Handle, Writing, Finishing, Resetting
  <2>8. Reported(s)'
    BY <1>1, <1>2, <1>4, <1>5, <2>2, <2>5 DEF Reported, NoSlot, Ends
  <2>9. \A t \in Streams : t # s => SameFront(t)
    BY <1>1, <1>2, <1>9, <2>1 DEF SameFront, TypeFront
  <2>10. \A t \in Streams : SameCmds(t)
    BY <2>1, CmdsStay
  <2> QED BY <1>2, <1>9, <2>3, <2>4, <2>6, <2>7, <2>8, <2>9, <2>10, FrontStep
<1> QED BY <1>10, <1>11

\* A completion is reported.
LEMMA PollWriteStep ==
  ASSUME IInv, NEW s \in Streams, PollWrite(s)
  PROVE  IInv'
<1>1. /\ TypeFront /\ TypeShared /\ Queues(s) /\ Handle(s) /\ Reported(s)
      /\ fpc[s] = "inflight" /\ slot[s] # NoSlot
  BY Known DEF PollWrite
<1>2. /\ UNCHANGED workerVars /\ slot' = [slot EXCEPT ![s] = NoSlot]
      /\ UNCHANGED <<size, submitted, finalized, local_terminal, finish_result, status,
                     finslot, cmd, ingress>>
  BY DEF PollWrite
<1>3. /\ OpsOf(s)' = OpsOf(s) /\ Entry(s)' = Entry(s) /\ SameEntry(s)
      /\ wire' = wire /\ conn_terminal' = conn_terminal
      /\ \A x : Wrote(s, x)' <=> Wrote(s, x)
  BY <1>2, HandleMoves
<1>4. \A t \in Streams : SameCmds(t)
  BY <1>2, CmdsStay
<1>5. /\ Writing(s)' <=> Writing(s)
      /\ Finishing(s)' <=> Finishing(s)
      /\ Resetting(s)' <=> Resetting(s)
      /\ TerminalNow(s)' = TerminalNow(s)
  BY <1>2, <1>3 DEF Writing, Finishing, Resetting, TerminalNow
<1>6. Queues(s)'
  BY <1>1, <1>2, <1>3, <1>4, QueuesSame
<1>7. slot'[s] = NoSlot /\ slot[s] \in Results /\ TypeShared'
  BY <1>1, <1>2 DEF TypeShared, Results
<1>8. ~Writing(s) /\ ~Finishing(s)
  BY <1>1 DEF Handle
<1>9. /\ fpc' \in [Streams -> {"idle", "flush", "inflight", "fin", "finwait", "over", "dropped"}]
      /\ fpc'[s] \in {"idle", "over"} /\ failed' \in [Streams -> Results]
      /\ failed'[s] = failed[s] \/ failed'[s] = slot[s]
      /\ \A t \in Streams : t # s => fpc'[t] = fpc[t] /\ failed'[t] = failed[t]
  <2>1. CASE slot[s] = "ok"
    <3>1. fpc' = [fpc EXCEPT ![s] = "idle"] /\ failed' = failed
      BY <2>1 DEF PollWrite
    <3> QED BY <1>1, <3>1 DEF TypeFront
  <2>2. CASE slot[s] # "ok"
    <3>1. fpc' = [fpc EXCEPT ![s] = "over"] /\ failed' = [failed EXCEPT ![s] = slot[s]]
      BY <2>2 DEF PollWrite
    <3> QED BY <1>1, <1>7, <3>1 DEF TypeFront
  <2> QED BY <2>1, <2>2
<1>10. TypeFront'
  BY <1>1, <1>2, <1>9 DEF TypeFront
<1>11. Handle(s)'
  BY <1>1, <1>2, <1>5, <1>8, <1>9 DEF Handle
<1>12. Reported(s)'
  BY <1>1, <1>2, <1>3, <1>7, <1>9 DEF Reported, NoSlot
<1>13. \A t \in Streams : t # s => /\ SameFront(t) /\ SameCmds(t)
                                   /\ slot'[t] = slot[t] /\ finslot'[t] = finslot[t]
  BY <1>1, <1>2, <1>4, <1>9 DEF SameFront, TypeShared
<1> QED BY <1>2, <1>6, <1>7, <1>10, <1>11, <1>12, <1>13, FrontStep

\* poll_finish begins, or answers at once.
LEMMA StartFinishStep ==
  ASSUME IInv, NEW s \in Streams, StartFinish(s)
  PROVE  IInv'
<1>1. /\ TypeFront /\ TypeShared /\ Queues(s) /\ Handle(s) /\ Reported(s) /\ fpc[s] = "idle"
  BY Known DEF StartFinish
<1>2. /\ UNCHANGED workerVars /\ UNCHANGED sharedVars
      /\ UNCHANGED <<size, submitted, local_terminal, failed>>
      /\ finalized' = [finalized EXCEPT ![s] = TRUE]
  BY DEF StartFinish
<1>3. /\ status' = status /\ slot' = slot /\ finslot' = finslot /\ cmd' = cmd /\ ingress' = ingress
      /\ TypeShared'
  BY <1>1, <1>2, SharedTypes DEF sharedVars
<1>4. /\ OpsOf(s)' = OpsOf(s) /\ Entry(s)' = Entry(s) /\ SameEntry(s)
      /\ wire' = wire /\ conn_terminal' = conn_terminal
      /\ \A x : Wrote(s, x)' <=> Wrote(s, x)
  BY <1>2, HandleMoves
<1>5. \A t \in Streams : SameCmds(t)
  BY <1>3, CmdsStay
<1>6. /\ Writing(s)' <=> Writing(s)
      /\ Finishing(s)' <=> Finishing(s)
      /\ Resetting(s)' <=> Resetting(s)
      /\ TerminalNow(s) \in Ends /\ finalized'[s] = TRUE
  BY <1>1, <1>2, <1>3, <1>4 DEF Writing, Finishing, Resetting, TerminalNow, TypeFront, TypeShared
<1>7. Queues(s)'
  BY <1>1, <1>2, <1>3, <1>4, <1>5, QueuesSame
<1>8. ~Writing(s) /\ ~Finishing(s) /\ (finalized[s] => TerminalNow(s) # "none")
      /\ (Resetting(s) => finalized[s])
  BY <1>1 DEF Handle
<1>9. /\ fpc' \in [Streams -> {"idle", "flush", "inflight", "fin", "finwait", "over", "dropped"}]
      /\ finish_result' \in [Streams -> Results]
      /\ fpc'[s] = "over" \/ (fpc'[s] = "fin" /\ ~finalized[s])
      /\ finish_result'[s] = finish_result[s] \/ finish_result'[s] = TerminalNow(s)
      /\ \A t \in Streams : t # s => fpc'[t] = fpc[t] /\ finish_result'[t] = finish_result[t]
  <2>1. CASE finalized[s] \/ TerminalNow(s) # "none"
    <3>1. /\ fpc' = [fpc EXCEPT ![s] = "over"]
          /\ finish_result' = [finish_result EXCEPT ![s] = TerminalNow(s)]
      BY <1>8, <2>1 DEF StartFinish
    <3> QED BY <1>1, <1>6, <3>1 DEF TypeFront, Ends, Results, NoSlot
  <2>2. CASE ~(finalized[s] \/ TerminalNow(s) # "none")
    <3>1. fpc' = [fpc EXCEPT ![s] = "fin"] /\ finish_result' = finish_result
      BY <2>2 DEF StartFinish
    <3> QED BY <1>1, <2>2, <3>1 DEF TypeFront
  <2> QED BY <2>1, <2>2
<1>10. TypeFront'
  BY <1>1, <1>2, <1>9 DEF TypeFront
<1>11. Handle(s)'
  BY <1>1, <1>6, <1>8, <1>9 DEF Handle
<1>12. Reported(s)'
  BY <1>1, <1>2, <1>3, <1>4, <1>6, <1>9 DEF Reported, Ends
<1>13. \A t \in Streams : t # s => /\ SameFront(t) /\ SameCmds(t)
                                   /\ slot'[t] = slot[t] /\ finslot'[t] = finslot[t]
  BY <1>1, <1>2, <1>3, <1>5, <1>9 DEF SameFront, TypeFront
<1> QED BY <1>2, <1>3, <1>7, <1>10, <1>11, <1>12, <1>13, FrontStep

\* The last command of a stream, a finish or a reset, enters the channel.
LEMMA LastCommand ==
  ASSUME IInv, NEW s \in Streams, NEW c \in Commands, c.id = s, c.op \in {"Finish", "Reset"},
         ~Finishing(s), ~Resetting(s), cmd' = Append(cmd, c), UNCHANGED workerVars,
         submitted' = submitted
  PROVE  /\ Queues(s)' /\ cmd' \in Seq(Commands) /\ \A t \in Streams : t # s => SameCmds(t)
         /\ \A o : Has(cmd', s, o) <=> Has(cmd, s, o) \/ c.op = o
<1>1. Queues(s) /\ cmd \in Seq(Commands)
  BY Known DEF TypeShared
<1>2. /\ OpsOf(s)' = OpsOf(s) /\ Entry(s)' = Entry(s) /\ wire' = wire
      /\ \A x : Wrote(s, x)' <=> Wrote(s, x)
  BY HandleMoves
<1>3. /\ ~Has(cmd, s, "Finish") /\ ~Has(cmd, s, "Reset") /\ ~HasOp(OpsOf(s), "finish")
      /\ ~Wrote(s, FIN) /\ ~Wrote(s, RESET) /\ ~Entry(s).pending_reset
  BY DEF Finishing, Resetting
<1>4. \A i \in DOMAIN cmd : cmd[i].id = s => cmd[i].op = "Send"
  BY <1>1, <1>3, CmdKinds
<1>5. cmd' \in Seq(Commands) /\ \A o : Has(cmd', s, o) <=> Has(cmd, s, o) \/ (c.id = s /\ c.op = o)
  BY <1>1, CmdAppend
<1>6. InOrder(cmd', s)
  BY <1>1, <1>4, CmdAppend DEF Queues
<1>7. SendsAre(cmd', s, Len(submitted[s]), submitted[s][Len(submitted[s])])
  BY <1>1, CmdAppend DEF Queues
<1>8. \A t \in Streams : t # s => SameCmds(t)
  BY <1>1, CmdAppend DEF SameCmds
<1>9. Has(cmd', s, "Send") <=> Has(cmd, s, "Send")
  BY <1>5
<1>10. Queues(s)'
  BY <1>1, <1>2, <1>3, <1>6, <1>7, <1>9 DEF Queues
<1> QED BY <1>5, <1>8, <1>10

LEMMA CmdMakers ==
  ASSUME NEW s \in Streams
  PROVE  /\ Finish(s) \in Commands /\ Finish(s).id = s /\ Finish(s).op = "Finish"
         /\ Reset(s) \in Commands /\ Reset(s).id = s /\ Reset(s).op = "Reset"
BY DEF Finish, Reset, Commands

\* The finish is handed over, or refused by the closed ingress.
LEMMA FlushFinishStep ==
  ASSUME IInv, NEW s \in Streams, FlushFinish(s)
  PROVE  IInv'
<1>1. /\ TypeFront /\ TypeShared /\ Queues(s) /\ Handle(s) /\ Reported(s) /\ fpc[s] = "fin"
  BY Known DEF FlushFinish
<1>2. /\ UNCHANGED workerVars
      /\ UNCHANGED <<size, submitted, finalized, local_terminal, failed, status, slot, finslot, ingress>>
  BY DEF FlushFinish
<1>3. /\ OpsOf(s)' = OpsOf(s) /\ Entry(s)' = Entry(s) /\ SameEntry(s)
      /\ wire' = wire /\ conn_terminal' = conn_terminal
      /\ \A x : Wrote(s, x)' <=> Wrote(s, x)
  BY <1>2, HandleMoves
<1>4. ~Writing(s) /\ ~Finishing(s) /\ ~Resetting(s)
  BY <1>1 DEF Handle
<1>5. CASE ingress
  <2>1. /\ cmd' = Append(cmd, Finish(s)) /\ fpc' = [fpc EXCEPT ![s] = "finwait"]
        /\ finish_result' = finish_result
    BY <1>5 DEF FlushFinish
  <2>2. /\ Queues(s)' /\ cmd' \in Seq(Commands) /\ \A t \in Streams : t # s => SameCmds(t)
        /\ \A o : Has(cmd', s, o) <=> Has(cmd, s, o) \/ Finish(s).op = o
    BY <1>2, <1>4, <2>1, CmdMakers, LastCommand
  <2>3. ~Has(cmd', s, "Send") /\ ~Has(cmd', s, "Reset")
    BY <1>4, <2>2, CmdMakers DEF Writing, Resetting
  <2>4. fpc'[s] = "finwait" /\ TypeFront' /\ TypeShared'
    BY <1>1, <1>2, <2>1, <2>2 DEF TypeFront, TypeShared
  <2>5. finalized[s]
    BY <1>1, <1>5 DEF Handle
  <2>6. Handle(s)'
    BY <1>2, <1>3, <1>4, <2>3, <2>4, <2>5 DEF Handle, Writing, Finishing, Resetting
  <2>7. Reported(s)'
    BY <1>1, <1>2, <1>3, <2>1 DEF Reported
  <2>8. \A t \in Streams : t # s => SameFront(t)
    BY <1>1, <1>2, <2>1 DEF SameFront, TypeFront
  <2> QED BY <1>2, <2>2, <2>4, <2>6, <2>7, <2>8, FrontStep
<1>6. CASE ~ingress
  <2>1. /\ cmd' = cmd /\ fpc' = [fpc EXCEPT ![s] = "over"]
        /\ finish_result' = [finish_result EXCEPT ![s] = StickyOrInternal(s)]
    BY <1>6 DEF FlushFinish
  <2>2. StickyOrInternal(s) \in Ends \ {"none"}
    BY <1>4, <1>6, ClosedIsTold
  <2>3. TypeFront' /\ TypeShared' /\ fpc'[s] = "over" /\ finish_result'[s] = StickyOrInternal(s)
    BY <1>1, <1>2, <2>1, <2>2 DEF TypeFront, TypeShared, Results, Ends
  <2>4. \A t \in Streams : SameCmds(t)
    BY <2>1, CmdsStay
  <2>5. Queues(s)'
    BY <1>1, <1>2, <1>3, <2>4, QueuesSame
  <2>6. Handle(s)'
    BY <1>2, <1>3, <1>4, <2>1, <2>3 DEF Handle, Writing, Finishing, Resetting
  <2>7. Reported(s)'
    BY <1>1, <1>2, <1>3, <2>2, <2>3 DEF Reported, Ends
  <2>8. \A t \in Streams : t # s => SameFront(t)
    BY <1>1, <1>2, <2>1 DEF SameFront, TypeFront
  <2> QED BY <1>2, <2>3, <2>4, <2>5, <2>6, <2>7, <2>8, FrontStep
<1> QED BY <1>5, <1>6

\* The answer to a finish is taken.
LEMMA PollFinishStep ==
  ASSUME IInv, NEW s \in Streams, PollFinish(s)
  PROVE  IInv'
<1>1. /\ TypeFront /\ TypeShared /\ Queues(s) /\ Handle(s) /\ Reported(s) /\ fpc[s] = "finwait"
  BY Known DEF PollFinish
<1>2. /\ UNCHANGED workerVars
      /\ UNCHANGED <<size, submitted, finalized, local_terminal, failed, status, slot, cmd, ingress>>
      /\ finish_result' = [finish_result EXCEPT ![s] = finslot[s]]
      /\ finslot' = [finslot EXCEPT ![s] = NoSlot]
      /\ fpc' = [fpc EXCEPT ![s] = "over"]
  BY DEF PollFinish
<1>3. /\ OpsOf(s)' = OpsOf(s) /\ Entry(s)' = Entry(s) /\ SameEntry(s)
      /\ wire' = wire /\ conn_terminal' = conn_terminal
      /\ \A x : Wrote(s, x)' <=> Wrote(s, x)
  BY <1>2, HandleMoves
<1>4. TypeFront' /\ TypeShared'
  BY <1>1, <1>2 DEF TypeFront, TypeShared, Results
<1>5. fpc'[s] = "over" /\ finish_result'[s] = finslot[s] /\ finslot'[s] = NoSlot
  BY <1>1, <1>2 DEF TypeFront, TypeShared
<1>6. \A t \in Streams : SameCmds(t)
  BY <1>2, CmdsStay
<1>7. Queues(s)'
  BY <1>1, <1>2, <1>3, <1>6, QueuesSame
<1>8. /\ Writing(s)' <=> Writing(s)
      /\ Finishing(s)' <=> Finishing(s)
      /\ Resetting(s)' <=> Resetting(s)
  BY <1>2, <1>3 DEF Writing, Finishing, Resetting
<1>9. Handle(s)'
  BY <1>1, <1>2, <1>5, <1>8 DEF Handle
<1>10. Reported(s)'
  BY <1>1, <1>2, <1>3, <1>5 DEF Reported, NoSlot
<1>11. \A t \in Streams : t # s => /\ SameFront(t) /\ SameCmds(t)
                                   /\ slot'[t] = slot[t] /\ finslot'[t] = finslot[t]
  BY <1>1, <1>2, <1>6 DEF SameFront, TypeFront, TypeShared
<1> QED BY <1>2, <1>4, <1>7, <1>9, <1>10, <1>11, FrontStep

\* A reset is called once and is the stream's last command.
LEMMA CallResetStep ==
  ASSUME IInv, NEW s \in Streams, CallReset(s)
  PROVE  IInv'
<1>1. /\ TypeFront /\ TypeShared /\ Queues(s) /\ Handle(s) /\ Reported(s)
      /\ fpc[s] \in {"idle", "inflight", "over"} /\ ~finalized[s]
  BY Known DEF CallReset
<1>2. /\ UNCHANGED workerVars
      /\ UNCHANGED <<fpc, size, submitted, finish_result, failed, status, slot, finslot, ingress>>
      /\ finalized' = [finalized EXCEPT ![s] = TRUE]
      /\ local_terminal' = [local_terminal EXCEPT ![s] = IF status[s] = "none" THEN "reset" ELSE @]
      /\ cmd' = IF ingress THEN Append(cmd, Reset(s)) ELSE cmd
  BY DEF CallReset
<1>3. /\ OpsOf(s)' = OpsOf(s) /\ Entry(s)' = Entry(s) /\ SameEntry(s)
      /\ wire' = wire /\ conn_terminal' = conn_terminal
      /\ \A x : Wrote(s, x)' <=> Wrote(s, x)
  BY <1>2, HandleMoves
<1>4. ~Finishing(s) /\ ~Resetting(s)
  BY <1>1 DEF Handle
<1>5. /\ Queues(s)' /\ cmd' \in Seq(Commands) /\ \A t \in Streams : t # s => SameCmds(t)
      /\ Has(cmd', s, "Send") <=> Has(cmd, s, "Send")
      /\ Has(cmd', s, "Finish") <=> Has(cmd, s, "Finish")
  <2>1. CASE ingress
    <3>1. /\ Queues(s)' /\ cmd' \in Seq(Commands) /\ \A t \in Streams : t # s => SameCmds(t)
          /\ \A o : Has(cmd', s, o) <=> Has(cmd, s, o) \/ Reset(s).op = o
      BY <1>2, <1>4, <2>1, CmdMakers, LastCommand
    <3> QED BY <3>1, CmdMakers
  <2>2. CASE ~ingress
    <3>1. cmd' = cmd
      BY <1>2, <2>2
    <3>2. \A t \in Streams : SameCmds(t)
      BY <3>1, CmdsStay
    <3>3. Queues(s)'
      BY <1>1, <1>2, <1>3, <3>2, QueuesSame
    <3> QED BY <1>1, <3>1, <3>2, <3>3 DEF TypeShared
  <2> QED BY <2>1, <2>2
<1>6. TypeFront' /\ TypeShared'
  <2>1. local_terminal' \in [Streams -> Ends]
    BY <1>1, <1>2 DEF TypeFront, Ends
  <2> QED BY <1>1, <1>2, <1>5, <2>1 DEF TypeFront, TypeShared
<1>7. finalized'[s] = TRUE /\ TerminalNow(s)' # "none"
  BY <1>1, <1>2 DEF TypeFront, TerminalNow
<1>8. /\ Writing(s)' <=> Writing(s)
      /\ Finishing(s)' <=> Finishing(s)
  BY <1>3, <1>5 DEF Writing, Finishing
<1>9. Handle(s)'
  BY <1>1, <1>2, <1>4, <1>7, <1>8 DEF Handle
<1>10. Reported(s)'
  BY <1>1, <1>2, <1>3 DEF Reported
<1>11. \A t \in Streams : t # s => SameFront(t)
  BY <1>1, <1>2 DEF SameFront, TypeFront
<1> QED BY <1>2, <1>5, <1>6, <1>9, <1>10, <1>11, FrontStep

\* The handle is dropped, with a Finish if nothing ended the stream.
LEMMA DropHandleStep ==
  ASSUME IInv, NEW s \in Streams, DropHandle(s)
  PROVE  IInv'
<1>1. TypeFront /\ TypeShared /\ Queues(s) /\ Handle(s) /\ Reported(s)
      /\ fpc[s] \in {"idle", "inflight", "finwait", "over"}
  BY Known DEF DropHandle
<1>2. /\ UNCHANGED workerVars
      /\ UNCHANGED <<size, submitted, local_terminal, finish_result, failed, status, slot, finslot, ingress>>
      /\ cmd' = IF FinishOnDrop(s) THEN Append(cmd, Finish(s)) ELSE cmd
      /\ finalized' = [finalized EXCEPT ![s] = TRUE]
      /\ fpc' = [fpc EXCEPT ![s] = "dropped"]
  BY DEF DropHandle
<1>3. /\ OpsOf(s)' = OpsOf(s) /\ Entry(s)' = Entry(s) /\ SameEntry(s)
      /\ wire' = wire /\ conn_terminal' = conn_terminal
      /\ \A x : Wrote(s, x)' <=> Wrote(s, x)
  BY <1>2, HandleMoves
<1>4. FinishOnDrop(s) => ~Finishing(s) /\ ~Resetting(s)
  BY <1>1 DEF Handle, FinishOnDrop
<1>5. /\ Queues(s)' /\ cmd' \in Seq(Commands) /\ \A t \in Streams : t # s => SameCmds(t)
      /\ Has(cmd', s, "Reset") <=> Has(cmd, s, "Reset")
      /\ Has(cmd', s, "Finish") => Has(cmd, s, "Finish") \/ FinishOnDrop(s)
  <2>1. CASE FinishOnDrop(s)
    <3>1. /\ Queues(s)' /\ cmd' \in Seq(Commands) /\ \A t \in Streams : t # s => SameCmds(t)
          /\ \A o : Has(cmd', s, o) <=> Has(cmd, s, o) \/ Finish(s).op = o
      BY <1>2, <1>4, <2>1, CmdMakers, LastCommand
    <3> QED BY <2>1, <3>1, CmdMakers
  <2>2. CASE ~FinishOnDrop(s)
    <3>1. cmd' = cmd
      BY <1>2, <2>2
    <3>2. \A t \in Streams : SameCmds(t)
      BY <3>1, CmdsStay
    <3>3. Queues(s)'
      BY <1>1, <1>2, <1>3, <3>2, QueuesSame
    <3> QED BY <1>1, <3>1, <3>2, <3>3 DEF TypeShared
  <2> QED BY <2>1, <2>2
<1>6. TypeFront' /\ TypeShared'
  BY <1>1, <1>2, <1>5 DEF TypeFront, TypeShared
<1>7. finalized'[s] = TRUE /\ fpc'[s] = "dropped"
  BY <1>1, <1>2 DEF TypeFront
<1>8. /\ Resetting(s)' <=> Resetting(s)
      /\ Finishing(s)' => Finishing(s) \/ FinishOnDrop(s)
  BY <1>3, <1>5 DEF Resetting, Finishing
<1>9. Handle(s)'
  BY <1>1, <1>4, <1>7, <1>8 DEF Handle
<1>10. Reported(s)'
  BY <1>1, <1>2, <1>3 DEF Reported
<1>11. \A t \in Streams : t # s => SameFront(t)
  BY <1>1, <1>2 DEF SameFront, TypeFront
<1> QED BY <1>2, <1>5, <1>6, <1>9, <1>10, <1>11, FrontStep

-----------------------------------------------------------------------------
(* The worker *)

\* Outside the close, the connection terminal is not known and ingress is open.
LEMMA StageStays ==
  ASSUME IInv, wpc \notin {"close", "exited"}, wpc' \notin {"close", "exited"},
         conn_terminal' = conn_terminal, ingress' = ingress, wpc' = "turn" => cur' \in Streams
  PROVE  Stage' /\ ~conn_terminal /\ ingress
BY DEF IInv, Stage

\* A step that moves only the loop, the round robin or the capacity.
LEMMA QuietStep ==
  ASSUME IInv, UNCHANGED <<frontVars, sharedVars, regVars, conn_terminal, qsend, wire>>,
         wpc \notin {"close", "exited"}, wpc' \notin {"close", "exited"},
         wpc' = "turn" => cur' \in Streams, TypeWorker', TypeQuiche'
  PROVE  IInv'
<1>1. /\ send' = send /\ recv' = recv /\ cmd' = cmd /\ ingress' = ingress
      /\ status' = status /\ slot' = slot /\ finslot' = finslot
  BY DEF regVars, sharedVars
<1>2. Stage'
  BY <1>1, StageStays
<1>3. TypeFront' /\ TypeShared'
  BY FrontTypes, SharedTypes DEF IInv, TypeOK
<1>4. ASSUME NEW t \in Streams PROVE Same(t)
  BY <1>1, CmdsStay, EntryStays, FrontStays DEF Same, SameCells, SameQuiche
<1> QED BY <1>2, <1>3, <1>4, SameChain DEF IInv, TypeOK

LEMMA AdmitTypes ==
  ASSUME NEW a, NEW s
  PROVE  /\ DOMAIN AdmitSendDone(a, s) \subseteq DOMAIN a
         /\ DOMAIN AdmitRecvDone(a, s) \subseteq DOMAIN a
         /\ DOMAIN Remove(a, s) \subseteq DOMAIN a
<1>1. \A b : DOMAIN Remove(b, s) \subseteq DOMAIN b
  BY DEF Remove
<1>2. \A b : DOMAIN TerminalTransition(b, s) \subseteq DOMAIN b
  BY <1>1 DEF TerminalTransition
<1>3. /\ DOMAIN (IF s \in DOMAIN a THEN [a EXCEPT ![s].send_done = TRUE] ELSE a) = DOMAIN a
      /\ DOMAIN (IF s \in DOMAIN a THEN [a EXCEPT ![s].recv_done = TRUE] ELSE a) = DOMAIN a
  OBVIOUS
<1> QED BY <1>1, <1>2, <1>3 DEF AdmitSendDone, AdmitRecvDone

\* The steps of the loop itself, and new capacity.
LEMMA LoopSteps ==
  ASSUME IInv,
         NoPacketIteration \/ FlushQuiescent \/ EndApply \/ EndWritable \/ BeginTurn \/ EndSend
           \/ GrantCredit \/ ConnectionClosing
  PROVE  IInv'
<1>1. TypeWorker /\ TypeQuiche
  BY DEF IInv, TypeOK
<1>2. /\ CMD_BUDGET \in Nat /\ WRITABLE_BUDGET \in Nat /\ WRITE_BUDGET \in Nat
  BY SendBoundsAssumption
<1>3. CASE NoPacketIteration
  <2>1. UNCHANGED <<frontVars, sharedVars, regVars, runnable_send, conn_terminal, cur, quicheVars>>
        /\ wpc = "wait" /\ wpc' = "apply" /\ left' = CMD_BUDGET /\ needs_iteration' = FALSE
    BY <1>3 DEF NoPacketIteration, packetUnchanged, BeginIteration
  <2>2. TypeWorker' /\ TypeQuiche' /\ UNCHANGED <<qsend, wire>>
    BY <1>1, <1>2, <2>1, QuicheTypes DEF TypeWorker, regVars, quicheVars
  <2> QED BY <2>1, <2>2, QuietStep
<1>4. CASE FlushQuiescent
  <2>1. /\ UNCHANGED <<frontVars, sharedVars, regVars, conn_terminal, cur, quicheVars>>
        /\ wpc = "wait" /\ wpc' = "apply" /\ left' = CMD_BUDGET /\ needs_iteration' = FALSE
        /\ runnable_send' \in Orders(QuiescentHeld)
    BY <1>4 DEF FlushQuiescent, BeginIteration
  <2>2. runnable_send' \in Seq(Streams)
    <3>1. QuiescentHeld \subseteq Streams
      BY <1>1 DEF QuiescentHeld, TypeWorker
    <3>2. IsFiniteSet(QuiescentHeld)
      BY <3>1, SendBoundsAssumption, FS_Subset
    <3>3. Cardinality(QuiescentHeld) \in Nat
      BY <3>2, FS_CardinalityType
    <3>4. runnable_send' \in [1..Cardinality(QuiescentHeld) -> QuiescentHeld]
      BY <2>1 DEF Orders
    <3> QED BY <3>1, <3>3, <3>4
  <2>3. TypeWorker' /\ TypeQuiche' /\ UNCHANGED <<qsend, wire>>
    BY <1>1, <1>2, <2>1, <2>2, QuicheTypes DEF TypeWorker, regVars, quicheVars
  <2> QED BY <2>1, <2>3, QuietStep
<1>5. CASE EndApply
  <2>1. /\ UNCHANGED <<frontVars, sharedVars, regVars, runnable_send, needs_iteration,
                       conn_terminal, cur, quicheVars>>
        /\ wpc = "apply" /\ wpc' = "writable" /\ left' = WRITABLE_BUDGET
    BY <1>5 DEF EndApply
  <2>2. TypeWorker' /\ TypeQuiche' /\ UNCHANGED <<qsend, wire>>
    BY <1>1, <1>2, <2>1, QuicheTypes DEF TypeWorker, regVars, quicheVars
  <2> QED BY <2>1, <2>2, QuietStep
<1>6. CASE EndWritable
  <2>0. needs_iteration' \in BOOLEAN
    BY <1>6, Zenon DEF EndWritable
  <2>1. /\ UNCHANGED <<frontVars, sharedVars, regVars, runnable_send, conn_terminal, cur, quicheVars>>
        /\ wpc = "writable" /\ wpc' = "send" /\ left' = WRITE_BUDGET
    BY <1>6 DEF EndWritable
  <2>2. TypeWorker' /\ TypeQuiche' /\ UNCHANGED <<qsend, wire>>
    BY <1>1, <1>2, <2>0, <2>1, QuicheTypes DEF TypeWorker, regVars, quicheVars
  <2> QED BY <2>1, <2>2, QuietStep
<1>7. CASE BeginTurn
  <2>1. /\ UNCHANGED <<frontVars, sharedVars, regVars, needs_iteration, conn_terminal, quicheVars>>
        /\ wpc = "send" /\ wpc' = "turn" /\ left' = left - 1 /\ left > 0 /\ runnable_send # <<>>
        /\ cur' = Head(runnable_send) /\ runnable_send' = Tail(runnable_send)
    BY <1>7 DEF BeginTurn, TurnAvailable
  <2>2. cur' \in Streams /\ runnable_send' \in Seq(Streams)
    BY <1>1, <2>1, ElemsTail DEF TypeWorker
  <2>3. left' \in Nat
    BY <1>1, <2>1 DEF TypeWorker
  <2>4. TypeWorker' /\ TypeQuiche' /\ UNCHANGED <<qsend, wire>>
    BY <1>1, <2>1, <2>2, <2>3, QuicheTypes DEF TypeWorker, regVars, quicheVars
  <2> QED BY <2>1, <2>2, <2>4, QuietStep
<1>8. CASE EndSend
  <2>0. needs_iteration' \in BOOLEAN
    BY <1>8, Zenon DEF EndSend
  <2>1. /\ UNCHANGED <<frontVars, sharedVars, regVars, runnable_send, conn_terminal, cur, quicheVars>>
        /\ wpc = "send" /\ wpc' = "wait" /\ left' = 0
    BY <1>8 DEF EndSend
  <2>2. TypeWorker' /\ TypeQuiche' /\ UNCHANGED <<qsend, wire>>
    BY <1>1, <2>0, <2>1, QuicheTypes DEF TypeWorker, regVars, quicheVars
  <2> QED BY <2>1, <2>2, QuietStep
<1>9. CASE GrantCredit
  <2>1. /\ UNCHANGED <<frontVars, sharedVars, regVars, runnable_send, conn_terminal, cur,
                       qsend, qarmed, wire, qconn>>
        /\ wpc = "wait" /\ wpc' = "apply" /\ left' = CMD_BUDGET /\ needs_iteration' = FALSE
        /\ cap' = cap + 1 /\ granted' = granted + 1
    BY <1>9 DEF GrantCredit, packetUnchanged, BeginIteration
  <2>2. TypeWorker'
    BY <1>1, <1>2, <2>1 DEF TypeWorker, regVars
  <2>3. TypeQuiche'
    BY <1>1, <2>1 DEF TypeQuiche
  <2> QED BY <2>1, <2>2, <2>3, QuietStep
<1>10. CASE ConnectionClosing
  <2>1. /\ UNCHANGED <<frontVars, sharedVars, regVars, runnable_send, conn_terminal, cur,
                       needs_iteration, wpc, left, cap, granted, qsend, qarmed, wire>>
        /\ wpc = "wait" /\ qconn' = "closing"
    BY <1>10 DEF ConnectionClosing, packetUnchanged
  <2>2. TypeWorker'
    BY <1>1, <2>1 DEF TypeWorker, regVars
  <2>3. TypeQuiche'
    BY <1>1, <2>1 DEF TypeQuiche
  <2> QED BY <2>1, <2>2, <2>3, QuietStep
<1> QED BY <1>3, <1>4, <1>5, <1>6, <1>7, <1>8, <1>9, <1>10

\* The rest of the state, for a step of the worker on stream s.
OthersSame(s) ==
  \A t \in Streams : t # s =>
    SameCells(t) /\ SameCmds(t) /\ SameEntry(t) /\ SameQuiche(t) /\ (t \in recv => t \in recv')

LEMMA WorkerStep ==
  ASSUME IInv, NEW s \in Streams, UNCHANGED frontVars, ingress' = ingress,
         conn_terminal' = conn_terminal, wpc \notin {"close", "exited"},
         wpc' \notin {"close", "exited"}, wpc' = "turn" => cur' \in Streams,
         TypeShared', TypeWorker', TypeQuiche', OthersSame(s),
         Queues(s)', Handle(s)', EntryState(s)', Reported(s)'
  PROVE  IInv'
<1>1. Stage'
  BY StageStays
<1>2. TypeFront'
  BY FrontTypes DEF IInv, TypeOK
<1>3. \A t \in Streams : t # s => Same(t)
  BY FrontStays DEF OthersSame, Same
<1>4. Chain(s)'
  BY DEF Chain
<1> QED BY <1>1, <1>2, <1>3, <1>4, StepOf DEF TypeOK

\* quiche learns of a stop, or collects a stream.
LEMMA PeerSteps ==
  ASSUME IInv, NEW s \in Streams, PeerStops(s) \/ Collect(s)
  PROVE  IInv'
<1>1. TypeShared /\ TypeWorker /\ TypeQuiche /\ Queues(s) /\ Handle(s) /\ EntryState(s) /\ Reported(s)
  BY Known
<1>2. /\ UNCHANGED <<frontVars, sharedVars, regVars, runnable_send, conn_terminal, cur,
                     cap, granted, wire, qconn>>
      /\ wpc = "wait" /\ wpc' \in {"wait", "apply"} /\ left' \in Nat /\ needs_iteration' \in BOOLEAN
  BY <1>1, SendBoundsAssumption
     DEF PeerStops, Collect, packetUnchanged, BeginIteration, TypeWorker
<1>3. /\ qsend' \in [Streams -> {"open", "stopped", "fin", "shut", "gone"}]
      /\ \A t \in Streams : t # s => qsend'[t] = qsend[t]
      /\ \/ qsend[s] = "open" /\ qsend'[s] = "stopped"
         \/ qsend'[s] = "gone"
      /\ qarmed' \subseteq Streams
  BY <1>1 DEF PeerStops, Collect, TypeQuiche
<1>4. TypeShared' /\ TypeWorker'
  BY <1>1, <1>2, SharedTypes DEF TypeWorker, regVars
<1>5. TypeQuiche'
  BY <1>1, <1>2, <1>3 DEF TypeQuiche
<1>6. /\ send' = send /\ recv' = recv /\ cmd' = cmd /\ ingress' = ingress
      /\ status' = status /\ slot' = slot /\ finslot' = finslot /\ submitted' = submitted
      /\ fpc' = fpc /\ finalized' = finalized /\ local_terminal' = local_terminal
      /\ failed' = failed /\ finish_result' = finish_result
  BY <1>2 DEF regVars, sharedVars, frontVars
<1>7. \A t \in Streams : SameCmds(t) /\ SameEntry(t)
  BY <1>6, CmdsStay, EntryStays
<1>8. OthersSame(s)
  BY <1>2, <1>3, <1>6, <1>7 DEF OthersSame, SameCells, SameQuiche
<1>9. OpsOf(s)' = OpsOf(s) /\ Entry(s)' = Entry(s) /\ \A x : Wrote(s, x)' <=> Wrote(s, x)
  BY <1>2, <1>7 DEF OpsOf, SameEntry, Wrote
<1>10. Queues(s)'
  BY <1>1, <1>2, <1>6, <1>7, <1>9, QueuesSame
<1>11. Handle(s)'
  BY <1>1, <1>2, <1>6, <1>9, HandleSame
<1>12. EntryState(s)'
  BY <1>1, <1>3, <1>6, <1>9 DEF EntryState
<1>13. Reported(s)'
  BY <1>1, <1>2, <1>6, <1>9 DEF Reported
<1> QED BY <1>2, <1>4, <1>5, <1>6, <1>8, <1>10, <1>11, <1>12, <1>13, WorkerStep

\* The receive half ends, and a finished entry goes with it.
LEMMA RecvDoneStep ==
  ASSUME IInv, NEW s \in Streams, mark_recv_done(s)
  PROVE  IInv'
<1>1. TypeShared /\ TypeWorker /\ TypeQuiche /\ Queues(s) /\ Handle(s) /\ EntryState(s) /\ Reported(s)
      /\ Entry(s) \in Entries
  BY Known
<1>2. /\ UNCHANGED <<frontVars, sharedVars, runnable_send, needs_iteration, conn_terminal,
                     loopVars, quicheVars>>
      /\ wpc = "apply" /\ recv' = recv \ {s} /\ s \in recv
  BY DEF mark_recv_done
<1>3. TypeShared' /\ TypeQuiche'
  BY <1>1, <1>2, SharedTypes, QuicheTypes
<1>4. /\ cmd' = cmd /\ ingress' = ingress /\ wpc' = wpc /\ cur' = cur /\ left' = left
      /\ status' = status /\ slot' = slot /\ finslot' = finslot /\ submitted' = submitted
      /\ fpc' = fpc /\ finalized' = finalized /\ local_terminal' = local_terminal
      /\ failed' = failed /\ finish_result' = finish_result /\ qsend' = qsend /\ wire' = wire
  BY <1>2 DEF loopVars, sharedVars, frontVars, quicheVars
<1>5. \A t \in Streams : SameCmds(t) /\ SameCells(t) /\ SameQuiche(t)
  BY <1>4, CmdsStay DEF SameCells, SameQuiche
<1>6. \A x : Wrote(s, x)' <=> Wrote(s, x)
  BY <1>4 DEF Wrote
<1>7. \A t \in Streams : t # s => (t \in recv => t \in recv')
  BY <1>2
<1>8. CASE Reclaimable(send, recv', s)
  <2>1. send' = Remove(send, s) /\ admit' = Remove(admit, s) /\ s \in DOMAIN send /\ send[s].finished
    BY <1>8 DEF mark_recv_done, Reclaimable
  <2>2. Removed(s)
    BY <1>1, <2>1, RemoveEntry
  <2>3. Entry(s).finished
    BY <2>1 DEF Entry
  <2>4. /\ Entry(s)'.send_ops = <<>> /\ ~Entry(s)'.pending_reset
        /\ Entry(s)'.terminal = "none" /\ ~Entry(s)'.finished
        /\ Entry(s)'.held = NoHeld /\ Entry(s)'.shared = FALSE /\ s \notin DOMAIN send'
    BY <2>2, FreshEntry DEF Removed
  <2>5. OpsOf(s)' = OpsOf(s) /\ Entry(s)'.pending_reset = Entry(s).pending_reset
    <3>1. Entry(s).pending_reset \in BOOLEAN /\ Entry(s)' \in Entries
      BY <1>1, <2>1, <2>2, EntryFields, FreshEntry DEF Removed, NewState, Entries, Ends, NoHeld
    <3>2. Entry(s)'.pending_reset \in BOOLEAN
      BY <3>1, EntryFields
    <3> QED BY <1>1, <2>3, <2>4, <3>1, <3>2 DEF EntryState, OpsOf
  <2>6. TypeWorker'
    BY <1>1, <1>2, <1>4, <2>1, <2>2, AdmitTypes DEF TypeWorker, Removed
  <2>7. OthersSame(s)
    BY <1>5, <1>7, <2>2 DEF OthersSame, Removed
  <2>8. Queues(s)'
    BY <1>1, <1>4, <1>5, <2>5, QueuesSame
  <2>9. Handle(s)'
    BY <1>1, <1>4, <2>5, HandleSame
  <2>10. EntryState(s)'
    BY <1>1, <1>4, <1>6, <2>3, <2>4 DEF EntryState, OpsOf
  <2>11. Reported(s)'
    BY <1>1, <1>2, <1>4, <1>6, <2>3, <2>4 DEF Reported
  <2> QED BY <1>2, <1>3, <1>4, <2>6, <2>7, <2>8, <2>9, <2>10, <2>11, WorkerStep
<1>9. CASE ~Reclaimable(send, recv', s)
  <2>1. send' = send /\ admit' = AdmitRecvDone(admit, s) /\ (s \notin DOMAIN send \/ ~send[s].finished)
    BY <1>2, <1>9 DEF mark_recv_done, Reclaimable
  <2>2. \A t \in Streams : SameEntry(t)
    BY <2>1, EntryStays
  <2>3. OpsOf(s)' = OpsOf(s) /\ Entry(s)' = Entry(s)
    BY <2>2 DEF OpsOf, SameEntry
  <2>4. TypeWorker'
    BY <1>1, <1>2, <1>4, <2>1, AdmitTypes DEF TypeWorker
  <2>5. OthersSame(s)
    BY <1>5, <1>7, <2>2 DEF OthersSame
  <2>6. Queues(s)'
    BY <1>1, <1>4, <1>5, <2>3, QueuesSame
  <2>7. Handle(s)'
    BY <1>1, <1>4, <2>3, HandleSame
  <2>8. s \in DOMAIN send => ~Entry(s).finished
    BY <2>1 DEF Entry
  <2>9. EntryState(s)'
    BY <1>1, <1>4, <1>6, <2>1, <2>3, <2>8 DEF EntryState
  <2>10. Reported(s)'
    BY <1>1, <1>2, <1>4, <1>5, <2>2, ReportedSame
  <2> QED BY <1>2, <1>3, <1>4, <2>4, <2>5, <2>6, <2>7, <2>9, <2>10, WorkerStep
<1> QED BY <1>8, <1>9

-----------------------------------------------------------------------------
(* Completions, terminals and what they leave of the chain *)

\* SendOp::complete for a list of operations of s.
LEMMA Completes ==
  ASSUME TypeShared, NEW s \in Streams, NEW ops, NEW r \in Results, Complete(s, ops, r)
  PROVE  /\ slot' \in [Streams -> Results] /\ finslot' \in [Streams -> Results]
         /\ \A t \in Streams : t # s => slot'[t] = slot[t] /\ finslot'[t] = finslot[t]
         /\ slot[s] # NoSlot => slot'[s] = slot[s]
         /\ ~HasOp(ops, "write") => slot'[s] = slot[s]
         /\ slot'[s] = slot[s] \/ slot'[s] = r
         /\ HasOp(ops, "write") /\ OpsAre(ops, Len(submitted[s])) /\ slot[s] = NoSlot => slot'[s] = r
         /\ finslot'[s] = finslot[s] \/ finslot'[s] = r
         /\ ~HasOp(ops, "finish") => finslot'[s] = finslot[s]
<1> DEFINE w == \E op \in Elems(ops) : op.kind = "write" /\ op.n = Generation(s)
           f == \E op \in Elems(ops) : op.kind = "finish"
<1>1. slot' = [slot EXCEPT ![s] = IF @ = NoSlot /\ w THEN r ELSE @]
      /\ finslot' = [finslot EXCEPT ![s] = IF @ = NoSlot /\ f THEN r ELSE @]
  BY DEF Complete
<1>2. w => HasOp(ops, "write")
  BY DEF Elems, HasOp
<1>3. f <=> HasOp(ops, "finish")
  BY DEF Elems, HasOp
<1>4. HasOp(ops, "write") /\ OpsAre(ops, Len(submitted[s])) => w
  BY DEF Elems, HasOp, OpsAre, Generation
<1> HIDE DEF w, f
<1>5. /\ slot' \in [Streams -> Results] /\ finslot' \in [Streams -> Results]
      /\ \A t \in Streams : t # s => slot'[t] = slot[t] /\ finslot'[t] = finslot[t]
  BY <1>1 DEF TypeShared
<1>6. /\ slot'[s] = IF slot[s] = NoSlot /\ w THEN r ELSE slot[s]
      /\ finslot'[s] = IF finslot[s] = NoSlot /\ f THEN r ELSE finslot[s]
  BY <1>1 DEF TypeShared
<1> QED BY <1>2, <1>3, <1>4, <1>5, <1>6

\* The status cell is first-writer-wins.
LEMMA Publishes ==
  ASSUME TypeShared, NEW s \in Streams, NEW end \in Ends, SetStatus(s, end)
  PROVE  /\ status' \in [Streams -> Ends]
         /\ \A t \in Streams : t # s => status'[t] = status[t]
         /\ status'[s] = status[s] \/ (status[s] = "none" /\ status'[s] = end)
         /\ Entry(s).shared /\ status[s] = "none" => status'[s] = end
<1>1. status' = [status EXCEPT ![s] = IF @ = "none" /\ Entry(s).shared THEN end ELSE @]
  BY DEF SetStatus
<1>2. status'[s] = IF status[s] = "none" /\ Entry(s).shared THEN end ELSE status[s]
  BY <1>1 DEF TypeShared
<1> QED BY <1>1, <1>2 DEF TypeShared

\* The handle, when the worker completes what is queued for it.
LEMMA HandleKeeps ==
  ASSUME NEW s, Handle(s), SameFront(s),
         status'[s] = status[s] \/ (status[s] = "none" /\ status'[s] # "none"),
         Writing(s)' => Writing(s) /\ slot'[s] = slot[s],
         Writing(s) /\ ~Writing(s)' /\ slot[s] = NoSlot => slot'[s] # NoSlot,
         slot[s] # NoSlot => slot'[s] # NoSlot,
         Finishing(s)' => Finishing(s), Resetting(s)' => Resetting(s)
  PROVE  Handle(s)'
<1>1. TerminalNow(s) # "none" => TerminalNow(s)' # "none"
  BY DEF TerminalNow, SameFront
<1> QED BY <1>1 DEF Handle, SameFront

\* A terminal takes every operation of s, and its handle is told.
LEMMA EndedKeeps ==
  ASSUME IInv, NEW s \in Streams, NEW end \in {"reset", "stopped"}, UNCHANGED frontVars,
         conn_terminal' = conn_terminal, wire' = wire,
         SetStatus(s, end), Complete(s, OpsOf(s), end),
         OpsOf(s)' = <<>>, Entry(s)'.pending_reset => Resetting(s),
         \A o : Has(cmd', s, o) => Has(cmd, s, o), Has(cmd, s, "Send") => Has(cmd', s, "Send")
  PROVE  /\ Handle(s)' /\ Reported(s)'
         /\ status' \in [Streams -> Ends] /\ slot' \in [Streams -> Results]
         /\ finslot' \in [Streams -> Results]
         /\ \A t \in Streams : t # s => SameCells(t)
<1>1. TypeShared /\ Queues(s) /\ Handle(s) /\ Reported(s) /\ end \in Results /\ end \in Ends
  BY Known DEF Results, Ends
<1>2. /\ status' \in [Streams -> Ends]
      /\ \A t \in Streams : t # s => status'[t] = status[t]
      /\ status'[s] = status[s] \/ (status[s] = "none" /\ status'[s] = end)
      /\ Entry(s).shared /\ status[s] = "none" => status'[s] = end
  BY <1>1, Publishes
<1>3. /\ slot' \in [Streams -> Results] /\ finslot' \in [Streams -> Results]
      /\ \A t \in Streams : t # s => slot'[t] = slot[t] /\ finslot'[t] = finslot[t]
      /\ slot[s] # NoSlot => slot'[s] = slot[s]
      /\ ~HasOp(OpsOf(s), "write") => slot'[s] = slot[s]
      /\ slot'[s] = slot[s] \/ slot'[s] = end
      /\ HasOp(OpsOf(s), "write") /\ OpsAre(OpsOf(s), Len(submitted[s])) /\ slot[s] = NoSlot => slot'[s] = end
      /\ finslot'[s] = finslot[s] \/ finslot'[s] = end
  BY <1>1, Completes
<1>4. SameFront(s) /\ \A x : Wrote(s, x)' <=> Wrote(s, x)
  BY FrontStays DEF Wrote
<1>5. ~HasOp(OpsOf(s)', "write") /\ ~HasOp(OpsOf(s)', "finish")
  BY OpNone
<1>6. OpsAre(OpsOf(s), Len(submitted[s])) /\ (Has(cmd, s, "Send") => ~HasOp(OpsOf(s), "write"))
  BY <1>1 DEF Queues
<1>7. Writing(s)' <=> Has(cmd, s, "Send")
  BY <1>5 DEF Writing
<1>8. Finishing(s)' => Finishing(s)
  BY <1>4, <1>5 DEF Finishing
<1>9. Resetting(s)' => Resetting(s)
  BY <1>4 DEF Resetting
<1>10. end # "none" /\ end # NoSlot /\ end # "ok" /\ end # "internal"
  BY DEF NoSlot
<1>11. Handle(s)'
  <2>1. Writing(s)' => Writing(s) /\ slot'[s] = slot[s]
    BY <1>3, <1>6, <1>7 DEF Writing
  <2>2. Writing(s) /\ ~Writing(s)' /\ slot[s] = NoSlot => slot'[s] # NoSlot
    BY <1>3, <1>6, <1>7, <1>10 DEF Writing
  <2>3. status'[s] = status[s] \/ (status[s] = "none" /\ status'[s] # "none")
    BY <1>2, <1>10
  <2>4. slot[s] # NoSlot => slot'[s] # NoSlot
    BY <1>3
  <2> QED BY <1>1, <1>4, <1>8, <1>9, <2>1, <2>2, <2>3, <2>4, HandleKeeps
<1>12. Reported(s)'
  <2>1. status'[s] # "none" \/ Wrote(s, FIN)
    BY <1>1, <1>2, <1>10 DEF Reported
  <2> QED BY <1>1, <1>3, <1>4, <1>10, <2>1 DEF Reported, SameFront
<1> QED BY <1>2, <1>3, <1>11, <1>12 DEF SameCells

\* The worker's types, after a step on the entry of s.
LEMMA RegistryTypes ==
  ASSUME TypeWorker, NEW s \in Streams, (\E e : Updated(s, e)) \/ Removed(s),
         recv' = recv, DOMAIN admit' \subseteq DOMAIN admit, runnable_send' \in Seq(Streams),
         needs_iteration' \in BOOLEAN, conn_terminal' = conn_terminal,
         wpc' \in {"wait", "apply", "writable", "send", "turn", "close", "exited"},
         left' \in Nat, cur' \in Streams \cup {NoStream}
  PROVE  TypeWorker'
<1>1. DOMAIN send' \subseteq Streams /\ send' \in [DOMAIN send' -> Entries]
  BY DEF Updated, Removed, TypeWorker
<1> QED BY <1>1 DEF TypeWorker

-----------------------------------------------------------------------------
(* apply_inbox *)

\* What the invariant says when the oldest command is one of stream s.
LEMMA CommandTaken ==
  ASSUME IInv, NEW s \in Streams, cmd # <<>>, Head(cmd).id = s, cmd' = Tail(cmd)
  PROVE  /\ cmd' \in Seq(Commands) /\ \A t \in Streams : t # s => SameCmds(t)
         /\ \A o : Has(cmd', s, o) => Has(cmd, s, o)
         /\ Has(cmd, s, Head(cmd).op)
         /\ InOrder(cmd', s) /\ ~Has(cmd', s, "Send")
         /\ Head(cmd).op # "Send" => \A o : Has(cmd, s, o) => o = Head(cmd).op
         /\ Head(cmd).op # "Send" => \A o : ~Has(cmd', s, o)
         /\ Head(cmd).op = "Send" => Head(cmd).n = Len(submitted[s])
         /\ SendsAre(cmd', s, Len(submitted[s]), submitted[s][Len(submitted[s])])
         /\ ~Wrote(s, FIN) /\ ~HasOp(OpsOf(s), "finish")
         /\ ~Entry(s).finished \/ Entry(s).terminal # "none"
<1>1. Queues(s) /\ EntryState(s) /\ cmd \in Seq(Commands) /\ Head(cmd) \in Commands
  BY Known, CmdTail DEF TypeShared
<1>2. cmd' \in Seq(Commands)
  BY <1>1, CmdTail
<1>3. \A o : Has(cmd, s, o) <=> Has(cmd', s, o) \/ Head(cmd).op = o
  BY <1>1, CmdTail
<1>4. InOrder(cmd, s) /\ SendsAre(cmd, s, Len(submitted[s]), submitted[s][Len(submitted[s])])
  BY <1>1 DEF Queues
<1>5. InOrder(cmd', s) /\ ~Has(cmd', s, "Send")
  BY <1>1, <1>4, CmdTail
<1>6. Head(cmd).op # "Send" => \A o : ~Has(cmd', s, o)
  BY <1>1, <1>4, CmdTail
<1>7. /\ SendsAre(cmd', s, Len(submitted[s]), submitted[s][Len(submitted[s])])
      /\ Head(cmd).op = "Send" => Head(cmd).n = Len(submitted[s])
  BY <1>1, <1>4, CmdTail
<1>8. ASSUME NEW t \in Streams, t # s PROVE SameCmds(t)
  <2>1. \A o : Has(cmd', t, o) <=> Has(cmd, t, o)
    BY <1>1, <1>8, CmdTail
  <2>2. InOrder(cmd, t) => InOrder(cmd', t)
    BY <1>1, CmdTail
  <2>3. \A g, k : SendsAre(cmd, t, g, k) => SendsAre(cmd', t, g, k)
    BY <1>1, CmdTail
  <2> QED BY <2>1, <2>2, <2>3 DEF SameCmds
<1>9. Head(cmd).op \in {"Send", "Finish", "Reset"} /\ Has(cmd, s, Head(cmd).op)
  BY <1>1, <1>3 DEF Commands
<1>10. ~Wrote(s, FIN) /\ ~HasOp(OpsOf(s), "finish")
  BY <1>1, <1>9 DEF Queues
<1>11. ~Entry(s).finished \/ Entry(s).terminal # "none"
  BY <1>1, <1>10 DEF EntryState
<1> QED BY <1>2, <1>3, <1>5, <1>6, <1>7, <1>8, <1>9, <1>10, <1>11

\* The operation of a Send or a Finish.
OpOf(c) == IF c.op = "Send" THEN WriteOp(c.n, c.size) ELSE FinishOp

LEMMA OpOfType ==
  ASSUME NEW c \in Commands
  PROVE  /\ OpOf(c) \in Ops
         /\ c.op = "Send" => OpOf(c).kind = "write" /\ OpOf(c).n = c.n /\ OpOf(c).rem = c.size
         /\ c.op # "Send" => OpOf(c).kind = "finish"
<1>1. c.n \in Nat /\ c.size \in Nat
  BY DEF Commands
<1>2. CASE c.op = "Send"
  BY <1>1, <1>2 DEF OpOf, WriteOp, Ops
<1>3. CASE c.op # "Send"
  BY <1>3 DEF OpOf, FinishOp, Ops
<1> QED BY <1>2, <1>3

\* One operation, as a list.
LEMMA OneOp ==
  ASSUME NEW op
  PROVE  /\ \A k : HasOp(<<op>>, k) <=> op.kind = k
         /\ \A g : OpsAre(<<op>>, g) <=> (op.kind = "write" => op.n = g)
BY DEF HasOp, OpsAre

\* What an apply_inbox step leaves alone.
InboxRest ==
  /\ UNCHANGED <<frontVars, ingress, recv, admit, needs_iteration, conn_terminal, wpc, cur, quicheVars>>
  /\ wpc = "apply" /\ left' \in Nat

LEMMA InboxRestIs ==
  ASSUME IInv, InboxRest
  PROVE  /\ recv' = recv /\ admit' = admit /\ ingress' = ingress /\ conn_terminal' = conn_terminal
         /\ wpc' = "apply" /\ wpc = "apply" /\ cur' = cur /\ needs_iteration' = needs_iteration
         /\ qsend' = qsend /\ wire' = wire /\ submitted' = submitted
         /\ TypeQuiche' /\ needs_iteration' \in BOOLEAN
         /\ wpc' \in {"wait", "apply", "writable", "send", "turn", "close", "exited"}
         /\ cur' \in Streams \cup {NoStream}
         /\ \A t \in Streams : SameQuiche(t) /\ SameFront(t)
<1>1. TypeWorker /\ TypeQuiche
  BY DEF IInv, TypeOK
<1>2. UNCHANGED quicheVars /\ UNCHANGED frontVars
  BY DEF InboxRest
<1>3. TypeQuiche' /\ qsend' = qsend /\ wire' = wire /\ submitted' = submitted
  BY <1>1, <1>2, QuicheTypes DEF quicheVars, frontVars
<1>4. \A t \in Streams : SameQuiche(t) /\ SameFront(t)
  BY <1>2, <1>3, FrontStays DEF SameQuiche
<1> QED BY <1>1, <1>3, <1>4 DEF InboxRest, TypeWorker

\* enqueue_send_op on a half that has ended completes the operation.
LEMMA EnqueueEndedStep ==
  ASSUME IInv, NEW s \in Streams, cmd # <<>>, Head(cmd).id = s, Head(cmd).op # "Reset",
         cmd' = Tail(cmd), InboxRest, status' = status, Entry(s).terminal # "none",
         Complete(s, <<OpOf(Head(cmd))>>, Entry(s).terminal), UNCHANGED <<send, runnable_send>>
  PROVE  IInv'
<1> DEFINE ops == <<OpOf(Head(cmd))>>
           end == Entry(s).terminal
<1>1. /\ TypeShared /\ TypeWorker /\ Queues(s) /\ Handle(s) /\ EntryState(s) /\ Reported(s)
      /\ Entry(s) \in Entries /\ cmd \in Seq(Commands)
  BY Known DEF TypeShared
<1>2. /\ cmd' \in Seq(Commands) /\ \A t \in Streams : t # s => SameCmds(t)
      /\ \A o : Has(cmd', s, o) => Has(cmd, s, o)
      /\ Has(cmd, s, Head(cmd).op)
      /\ InOrder(cmd', s) /\ ~Has(cmd', s, "Send")
      /\ Head(cmd).op # "Send" => \A o : Has(cmd, s, o) => o = Head(cmd).op
      /\ Head(cmd).op = "Send" => Head(cmd).n = Len(submitted[s])
      /\ SendsAre(cmd', s, Len(submitted[s]), submitted[s][Len(submitted[s])])
  BY CommandTaken
<1>3. /\ recv' = recv /\ admit' = admit /\ ingress' = ingress /\ conn_terminal' = conn_terminal
      /\ wpc' = "apply" /\ wpc = "apply" /\ cur' = cur /\ needs_iteration' = needs_iteration
      /\ qsend' = qsend /\ wire' = wire /\ submitted' = submitted /\ TypeQuiche' /\ left' \in Nat
      /\ \A t \in Streams : SameQuiche(t) /\ SameFront(t)
  BY InboxRestIs DEF InboxRest
<1>4. end \in Ends /\ end # "none" /\ end \in Results /\ OpsOf(s) = <<>>
  <2>1. end \in Ends
    BY <1>1, EntryFields
  <2> QED BY <1>1, <2>1 DEF EntryState, Ends, Results
<1>5. /\ Head(cmd).op = "Send" => HasOp(ops, "write") /\ OpsAre(ops, Len(submitted[s]))
      /\ Head(cmd).op # "Send" => ~HasOp(ops, "write")
  <2>1. Head(cmd) \in Commands
    BY <1>1, CmdTail
  <2> QED BY <1>2, <2>1, OpOfType, OneOp
<1>6. /\ slot' \in [Streams -> Results] /\ finslot' \in [Streams -> Results]
      /\ \A t \in Streams : t # s => slot'[t] = slot[t] /\ finslot'[t] = finslot[t]
      /\ slot[s] # NoSlot => slot'[s] = slot[s]
      /\ ~HasOp(ops, "write") => slot'[s] = slot[s]
      /\ slot'[s] = slot[s] \/ slot'[s] = end
      /\ HasOp(ops, "write") /\ OpsAre(ops, Len(submitted[s])) /\ slot[s] = NoSlot => slot'[s] = end
      /\ finslot'[s] = finslot[s] \/ finslot'[s] = end
  BY <1>1, <1>4, Completes
<1>7. \A t \in Streams : SameEntry(t)
  BY EntryStays
<1>8. /\ Entry(s)' = Entry(s) /\ OpsOf(s)' = <<>>
      /\ \A x : Wrote(s, x)' <=> Wrote(s, x)
  BY <1>3, <1>4, <1>7 DEF SameEntry, OpsOf, Wrote
<1> HIDE DEF ops, end
<1>9. Queues(s)'
  BY <1>1, <1>2, <1>3, <1>8, OpNone DEF Queues
<1>10. ~Writing(s)' /\ (Writing(s) <=> Head(cmd).op = "Send")
  BY <1>2, <1>4, <1>8, OpNone DEF Writing
<1>11. (Finishing(s)' => Finishing(s)) /\ (Resetting(s)' => Resetting(s))
  BY <1>2, <1>4, <1>8 DEF Finishing, Resetting
<1>12. Handle(s)'
  <2>1. Writing(s) /\ ~Writing(s)' /\ slot[s] = NoSlot => slot'[s] # NoSlot
    BY <1>4, <1>5, <1>6, <1>10 DEF NoSlot
  <2> QED BY <1>1, <1>3, <1>6, <1>10, <1>11, <2>1, HandleKeeps
<1>13. EntryState(s)'
  BY <1>1, <1>3, <1>7, EntrySame
<1>14. Reported(s)'
  BY <1>1, <1>3, <1>4, <1>6, <1>8 DEF Reported, SameFront, Ends
<1>15. TypeShared' /\ TypeWorker'
  BY <1>1, <1>2, <1>3, <1>6 DEF TypeShared, TypeWorker
<1>16. OthersSame(s)
  BY <1>2, <1>3, <1>6, <1>7 DEF OthersSame, SameCells
<1> QED BY <1>3, <1>9, <1>12, <1>13, <1>14, <1>15, <1>16, WorkerStep DEF InboxRest

\* The entry after an operation was queued, and after a reset.
Queued(e, op) == [e EXCEPT !.send_ops = Append(@, op)]
Aborted(e) == [e EXCEPT !.pending_reset = TRUE, !.terminal = "reset", !.send_ops = <<>>, !.held = NoHeld]

\* enqueue_send_op on a half that is open queues the operation.
LEMMA EnqueueOpenStep ==
  ASSUME IInv, NEW s \in Streams, cmd # <<>>, Head(cmd).id = s, Head(cmd).op # "Reset",
         cmd' = Tail(cmd), InboxRest, status' = status, Entry(s).terminal = "none",
         send' = Put(send, s, Queued(Entry(s), OpOf(Head(cmd)))),
         runnable_send' = Enqueue(runnable_send, s), UNCHANGED <<slot, finslot>>
  PROVE  IInv'
<1> DEFINE op == OpOf(Head(cmd))
           e == Queued(Entry(s), op)
<1>1. /\ TypeShared /\ TypeWorker /\ Queues(s) /\ Handle(s) /\ EntryState(s) /\ Reported(s)
      /\ Entry(s) \in Entries /\ cmd \in Seq(Commands) /\ OpsOf(s) \in Seq(Ops)
  BY Known DEF TypeShared
<1>2. /\ cmd' \in Seq(Commands) /\ \A t \in Streams : t # s => SameCmds(t)
      /\ \A o : Has(cmd', s, o) => Has(cmd, s, o)
      /\ Has(cmd, s, Head(cmd).op)
      /\ InOrder(cmd', s) /\ ~Has(cmd', s, "Send")
      /\ Head(cmd).op # "Send" => \A o : Has(cmd, s, o) => o = Head(cmd).op
      /\ Head(cmd).op # "Send" => \A o : ~Has(cmd', s, o)
      /\ Head(cmd).op = "Send" => Head(cmd).n = Len(submitted[s])
      /\ SendsAre(cmd', s, Len(submitted[s]), submitted[s][Len(submitted[s])])
      /\ ~Wrote(s, FIN) /\ ~HasOp(OpsOf(s), "finish")
      /\ ~Entry(s).finished \/ Entry(s).terminal # "none"
  BY CommandTaken
<1>3. /\ recv' = recv /\ admit' = admit /\ ingress' = ingress /\ conn_terminal' = conn_terminal
      /\ wpc' = "apply" /\ wpc = "apply" /\ cur' = cur /\ needs_iteration' = needs_iteration
      /\ qsend' = qsend /\ wire' = wire /\ submitted' = submitted /\ TypeQuiche' /\ left' \in Nat
      /\ \A t \in Streams : SameQuiche(t) /\ SameFront(t)
  BY InboxRestIs DEF InboxRest
<1>4. /\ op \in Ops /\ (op.kind = "write" <=> Head(cmd).op = "Send")
      /\ op.kind = "finish" => Head(cmd).op = "Finish"
      /\ op.kind = "write" => op.n = Len(submitted[s])
      /\ Head(cmd).op = "Finish" => op.kind = "finish"
  <2>1. Head(cmd) \in Commands
    BY <1>1, CmdTail
  <2>2. Head(cmd).op \in {"Send", "Finish"}
    BY <2>1 DEF Commands
  <2> QED BY <1>2, <2>1, <2>2, OpOfType
<1> HIDE DEF op
<1>5. /\ e \in Entries /\ e.send_ops = Append(OpsOf(s), op) /\ e.pending_reset = Entry(s).pending_reset
      /\ e.terminal = "none" /\ e.finished = Entry(s).finished /\ e.held = Entry(s).held
      /\ e.shared = Entry(s).shared
  <2>1. Append(OpsOf(s), op) \in Seq(Ops)
    BY <1>1, <1>4
  <2> QED BY <1>1, <2>1 DEF Entries, OpsOf, Queued
<1>6. Updated(s, e)
  BY <1>1, <1>5, PutEntry DEF op
<1>7. /\ OpsOf(s)' = Append(OpsOf(s), op) /\ Entry(s)'.pending_reset = Entry(s).pending_reset
      /\ Entry(s)'.terminal = "none" /\ Entry(s)'.finished = Entry(s).finished
      /\ Entry(s)'.held = Entry(s).held /\ Entry(s)'.shared = Entry(s).shared
      /\ \A x : Wrote(s, x)' <=> Wrote(s, x)
  BY <1>3, <1>5, <1>6 DEF Updated, OpsOf, Wrote
<1> HIDE DEF e
<1>8. OpsInOrder(OpsOf(s)) /\ OpsAre(OpsOf(s), Len(submitted[s]))
      /\ (Has(cmd, s, "Send") => ~HasOp(OpsOf(s), "write") /\ Len(submitted[s]) > 0)
      /\ (HasOp(OpsOf(s), "write") => Len(submitted[s]) > 0)
  BY <1>1 DEF Queues
<1>9. /\ OpsInOrder(OpsOf(s)') /\ OpsAre(OpsOf(s)', Len(submitted[s]))
      /\ HasOp(OpsOf(s)', "write") <=> HasOp(OpsOf(s), "write") \/ Head(cmd).op = "Send"
      /\ HasOp(OpsOf(s)', "finish") <=> Head(cmd).op = "Finish"
      /\ OpsOf(s)' # <<>>
  <2>1. OpsInOrder(Append(OpsOf(s), op))
    BY <1>1, <1>2, <1>4, <1>8, OpAppend
  <2>2. OpsAre(Append(OpsOf(s), op), Len(submitted[s]))
    BY <1>1, <1>4, <1>8, OpAppend
  <2>3. \A k : HasOp(Append(OpsOf(s), op), k) <=> HasOp(OpsOf(s), k) \/ op.kind = k
    BY <1>1, <1>4, <1>8, OpAppend
  <2>4. Append(OpsOf(s), op) # <<>>
    BY <1>1, <1>4, <1>8, OpAppend
  <2> QED BY <1>2, <1>4, <1>7, <2>1, <2>2, <2>3, <2>4
<1>10. Queues(s)'
  <2>1. ~Wrote(s, FIN)' /\ (HasOp(OpsOf(s)', "finish") => \A o : ~Has(cmd', s, o))
    BY <1>2, <1>7, <1>9
  <2>2. HasOp(OpsOf(s)', "write") => Len(submitted[s]) > 0
    BY <1>2, <1>8, <1>9
  <2>3. Entry(s)'.pending_reset \/ Wrote(s, RESET)' => ~Has(cmd', s, "Reset")
    BY <1>1, <1>2, <1>7 DEF Queues
  <2> QED BY <1>2, <1>3, <1>9, <2>1, <2>2, <2>3 DEF Queues
<1>11. Writing(s)' <=> Writing(s)
  BY <1>2, <1>9 DEF Writing
<1>12. (Finishing(s)' => Finishing(s)) /\ (Resetting(s)' => Resetting(s))
  BY <1>2, <1>7, <1>9 DEF Finishing, Resetting
<1>13. Handle(s)'
  BY <1>1, <1>3, <1>11, <1>12, HandleKeeps
<1>14. EntryState(s)'
  BY <1>1, <1>2, <1>3, <1>7 DEF EntryState
<1>15. Reported(s)'
  BY <1>1, <1>2, <1>3, <1>7 DEF Reported, SameFront
<1>16. TypeShared'
  BY <1>1, <1>2, <1>3 DEF TypeShared
<1>17. TypeWorker'
  <2>1. runnable_send' \in Seq(Streams)
    BY <1>1, ElemsEnqueue DEF TypeWorker
  <2> QED BY <1>1, <1>3, <1>6, <2>1, InboxRestIs, RegistryTypes
<1>18. OthersSame(s)
  BY <1>2, <1>3, <1>6 DEF OthersSame, SameCells, Updated
<1> QED BY <1>3, <1>10, <1>13, <1>14, <1>15, <1>16, <1>17, <1>18, WorkerStep DEF InboxRest

\* apply_reset on a half that has ended changes nothing.
LEMMA ResetEndedStep ==
  ASSUME IInv, NEW s \in Streams, cmd # <<>>, Head(cmd).id = s, Head(cmd).op = "Reset",
         cmd' = Tail(cmd), InboxRest, Entry(s).pending_reset \/ Entry(s).terminal # "none",
         send' = Put(send, s, Entry(s)), UNCHANGED <<runnable_send, status, slot, finslot>>
  PROVE  IInv'
<1>1. /\ TypeShared /\ TypeWorker /\ Queues(s) /\ Handle(s) /\ EntryState(s) /\ Reported(s)
      /\ Entry(s) \in Entries
  BY Known
<1>2. /\ cmd' \in Seq(Commands) /\ \A t \in Streams : t # s => SameCmds(t)
      /\ \A o : Has(cmd, s, o) => o = "Reset"
      /\ \A o : ~Has(cmd', s, o)
      /\ InOrder(cmd', s)
      /\ SendsAre(cmd', s, Len(submitted[s]), submitted[s][Len(submitted[s])])
  BY CommandTaken
<1>3. /\ recv' = recv /\ admit' = admit /\ ingress' = ingress /\ conn_terminal' = conn_terminal
      /\ wpc' = "apply" /\ wpc = "apply" /\ cur' = cur /\ needs_iteration' = needs_iteration
      /\ qsend' = qsend /\ wire' = wire /\ submitted' = submitted /\ TypeQuiche' /\ left' \in Nat
      /\ \A t \in Streams : SameQuiche(t) /\ SameFront(t)
  BY InboxRestIs DEF InboxRest
<1>4. Updated(s, Entry(s))
  BY <1>1, PutEntry
<1>5. s \in DOMAIN send
  <2>1. Entry(s).terminal # "none"
    BY <1>1 DEF EntryState
  <2> QED BY <2>1 DEF Entry, NewState
<1>6. \A t \in Streams : SameEntry(t)
  BY <1>4, <1>5 DEF Updated, SameEntry
<1>7. OpsOf(s)' = OpsOf(s) /\ Entry(s)' = Entry(s) /\ \A x : Wrote(s, x)' <=> Wrote(s, x)
  BY <1>3, <1>6 DEF SameEntry, OpsOf, Wrote
<1>8. Queues(s)'
  BY <1>1, <1>2, <1>3, <1>7 DEF Queues
<1>9. /\ Writing(s)' <=> Writing(s)
      /\ Finishing(s)' => Finishing(s)
      /\ Resetting(s)' => Resetting(s)
  BY <1>2, <1>7 DEF Writing, Finishing, Resetting
<1>10. Handle(s)'
  BY <1>1, <1>3, <1>9, HandleKeeps
<1>11. EntryState(s)'
  BY <1>1, <1>3, <1>6, EntrySame
<1>12. Reported(s)'
  BY <1>1, <1>3, <1>6, ReportedSame DEF SameCells, SameFront
<1>13. TypeShared'
  BY <1>1, <1>2, <1>3 DEF TypeShared
<1>14. TypeWorker'
  BY <1>1, <1>3, <1>4, InboxRestIs, RegistryTypes DEF TypeWorker
<1>15. OthersSame(s)
  BY <1>2, <1>3, <1>6 DEF OthersSame, SameCells
<1> QED BY <1>3, <1>8, <1>10, <1>11, <1>12, <1>13, <1>14, <1>15, WorkerStep DEF InboxRest

\* The first effective reset preempts the queue.
LEMMA ResetOpenStep ==
  ASSUME IInv, NEW s \in Streams, cmd # <<>>, Head(cmd).id = s, Head(cmd).op = "Reset",
         cmd' = Tail(cmd), InboxRest, ~Entry(s).pending_reset, Entry(s).terminal = "none",
         SetStatus(s, "reset"), Complete(s, OpsOf(s), "reset"),
         send' = Put(send, s, Aborted(Entry(s))),
         runnable_send' = Enqueue(runnable_send, s)
  PROVE  IInv'
<1> DEFINE e == Aborted(Entry(s))
<1>1. /\ TypeShared /\ TypeWorker /\ Queues(s) /\ Handle(s) /\ EntryState(s) /\ Reported(s)
      /\ Entry(s) \in Entries
  BY Known
<1>2. /\ cmd' \in Seq(Commands) /\ \A t \in Streams : t # s => SameCmds(t)
      /\ Has(cmd, s, "Reset")
      /\ \A o : Has(cmd, s, o) => o = "Reset"
      /\ \A o : ~Has(cmd', s, o)
      /\ InOrder(cmd', s)
      /\ SendsAre(cmd', s, Len(submitted[s]), submitted[s][Len(submitted[s])])
      /\ ~Wrote(s, FIN) /\ ~Entry(s).finished
  BY CommandTaken
<1>3. /\ recv' = recv /\ admit' = admit /\ ingress' = ingress /\ conn_terminal' = conn_terminal
      /\ wpc' = "apply" /\ wpc = "apply" /\ cur' = cur /\ needs_iteration' = needs_iteration
      /\ qsend' = qsend /\ wire' = wire /\ submitted' = submitted /\ TypeQuiche' /\ left' \in Nat
      /\ \A t \in Streams : SameQuiche(t) /\ SameFront(t)
  BY InboxRestIs DEF InboxRest
<1>4. /\ e \in Entries /\ e.send_ops = <<>> /\ e.pending_reset = TRUE
      /\ e.terminal = "reset" /\ e.finished = Entry(s).finished /\ e.held = NoHeld
      /\ e.shared = Entry(s).shared
  <2>1. "reset" \in Ends /\ NoHeld \in [n : Nat, rem : Nat] /\ <<>> \in Seq(Ops)
    BY DEF Ends, NoHeld
  <2> QED BY <1>1, <2>1 DEF Entries, Aborted
<1>5. Updated(s, e)
  BY <1>1, <1>4, PutEntry
<1> HIDE DEF e
<1>6. /\ OpsOf(s)' = <<>> /\ Entry(s)'.pending_reset = TRUE
      /\ Entry(s)'.terminal = "reset" /\ Entry(s)'.finished = Entry(s).finished
      /\ Entry(s)'.held = NoHeld /\ Entry(s)'.shared = Entry(s).shared
      /\ \A x : Wrote(s, x)' <=> Wrote(s, x)
  BY <1>3, <1>4, <1>5 DEF Updated, OpsOf, Wrote
<1>7. Queues(s)'
  BY <1>2, <1>3, <1>6, OpNone DEF Queues
<1>8. /\ Handle(s)' /\ Reported(s)'
      /\ status' \in [Streams -> Ends] /\ slot' \in [Streams -> Results]
      /\ finslot' \in [Streams -> Results]
      /\ \A t \in Streams : t # s => SameCells(t)
  <2>1. Resetting(s) /\ UNCHANGED frontVars
    BY <1>2 DEF Resetting, InboxRest
  <2>2. ~Has(cmd, s, "Send")
    BY <1>2
  <2> QED BY <1>2, <1>3, <1>6, <2>1, <2>2, EndedKeeps
<1>9. EntryState(s)'
  BY <1>1, <1>2, <1>3, <1>6 DEF EntryState
<1>10. TypeShared'
  BY <1>1, <1>2, <1>3, <1>8 DEF TypeShared
<1>11. TypeWorker'
  <2>1. runnable_send' \in Seq(Streams)
    BY <1>1, ElemsEnqueue DEF TypeWorker
  <2> QED BY <1>1, <1>3, <1>5, <2>1, InboxRestIs, RegistryTypes
<1>12. OthersSame(s)
  BY <1>2, <1>3, <1>5, <1>8 DEF OthersSame, Updated
<1> QED BY <1>3, <1>7, <1>8, <1>9, <1>10, <1>11, <1>12, WorkerStep DEF InboxRest

\* What apply_inbox does with the oldest command.
InboxCase(s) ==
  \/ /\ Head(cmd).op # "Reset" /\ status' = status /\ Entry(s).terminal # "none"
     /\ Complete(s, <<OpOf(Head(cmd))>>, Entry(s).terminal)
     /\ UNCHANGED <<send, runnable_send>>
  \/ /\ Head(cmd).op # "Reset" /\ status' = status /\ Entry(s).terminal = "none"
     /\ send' = Put(send, s, Queued(Entry(s), OpOf(Head(cmd))))
     /\ runnable_send' = Enqueue(runnable_send, s) /\ UNCHANGED <<slot, finslot>>
  \/ /\ Head(cmd).op = "Reset" /\ (Entry(s).pending_reset \/ Entry(s).terminal # "none")
     /\ send' = Put(send, s, Entry(s))
     /\ UNCHANGED <<runnable_send, status, slot, finslot>>
  \/ /\ Head(cmd).op = "Reset" /\ ~Entry(s).pending_reset /\ Entry(s).terminal = "none"
     /\ SetStatus(s, "reset") /\ Complete(s, OpsOf(s), "reset")
     /\ send' = Put(send, s, Aborted(Entry(s)))
     /\ runnable_send' = Enqueue(runnable_send, s)

LEMMA InboxCases ==
  ASSUME IInv, apply_inbox
  PROVE  \E s \in Streams :
           cmd # <<>> /\ Head(cmd).id = s /\ cmd' = Tail(cmd) /\ InboxRest /\ InboxCase(s)
<1> DEFINE c == Head(cmd)
           s == c.id
<1>1. /\ wpc = "apply" /\ left > 0 /\ cmd # <<>> /\ cmd' = Tail(cmd) /\ left' = left - 1
      /\ UNCHANGED <<frontVars, ingress, recv, admit, needs_iteration, conn_terminal,
                     wpc, cur, quicheVars>>
      /\ \/ c.op = "Send" /\ enqueue_send_op(c.id, WriteOp(c.n, c.size)) /\ UNCHANGED status
         \/ c.op = "Finish" /\ enqueue_send_op(c.id, FinishOp) /\ UNCHANGED status
         \/ c.op = "Reset" /\ apply_reset(c.id)
  BY DEF apply_inbox
<1>2. cmd \in Seq(Commands) /\ left \in Nat
  BY DEF IInv, TypeOK, TypeShared, TypeWorker
<1>3. c \in Commands
  BY <1>1, <1>2, CmdTail
<1>4. s \in Streams
  BY <1>3 DEF Commands
<1>5. InboxRest
  BY <1>1, <1>2 DEF InboxRest
<1>6. CASE c.op # "Reset"
  <2>1. enqueue_send_op(s, OpOf(c)) /\ UNCHANGED status
    BY <1>1, <1>6 DEF OpOf
  <2> HIDE DEF c
  <2>2. CASE Entry(s).terminal # "none"
    <3>1. Complete(s, <<OpOf(c)>>, Entry(s).terminal) /\ UNCHANGED <<send, runnable_send>>
      BY <2>1, <2>2 DEF enqueue_send_op
    <3>2. InboxCase(s)
      BY <1>6, <2>1, <2>2, <3>1 DEF c, InboxCase
    <3> QED BY <1>1, <1>4, <1>5, <3>2 DEF c
  <2>3. CASE Entry(s).terminal = "none"
    <3>1. /\ send' = Put(send, s, Queued(Entry(s), OpOf(c)))
          /\ runnable_send' = Enqueue(runnable_send, s) /\ UNCHANGED <<slot, finslot>>
      BY <2>1, <2>3 DEF enqueue_send_op, Queued
    <3>2. InboxCase(s)
      BY <1>6, <2>1, <2>3, <3>1 DEF c, InboxCase
    <3> QED BY <1>1, <1>4, <1>5, <3>2 DEF c
  <2> QED BY <2>2, <2>3
<1>7. CASE c.op = "Reset"
  <2>1. apply_reset(s)
    BY <1>1, <1>7
  <2> HIDE DEF c
  <2>2. CASE Entry(s).pending_reset \/ Entry(s).terminal # "none"
    <3>1. send' = Put(send, s, Entry(s)) /\ UNCHANGED <<runnable_send, status, slot, finslot>>
      BY <2>1, <2>2 DEF apply_reset
    <3>2. InboxCase(s)
      BY <1>7, <2>2, <3>1 DEF c, InboxCase
    <3> QED BY <1>1, <1>4, <1>5, <3>2 DEF c
  <2>3. CASE ~(Entry(s).pending_reset \/ Entry(s).terminal # "none")
    <3>1. /\ SetStatus(s, "reset") /\ Complete(s, OpsOf(s), "reset")
          /\ send' = Put(send, s, Aborted(Entry(s)))
          /\ runnable_send' = Enqueue(runnable_send, s)
      BY <2>1, <2>3 DEF apply_reset, Drained, OpsOf, Aborted
    <3>2. InboxCase(s)
      BY <1>7, <2>3, <3>1 DEF c, InboxCase
    <3> QED BY <1>1, <1>4, <1>5, <3>2 DEF c
  <2> QED BY <2>2, <2>3
<1> QED BY <1>6, <1>7

\* One command is applied.
LEMMA InboxStep ==
  ASSUME IInv, apply_inbox
  PROVE  IInv'
<1>1. PICK s \in Streams :
        cmd # <<>> /\ Head(cmd).id = s /\ cmd' = Tail(cmd) /\ InboxRest /\ InboxCase(s)
  BY InboxCases
<1> QED BY <1>1, EnqueueEndedStep, EnqueueOpenStep, ResetEndedStep, ResetOpenStep DEF InboxCase

-----------------------------------------------------------------------------
(* The peer's stop *)

\* The entry after send_terminal_transition.
Stopped(e) == [e EXCEPT !.terminal = "stopped", !.held = NoHeld, !.send_ops = <<>>, !.finished = TRUE]

LEMMA StoppedAnswer ==
  ASSUME NEW s
  PROVE  /\ "Stopped" \in Answers(s) => qsend[s] = "stopped"
         /\ "Ok" \in Answers(s) => qsend[s] \notin {"stopped", "fin", "shut", "gone"}
<1>1. CASE qsend[s] = "stopped"
  BY <1>1 DEF Answers
<1>2. CASE qsend[s] \in {"fin", "shut", "gone"}
  BY <1>2 DEF Answers
<1>3. CASE qsend[s] \notin {"stopped", "fin", "shut", "gone"}
  BY <1>3 DEF Answers
<1> QED BY <1>1, <1>2, <1>3

\* send_terminal_transition with the peer's stop.
LEMMA StopIs ==
  ASSUME NEW s \in DOMAIN send, Entry(s).terminal = "none", SendTerminal(s, "stopped")
  PROVE  /\ SetStatus(s, "stopped") /\ Complete(s, OpsOf(s), "stopped")
         /\ send' = [send EXCEPT ![s] = Stopped(Entry(s))]
         /\ admit' = AdmitSendDone(admit, s)
         /\ runnable_send' = Without(runnable_send, s) /\ recv' = recv
<1>1. send[s] = Entry(s)
  BY DEF Entry
<1>2. Effective(send[s], "stopped") = "stopped"
  BY <1>1 DEF Effective
<1> QED BY <1>1, <1>2 DEF SendTerminal, Drained, OpsOf, Stopped

LEMMA StoppedStep ==
  ASSUME IInv, NEW s \in DOMAIN send, ~Entry(s).pending_reset, Entry(s).terminal = "none",
         qsend[s] = "stopped", SendTerminal(s, "stopped"),
         UNCHANGED <<frontVars, cmd, ingress, conn_terminal, qsend, wire>>, TypeQuiche',
         needs_iteration' \in BOOLEAN, wpc \notin {"close", "exited"},
         wpc' \in {"writable", "send"}, left' \in Nat, cur' \in Streams \cup {NoStream}
  PROVE  IInv'
<1> DEFINE e == Stopped(Entry(s))
<1>0. s \in Streams
  BY DEF IInv, TypeOK, TypeWorker
<1>1. /\ TypeShared /\ TypeWorker /\ Queues(s) /\ Handle(s) /\ EntryState(s) /\ Reported(s)
      /\ Entry(s) \in Entries
  BY <1>0, Known
<1>2. /\ SetStatus(s, "stopped") /\ Complete(s, OpsOf(s), "stopped")
      /\ send' = [send EXCEPT ![s] = e]
      /\ admit' = AdmitSendDone(admit, s)
      /\ runnable_send' = Without(runnable_send, s) /\ recv' = recv
  BY StopIs
<1>3. /\ e \in Entries /\ e.send_ops = <<>> /\ e.pending_reset = Entry(s).pending_reset
      /\ e.terminal = "stopped" /\ e.finished = TRUE /\ e.held = NoHeld
      /\ e.shared = Entry(s).shared
  <2>1. "stopped" \in Ends /\ NoHeld \in [n : Nat, rem : Nat] /\ <<>> \in Seq(Ops)
    BY DEF Ends, NoHeld
  <2> QED BY <1>1, <2>1 DEF Entries, Stopped
<1> HIDE DEF e
<1>4. Updated(s, e)
  BY <1>1, <1>2, <1>3, SetEntry
<1>5. /\ OpsOf(s)' = <<>> /\ Entry(s)'.pending_reset = Entry(s).pending_reset
      /\ Entry(s)'.terminal = "stopped" /\ Entry(s)'.finished = TRUE
      /\ Entry(s)'.held = NoHeld /\ Entry(s)'.shared = Entry(s).shared
      /\ \A x : Wrote(s, x)' <=> Wrote(s, x)
  BY <1>3, <1>4 DEF Updated, OpsOf, Wrote
<1>6. \A t \in Streams : SameCmds(t) /\ SameQuiche(t)
  BY CmdsStay DEF SameQuiche
<1>7. /\ Handle(s)' /\ Reported(s)'
      /\ status' \in [Streams -> Ends] /\ slot' \in [Streams -> Results]
      /\ finslot' \in [Streams -> Results]
      /\ \A t \in Streams : t # s => SameCells(t)
  BY <1>0, <1>2, <1>5, EndedKeeps
<1>8. Queues(s)'
  <2>1. submitted' = submitted
    BY DEF frontVars
  <2> QED BY <1>1, <1>5, <2>1, OpNone DEF Queues
<1>9. EntryState(s)'
  BY <1>1, <1>5 DEF EntryState
<1>10. TypeShared'
  BY <1>1, <1>7 DEF TypeShared
<1>11. TypeWorker'
  <2>1. runnable_send' \in Seq(Streams)
    BY <1>0, <1>1, <1>2, ElemsWithout DEF TypeWorker
  <2>2. DOMAIN admit' \subseteq DOMAIN admit
    BY <1>2, AdmitTypes
  <2> QED BY <1>0, <1>1, <1>2, <1>4, <2>1, <2>2, RegistryTypes
<1>12. OthersSame(s)
  BY <1>2, <1>4, <1>6, <1>7 DEF OthersSame, Updated
<1> QED BY <1>0, <1>7, <1>8, <1>9, <1>10, <1>11, <1>12, WorkerStep

\* One id of quiche's writable queue.
LEMMA WritableStep ==
  ASSUME IInv, NEW s \in Streams, stage_writable(s)
  PROVE  IInv'
<1>1. TypeWorker /\ TypeQuiche
  BY DEF IInv, TypeOK
<1>2. /\ UNCHANGED <<frontVars, cmd, ingress, needs_iteration, conn_terminal, wpc,
                     cur, cap, granted, qsend, wire, qconn>>
      /\ wpc = "writable" /\ left' = left - 1 /\ left > 0 /\ qarmed' = qarmed \ {s}
  BY DEF stage_writable
<1>3. left' \in Nat /\ needs_iteration' \in BOOLEAN /\ cur' \in Streams \cup {NoStream}
  BY <1>1, <1>2 DEF TypeWorker
<1>4. TypeQuiche'
  BY <1>1, <1>2 DEF TypeQuiche
<1>5. CASE s \in DOMAIN send /\ "Stopped" \in Answers(s) /\ ~AlreadyEnding(Entry(s))
             /\ SendTerminal(s, "stopped")
  BY <1>2, <1>3, <1>4, <1>5, StoppedAnswer, StoppedStep DEF AlreadyEnding
<1>6. CASE /\ UNCHANGED <<regVars, status, slot, finslot>>
           /\ runnable_send' = runnable_send \/ runnable_send' = Enqueue(runnable_send, s)
  <2>1. runnable_send' \in Seq(Streams)
    BY <1>1, <1>6, ElemsEnqueue DEF TypeWorker
  <2>2. TypeWorker'
    BY <1>1, <1>2, <1>3, <1>6, <2>1 DEF TypeWorker, regVars
  <2>3. UNCHANGED sharedVars
    BY <1>2, <1>6 DEF sharedVars
  <2> QED BY <1>2, <1>4, <1>6, <2>2, <2>3, QuietStep
<1>7. \/ s \in DOMAIN send /\ "Stopped" \in Answers(s) /\ ~AlreadyEnding(Entry(s))
           /\ SendTerminal(s, "stopped")
      \/ /\ UNCHANGED <<regVars, status, slot, finslot>>
         /\ runnable_send' = runnable_send \/ runnable_send' = Enqueue(runnable_send, s)
  BY DEF stage_writable
<1> QED BY <1>5, <1>6, <1>7

\* The stream of a turn.
LEMMA TurnIs ==
  ASSUME IInv, wpc = "turn"
  PROVE  \E s \in Streams : cur = s
BY DEF IInv, Stage

\* A turn that quiche refuses.
LEMMA TurnErrorStep ==
  ASSUME IInv, TurnError
  PROVE  IInv'
<1>1. TypeWorker /\ TypeQuiche
  BY DEF IInv, TypeOK
<1>2. PICK s \in Streams : cur = s
  BY TurnIs DEF TurnError, Working
<1>3. /\ UNCHANGED <<frontVars, cmd, ingress, needs_iteration, conn_terminal, left, quicheVars>>
      /\ wpc = "turn" /\ wpc' = "send" /\ cur' = NoStream
      /\ s \in DOMAIN send /\ ~Entry(s).pending_reset /\ Entry(s).terminal = "none"
  BY <1>2 DEF TurnError, Working, EndTurn, Entry
<1>4. TypeQuiche' /\ UNCHANGED <<qsend, wire>>
  BY <1>1, <1>3, QuicheTypes DEF quicheVars
<1>5. CASE "Stopped" \in Answers(s) /\ SendTerminal(s, "stopped")
  <2>1. needs_iteration' \in BOOLEAN /\ left' \in Nat
    BY <1>1, <1>3 DEF TypeWorker
  <2> QED BY <1>3, <1>4, <1>5, <2>1, StoppedAnswer, StoppedStep
<1>6. CASE /\ runnable_send' = Without(runnable_send, s)
           /\ UNCHANGED <<regVars, status, slot, finslot>>
  <2>1. runnable_send' \in Seq(Streams)
    BY <1>1, <1>6, ElemsWithout DEF TypeWorker
  <2>2. TypeWorker'
    BY <1>1, <1>3, <1>6, <2>1 DEF TypeWorker, regVars
  <2>3. UNCHANGED sharedVars
    BY <1>3, <1>6 DEF sharedVars
  <2> QED BY <1>3, <1>4, <1>6, <2>2, <2>3, QuietStep
<1> QED BY <1>2, <1>5, <1>6 DEF TurnError

-----------------------------------------------------------------------------
(* Turns *)

\* One accepted stream_send.
LEMMA Accepted ==
  ASSUME TypeQuiche, NEW s \in Streams, NEW w \in Nat, NEW n \in Nat, n <= cap,
         NEW f \in Seq({FIN}), Len(f) \in {0, 1}, w # 0 \/ n = 0, NEW q \in {"fin", qsend[s]},
         wire' = [wire EXCEPT ![s] = Grown(@, w, n, f)], cap' = cap - n,
         qsend' = [qsend EXCEPT ![s] = q],
         qarmed' \subseteq Streams, granted' = granted, qconn' = qconn
  PROVE  /\ TypeQuiche' /\ \A t \in Streams : t # s => SameQuiche(t)
         /\ qsend'[s] = q
         /\ Wrote(s, FIN)' <=> (Wrote(s, FIN) \/ Len(f) = 1)
         /\ Wrote(s, RESET)' <=> Wrote(s, RESET)
<1> DEFINE b == Grown(wire[s], w, n, f)
<1>1. wire' = [wire EXCEPT ![s] = b]
  OBVIOUS
<1>2. wire[s] \in Seq(Units)
  BY DEF TypeQuiche, Units
<1>3. \E x \in Nat : x # 0 /\ b = Grown(wire[s], x, n, f)
  <2>1. CASE w # 0
    BY <2>1
  <2>2. CASE n = 0
    <3>0. 1..n = {}
      BY <2>2
    <3>1. Copies(w, n) = Copies(1, n)
      BY <3>0, Zenon DEF Copies
    <3>2. b = Grown(wire[s], 1, n, f)
      BY <3>1, Zenon DEF Grown
    <3> QED BY <3>2
  <2> QED BY <2>1, <2>2
<1> HIDE DEF b
<1>4. PICK x \in Nat : x # 0 /\ b = Grown(wire[s], x, n, f)
  BY <1>3
<1>5. /\ b \in Seq(Units) /\ (FIN \in Elems(b) <=> (FIN \in Elems(wire[s]) \/ Len(f) = 1))
      /\ RESET \in Elems(b) <=> RESET \in Elems(wire[s])
  <2>1. b \in Seq(Units)
    BY <1>2, <1>4, WireGrows
  <2>2. /\ FIN \in Elems(b) <=> (FIN \in Elems(wire[s]) \/ Len(f) = 1)
        /\ RESET \in Elems(b) <=> RESET \in Elems(wire[s])
    BY <1>2, <1>4, WireMembers, Zenon
  <2> QED BY <2>1, <2>2
<1>6. /\ wire'[s] = b /\ qsend'[s] = q
      /\ \A t \in Streams : t # s => wire'[t] = wire[t] /\ qsend'[t] = qsend[t]
  BY <1>1 DEF TypeQuiche
<1>7. wire' \in [Streams -> Seq(Nat \cup {RESET})]
  BY <1>1, <1>5 DEF TypeQuiche, Units
<1>8. qsend' \in [Streams -> {"open", "stopped", "fin", "shut", "gone"}] /\ cap' \in Nat
  <2>1. q \in {"open", "stopped", "fin", "shut", "gone"} /\ cap \in Nat
    BY DEF TypeQuiche
  <2>2. cap - n \in Nat
    BY <2>1
  <2> QED BY <2>1, <2>2 DEF TypeQuiche
<1>9. TypeQuiche'
  BY <1>7, <1>8 DEF TypeQuiche
<1> QED BY <1>5, <1>6, <1>9 DEF SameQuiche, Wrote

LEMMA TransmitFin ==
  ASSUME TypeQuiche, NEW s \in Streams, NEW w \in Nat, NEW n \in Nat, n <= cap,
         w # 0 \/ n = 0, Transmit(s, w, n, TRUE), qarmed' \subseteq Streams,
         granted' = granted, qconn' = qconn
  PROVE  /\ TypeQuiche' /\ \A t \in Streams : t # s => SameQuiche(t)
         /\ qsend'[s] = "fin" /\ Wrote(s, FIN)' /\ (Wrote(s, RESET)' <=> Wrote(s, RESET))
<1>1. /\ wire' = [wire EXCEPT ![s] = Grown(@, w, n, <<FIN>>)] /\ cap' = cap - n
      /\ qsend' = [qsend EXCEPT ![s] = "fin"]
  BY DEF Transmit, Grown
<1>2. <<FIN>> \in Seq({FIN}) /\ Len(<<FIN>>) = 1
  OBVIOUS
<1> QED BY <1>1, <1>2, Accepted

LEMMA TransmitMore ==
  ASSUME TypeQuiche, NEW s \in Streams, NEW w \in Nat, NEW n \in Nat, n <= cap,
         w # 0 \/ n = 0, Transmit(s, w, n, FALSE), qarmed' \subseteq Streams,
         granted' = granted, qconn' = qconn
  PROVE  /\ TypeQuiche' /\ \A t \in Streams : t # s => SameQuiche(t)
         /\ qsend'[s] = qsend[s] /\ (Wrote(s, FIN)' <=> Wrote(s, FIN))
         /\ Wrote(s, RESET)' <=> Wrote(s, RESET)
<1>1. /\ wire' = [wire EXCEPT ![s] = Grown(@, w, n, <<>>)] /\ cap' = cap - n
      /\ qsend' = [qsend EXCEPT ![s] = qsend[s]]
  BY DEF Transmit, TypeQuiche, Grown
<1>2. <<>> \in Seq({FIN}) /\ Len(<<>>) \in {0, 1} /\ Len(<<>>) # 1 /\ qsend[s] \in {"fin", qsend[s]}
  OBVIOUS
<1>3. /\ TypeQuiche' /\ \A t \in Streams : t # s => SameQuiche(t)
      /\ qsend'[s] = qsend[s]
      /\ Wrote(s, FIN)' <=> (Wrote(s, FIN) \/ Len(<<>>) = 1)
      /\ Wrote(s, RESET)' <=> Wrote(s, RESET)
  BY <1>1, <1>2, Accepted, Zenon
<1> QED BY <1>2, <1>3, Zenon

\* What every turn leaves alone.
TurnRest ==
  /\ UNCHANGED <<frontVars, status, cmd, ingress, recv, conn_terminal, left>>
  /\ wpc = "turn" /\ wpc' \in {"send", "turn"} /\ (wpc' = "turn" => cur' \in Streams)
  /\ cur' \in Streams \cup {NoStream} /\ needs_iteration' \in BOOLEAN
  /\ runnable_send' \in Seq(Streams) /\ DOMAIN admit' \subseteq DOMAIN admit

\* The chain after a turn that leaves a live entry e.
LEMMA TurnKeeps ==
  ASSUME IInv, NEW s \in DOMAIN send, NEW e \in Entries, send' = [send EXCEPT ![s] = e], TurnRest,
         Entry(s).terminal = "none", ~Entry(s).pending_reset, qsend[s] = "open",
         e.terminal = "none", ~e.pending_reset, e.finished = Entry(s).finished, e.shared = Entry(s).shared,
         e.held # NoHeld => e.held.n > 0 /\ e.held.rem > 0,
         OpsInOrder(e.send_ops), OpsAre(e.send_ops, Len(submitted[s])),
         HasOp(e.send_ops, "finish") <=> HasOp(OpsOf(s), "finish"),
         slot' \in [Streams -> Results], finslot' \in [Streams -> Results],
         \A t \in Streams : finslot'[t] = finslot[t] /\ (t # s => slot'[t] = slot[t]),
         \/ slot'[s] = slot[s] /\ (HasOp(e.send_ops, "write") <=> HasOp(OpsOf(s), "write"))
         \/ /\ HasOp(OpsOf(s), "write") /\ ~HasOp(e.send_ops, "write")
            /\ slot'[s] = IF slot[s] = NoSlot THEN "ok" ELSE slot[s],
         TypeQuiche', \A t \in Streams : t # s => SameQuiche(t), qsend'[s] = qsend[s],
         Wrote(s, FIN)' <=> Wrote(s, FIN), Wrote(s, RESET)' <=> Wrote(s, RESET)
  PROVE  IInv'
<1>0. s \in Streams
  BY DEF IInv, TypeOK, TypeWorker
<1>1. /\ TypeShared /\ TypeWorker /\ Queues(s) /\ Handle(s) /\ EntryState(s) /\ Reported(s)
      /\ Entry(s) \in Entries
  BY <1>0, Known
<1>2. /\ status' = status /\ cmd' = cmd /\ ingress' = ingress /\ recv' = recv
      /\ conn_terminal' = conn_terminal /\ left' = left /\ submitted' = submitted
      /\ failed' = failed /\ finish_result' = finish_result
  BY DEF TurnRest, frontVars
<1>3. Updated(s, e)
  BY <1>1, SetEntry
<1>4. Entry(s)' = e /\ OpsOf(s)' = e.send_ops /\ ~Entry(s).finished /\ Entry(s).shared
      /\ (s \in DOMAIN send' <=> s \in DOMAIN send)
  BY <1>1, <1>3 DEF Updated, OpsOf, EntryState
<1>5. \A t \in Streams : SameCmds(t) /\ SameFront(t)
  BY <1>2, CmdsStay, FrontStays DEF TurnRest
<1>6. HasOp(e.send_ops, "write") => HasOp(OpsOf(s), "write")
  OBVIOUS
<1>7. Queues(s)'
  BY <1>1, <1>2, <1>4, <1>6 DEF Queues
<1>8. /\ Finishing(s)' <=> Finishing(s)
      /\ Resetting(s)' <=> Resetting(s)
  BY <1>2, <1>4 DEF Finishing, Resetting
<1>9. Has(cmd, s, "Send") => ~HasOp(OpsOf(s), "write")
  BY <1>1 DEF Queues
<1>10. Handle(s)'
  <2>1. Writing(s)' => Writing(s) /\ slot'[s] = slot[s]
    BY <1>2, <1>4, <1>9 DEF Writing
  <2>2. Writing(s) /\ ~Writing(s)' /\ slot[s] = NoSlot => slot'[s] # NoSlot
    BY <1>2, <1>4 DEF Writing, NoSlot
  <2>3. slot[s] # NoSlot => slot'[s] # NoSlot
    OBVIOUS
  <2> QED BY <1>0, <1>1, <1>2, <1>5, <1>8, <2>1, <2>2, <2>3, HandleKeeps
<1>11. EntryState(s)'
  BY <1>1, <1>2, <1>4 DEF EntryState
<1>12. Reported(s)'
  BY <1>0, <1>1, <1>2, <1>4 DEF Reported
<1>13. TypeShared'
  BY <1>1, <1>2 DEF TypeShared
<1>14. TypeWorker'
  <2>1. left' \in Nat /\ wpc' \in {"wait", "apply", "writable", "send", "turn", "close", "exited"}
    BY <1>1, <1>2 DEF TypeWorker, TurnRest
  <2> QED BY <1>0, <1>1, <1>2, <1>3, <2>1, RegistryTypes DEF TurnRest
<1>15. OthersSame(s)
  BY <1>2, <1>3, <1>5 DEF OthersSame, Updated, SameCells
<1> QED BY <1>0, <1>2, <1>7, <1>10, <1>11, <1>12, <1>13, <1>14, <1>15, WorkerStep DEF TurnRest

\* The entry after complete_finish_op.
Done(e) == [e EXCEPT !.send_ops = Tail(@), !.held = NoHeld, !.finished = TRUE]

\* complete_finish_op reclaims the entry, or leaves it to the receive half.
LEMMA FinishOpIs ==
  ASSUME IInv, NEW s \in DOMAIN send, cur = s, FinishOpDone(send[s])
  PROVE  /\ Complete(s, <<Head(OpsOf(s))>>, "ok") /\ DOMAIN admit' \subseteq DOMAIN admit
         /\ \/ send' = Remove(send, s)
            \/ send' = [send EXCEPT ![s] = Done(Entry(s))] /\ s \in recv
<1>1. send[s] = Entry(s)
  BY DEF Entry
<1>2. /\ Complete(s, <<Head(OpsOf(s))>>, "ok")
      /\ IF Reclaimable(Put(send, s, Done(Entry(s))), recv, s)
           THEN send' = Remove(send, s) /\ admit' = Remove(admit, s)
           ELSE send' = [send EXCEPT ![s] = Done(Entry(s))] /\ admit' = AdmitSendDone(admit, s)
  BY <1>1 DEF FinishOpDone, Done, OpsOf
<1>3. s \notin recv => Reclaimable(Put(send, s, Done(Entry(s))), recv, s)
  <2>1. Entry(s) \in Entries
    BY EntryType DEF IInv, TypeOK
  <2>2. Done(Entry(s)).finished = TRUE
    BY <2>1 DEF Done, Entries
  <2>3. s \in DOMAIN Put(send, s, Done(Entry(s))) /\ Put(send, s, Done(Entry(s)))[s] = Done(Entry(s))
    BY DEF Put
  <2> QED BY <2>2, <2>3 DEF Reclaimable
<1> QED BY <1>2, <1>3, AdmitTypes

\* The chain after the FIN was accepted.
LEMMA FinKeeps ==
  ASSUME IInv, NEW s \in DOMAIN send, TurnRest,
         Entry(s).terminal = "none", ~Entry(s).pending_reset, qsend[s] = "open",
         OpsOf(s) # <<>>, Head(OpsOf(s)).kind = "finish", Complete(s, <<Head(OpsOf(s))>>, "ok"),
         \/ send' = Remove(send, s)
         \/ send' = [send EXCEPT ![s] = Done(Entry(s))] /\ s \in recv,
         TypeQuiche', \A t \in Streams : t # s => SameQuiche(t), qsend'[s] = "fin",
         Wrote(s, FIN)', Wrote(s, RESET)' <=> Wrote(s, RESET)
  PROVE  IInv'
<1>0. s \in Streams
  BY DEF IInv, TypeOK, TypeWorker
<1>1. /\ TypeShared /\ TypeWorker /\ Queues(s) /\ Handle(s) /\ EntryState(s) /\ Reported(s)
      /\ Entry(s) \in Entries /\ OpsOf(s) \in Seq(Ops)
  BY <1>0, Known
<1>2. /\ status' = status /\ cmd' = cmd /\ ingress' = ingress /\ recv' = recv
      /\ conn_terminal' = conn_terminal /\ left' = left /\ submitted' = submitted
      /\ failed' = failed /\ finish_result' = finish_result
  BY DEF TurnRest, frontVars
<1>3. OpsInOrder(OpsOf(s))
  BY <1>1 DEF Queues
<1>4. Tail(OpsOf(s)) = <<>> /\ HasOp(OpsOf(s), "finish") /\ ~HasOp(OpsOf(s), "write")
  <2>1. Tail(OpsOf(s)) = <<>> /\ HasOp(OpsOf(s), "finish")
    BY <1>1, <1>3, OpTail
  <2>2. Head(OpsOf(s)) = OpsOf(s)[1]
    BY <1>1
  <2>3. ~HasOp(OpsOf(s), "write")
    BY <1>3, <2>2 DEF OpsInOrder, HasOp
  <2> QED BY <2>1, <2>3
<1>5. /\ \A o \in {"Send", "Finish", "Reset"} : ~Has(cmd, s, o)
      /\ ~Entry(s).finished /\ Entry(s).shared /\ ~Wrote(s, RESET) /\ ~Wrote(s, FIN)
  BY <1>1, <1>4 DEF Queues, EntryState
<1>6. /\ slot' \in [Streams -> Results] /\ finslot' \in [Streams -> Results]
      /\ \A t \in Streams : t # s => slot'[t] = slot[t] /\ finslot'[t] = finslot[t]
      /\ slot'[s] = slot[s]
      /\ finslot'[s] = finslot[s] \/ finslot'[s] = "ok"
  <2>1. ~HasOp(<<Head(OpsOf(s))>>, "write") /\ "ok" \in Results
    BY OneOp DEF Results
  <2> QED BY <1>0, <1>1, <2>1, Completes
<1>7. /\ \A t \in Streams : t # s => SameEntry(t)
      /\ OpsOf(s)' = <<>> /\ ~Entry(s)'.pending_reset /\ Entry(s)'.terminal = "none"
      /\ Entry(s)'.held = NoHeld
      /\ s \in DOMAIN send' => Entry(s)'.finished /\ s \in recv
      /\ TypeWorker'
  <2>1. left' \in Nat /\ wpc' \in {"wait", "apply", "writable", "send", "turn", "close", "exited"}
    BY <1>1, <1>2 DEF TypeWorker, TurnRest
  <2>2. CASE send' = Remove(send, s)
    <3>1. Removed(s)
      BY <1>0, <1>1, <2>2, RemoveEntry
    <3>2. TypeWorker'
      BY <1>0, <1>1, <1>2, <2>1, <3>1, RegistryTypes DEF TurnRest
    <3>3. Entry(s)' = NewState(FALSE) /\ s \notin DOMAIN send'
      BY <3>1 DEF Removed
    <3> QED BY <3>1, <3>2, <3>3 DEF Removed, OpsOf, NewState
  <2>3. CASE send' = [send EXCEPT ![s] = Done(Entry(s))] /\ s \in recv
    <3> DEFINE e == Done(Entry(s))
    <3>1. /\ e \in Entries /\ e.send_ops = <<>> /\ e.pending_reset = Entry(s).pending_reset
          /\ e.terminal = "none" /\ e.finished = TRUE /\ e.held = NoHeld
      <4>1. Entry(s).send_ops = OpsOf(s) /\ <<>> \in Seq(Ops)
        BY DEF OpsOf
      <4> QED BY <1>1, <1>4, <4>1 DEF Done, Entries, NoHeld
    <3> HIDE DEF e
    <3>2. Updated(s, e)
      BY <1>1, <2>3, <3>1, SetEntry DEF e
    <3>3. TypeWorker'
      BY <1>0, <1>1, <1>2, <2>1, <3>2, RegistryTypes DEF TurnRest
    <3> QED BY <2>3, <3>1, <3>2, <3>3 DEF Updated, OpsOf
  <2> QED BY <2>2, <2>3
<1>8. \A t \in Streams : SameCmds(t) /\ SameFront(t)
  BY <1>2, CmdsStay, FrontStays DEF TurnRest
<1>9. Queues(s)'
  BY <1>1, <1>2, <1>5, <1>7, OpNone DEF Queues
<1>10. ~Writing(s) /\ ~Writing(s)' /\ Finishing(s)
  BY <1>2, <1>4, <1>5, <1>7, OpNone DEF Writing, Finishing
<1>11. Resetting(s)' => Resetting(s)
  BY <1>2, <1>7 DEF Resetting
<1>12. Handle(s)'
  BY <1>0, <1>1, <1>2, <1>6, <1>8, <1>10, <1>11, HandleKeeps
<1>13. EntryState(s)'
  BY <1>1, <1>2, <1>5, <1>7 DEF EntryState
<1>14. Reported(s)'
  BY <1>1, <1>2, <1>6 DEF Reported
<1>15. TypeShared'
  BY <1>1, <1>2, <1>6 DEF TypeShared
<1>16. OthersSame(s)
  BY <1>2, <1>6, <1>7, <1>8 DEF OthersSame, SameCells
<1> QED BY <1>0, <1>2, <1>7, <1>9, <1>12, <1>13, <1>14, <1>15, <1>16, WorkerStep DEF TurnRest

\* The number of units a call offers and the number quiche takes.
LEMMA Offered ==
  ASSUME NEW a \in Nat, NEW b \in Nat, NEW c \in Nat
  PROVE  /\ Least(a, b) \in Nat /\ Least(Least(a, b), c) \in Nat
         /\ Least(Least(a, b), c) <= a /\ Least(Least(a, b), c) <= c
         /\ a - Least(Least(a, b), c) \in Nat
BY DEF Least

\* TurnOutcome keeps the types of the loop.
LEMMA OutcomeTypes ==
  ASSUME IInv, NEW s \in Streams, cur = s, wpc = "turn",
         Drop \/ Requeue \/ Park \/ UNCHANGED <<wpc, cur, runnable_send, needs_iteration>>
  PROVE  /\ wpc' \in {"send", "turn"} /\ (wpc' = "turn" => cur' \in Streams)
         /\ cur' \in Streams \cup {NoStream} /\ needs_iteration' \in BOOLEAN
         /\ runnable_send' \in Seq(Streams)
<1>1. runnable_send \in Seq(Streams) /\ needs_iteration \in BOOLEAN
  BY DEF IInv, TypeOK, TypeWorker
<1>2. Enqueue(runnable_send, s) \in Seq(Streams)
  BY <1>1, ElemsEnqueue
<1>3. CASE Drop \/ Park
  BY <1>1, <1>3 DEF Drop, Park, EndTurn
<1>4. CASE Requeue
  BY <1>2, <1>4 DEF Requeue, EndTurn
<1>5. CASE UNCHANGED <<wpc, cur, runnable_send, needs_iteration>>
  BY <1>1, <1>5
<1> QED BY <1>3, <1>4, <1>5

\* A pending reset is emitted.
LEMMA TurnResetStep ==
  ASSUME IInv, TurnReset
  PROVE  IInv'
<1>1. PICK s \in Streams : cur = s
  BY TurnIs DEF TurnReset
<1> DEFINE e == [Entry(s) EXCEPT !.pending_reset = FALSE, !.finished = TRUE]
<1>2. /\ TypeShared /\ TypeWorker /\ TypeQuiche /\ Queues(s) /\ Handle(s) /\ EntryState(s) /\ Reported(s)
      /\ Entry(s) \in Entries /\ wire[s] \in Seq(Units)
  BY Known
<1>3. /\ wpc = "turn" /\ Entry(s).pending_reset
      /\ send' = [send EXCEPT ![s].pending_reset = FALSE, ![s].finished = TRUE]
      /\ qsend' = [qsend EXCEPT ![s] = IF @ = "gone" THEN @ ELSE "shut"]
      /\ wire' = [wire EXCEPT ![s] = IF qsend[s] = "gone" THEN @ ELSE Append(@, RESET)]
      /\ admit' = AdmitSendDone(admit, s) /\ qarmed' = qarmed \ {s} /\ Drop
      /\ UNCHANGED <<frontVars, sharedVars, recv, conn_terminal, left, cap, granted, qconn>>
  BY <1>1 DEF TurnReset
<1>4. s \in DOMAIN send
  BY <1>2, <1>3, EntryType, FreshEntry
<1>5. send' = [send EXCEPT ![s] = e]
  BY <1>3, <1>4 DEF Entry
<1>6. /\ e \in Entries /\ e.send_ops = Entry(s).send_ops /\ e.pending_reset = FALSE
      /\ e.terminal = Entry(s).terminal /\ e.finished = TRUE /\ e.held = Entry(s).held
      /\ e.shared = Entry(s).shared
  BY <1>2 DEF Entries
<1> HIDE DEF e
<1>7. Updated(s, e)
  BY <1>2, <1>4, <1>5, <1>6, SetEntry
<1>8. /\ OpsOf(s)' = <<>> /\ OpsOf(s) = <<>> /\ Entry(s)'.pending_reset = FALSE
      /\ Entry(s)'.terminal = Entry(s).terminal /\ Entry(s).terminal # "none"
      /\ Entry(s)'.finished = TRUE /\ Entry(s)'.held = NoHeld /\ Entry(s)'.shared = Entry(s).shared
  BY <1>2, <1>3, <1>6, <1>7 DEF Updated, OpsOf, EntryState
<1>9. /\ status' = status /\ slot' = slot /\ finslot' = finslot /\ cmd' = cmd /\ ingress' = ingress
      /\ submitted' = submitted /\ failed' = failed /\ finish_result' = finish_result /\ TypeShared'
  BY <1>2, <1>3, SharedTypes DEF sharedVars, frontVars
<1>10. Resetting(s) /\ ~Finishing(s) /\ ~Wrote(s, FIN) /\ ~Has(cmd, s, "Reset")
  BY <1>2, <1>3 DEF Resetting, Finishing, Handle, Queues
<1>11. /\ wire'[s] \in Seq(Units) /\ ~Wrote(s, FIN)'
       /\ qsend'[s] \in {"shut", "gone"}
  <2>1. wire'[s] = IF qsend[s] = "gone" THEN wire[s] ELSE Append(wire[s], RESET)
    BY <1>2, <1>3 DEF TypeQuiche
  <2>2. qsend'[s] \in {"shut", "gone"}
    BY <1>2, <1>3 DEF TypeQuiche
  <2>3. RESET \in Units /\ FIN # RESET
    BY DEF Units, FIN, RESET
  <2>4. /\ Append(wire[s], RESET) \in Seq(Units)
        /\ Elems(Append(wire[s], RESET)) = Elems(wire[s]) \cup {RESET}
    BY <1>2, <2>3, ElemsAppend
  <2> QED BY <1>2, <1>10, <2>1, <2>2, <2>3, <2>4 DEF Wrote
<1>12. /\ wire' \in [Streams -> Seq(Nat \cup {RESET})]
       /\ qsend' \in [Streams -> {"open", "stopped", "fin", "shut", "gone"}]
       /\ \A t \in Streams : t # s => SameQuiche(t)
  <2>1. wire' = [wire EXCEPT ![s] = wire'[s]] /\ qsend' = [qsend EXCEPT ![s] = qsend'[s]]
    BY <1>2, <1>3 DEF TypeQuiche
  <2>2. wire'[s] \in Seq(Nat \cup {RESET})
    BY <1>11 DEF Units
  <2> QED BY <1>2, <1>11, <2>1, <2>2 DEF TypeQuiche, SameQuiche
<1>13. TypeQuiche'
  BY <1>2, <1>3, <1>12 DEF TypeQuiche
<1>14. /\ wpc' \in {"send", "turn"} /\ (wpc' = "turn" => cur' \in Streams)
       /\ cur' \in Streams \cup {NoStream} /\ needs_iteration' \in BOOLEAN
       /\ runnable_send' \in Seq(Streams)
  BY <1>1, <1>3, OutcomeTypes
<1>15. TypeWorker'
  <2>1. DOMAIN admit' \subseteq DOMAIN admit /\ left' \in Nat /\ recv' = recv /\ conn_terminal' = conn_terminal
    BY <1>2, <1>3, AdmitTypes DEF TypeWorker
  <2>2. wpc' \in {"wait", "apply", "writable", "send", "turn", "close", "exited"}
    BY <1>14
  <2> QED BY <1>2, <1>7, <1>14, <2>1, <2>2, RegistryTypes
<1>16. Queues(s)'
  BY <1>2, <1>8, <1>9, <1>10, <1>11 DEF Queues
<1>17. /\ Writing(s)' <=> Writing(s)
       /\ ~Finishing(s)'
  BY <1>8, <1>9, <1>10, <1>11 DEF Writing, Finishing
<1>18. \A t \in Streams : SameFront(t) /\ SameCmds(t) /\ SameCells(t)
  BY <1>3, <1>9, FrontStays, CmdsStay DEF SameCells
<1>19. Handle(s)'
  BY <1>2, <1>9, <1>10, <1>17, <1>18, HandleKeeps
<1>20. EntryState(s)'
  BY <1>2, <1>8, <1>11 DEF EntryState
<1>21. Reported(s)'
  BY <1>2, <1>3, <1>8, <1>9, <1>10 DEF Reported
<1>22. OthersSame(s)
  BY <1>3, <1>7, <1>12, <1>18 DEF OthersSame, Updated
<1> QED BY <1>3, <1>9, <1>13, <1>14, <1>15, <1>16, <1>19, <1>20, <1>21, <1>22, WorkerStep

\* The stream of a turn that quiche accepts a call of.
LEMMA WorkingIs ==
  ASSUME IInv, Working, "Ok" \in Answers(cur)
  PROVE  \E s \in DOMAIN send :
           /\ cur = s /\ s \in Streams /\ send[s] = Entry(s) /\ wpc = "turn"
           /\ ~Entry(s).pending_reset /\ Entry(s).terminal = "none" /\ qsend[s] = "open"
<1>1. PICK s \in Streams : cur = s
  BY TurnIs DEF Working
<1>2. s \in DOMAIN send /\ send[s] = Entry(s)
  BY <1>1 DEF Working, Entry
<1>3. qsend[s] \in {"open", "stopped", "fin", "shut", "gone"} /\ "Ok" \in Answers(s)
  BY <1>1 DEF IInv, TypeOK, TypeQuiche
<1>4. qsend[s] = "open"
  BY <1>3, StoppedAnswer
<1> QED BY <1>1, <1>2, <1>4 DEF Working

\* The entry with its head operation held, or done.
Holding(e) == [e EXCEPT !.send_ops = Tail(@), !.held = [n |-> Head(e.send_ops).n, rem |-> Head(e.send_ops).rem]]
Popped(e) == [e EXCEPT !.send_ops = Tail(@)]

\* The head write of a stream.
LEMMA HeadWrite ==
  ASSUME IInv, NEW s \in Streams, OpsOf(s) # <<>>, Head(OpsOf(s)).kind = "write"
  PROVE  LET op == Head(OpsOf(s)) IN
         /\ op \in Ops /\ op.n = Len(submitted[s]) /\ op.n \in Nat /\ op.n > 0 /\ op.rem \in Nat
         /\ HasOp(OpsOf(s), "write")
         /\ Tail(OpsOf(s)) \in Seq(Ops) /\ OpsInOrder(Tail(OpsOf(s)))
         /\ OpsAre(Tail(OpsOf(s)), Len(submitted[s])) /\ ~HasOp(Tail(OpsOf(s)), "write")
         /\ HasOp(Tail(OpsOf(s)), "finish") <=> HasOp(OpsOf(s), "finish")
<1>1. /\ OpsOf(s) \in Seq(Ops) /\ OpsInOrder(OpsOf(s)) /\ OpsAre(OpsOf(s), Len(submitted[s]))
      /\ HasOp(OpsOf(s), "write") => Len(submitted[s]) > 0
  BY Known DEF Queues
<1>2. Head(OpsOf(s)) \in Ops
  BY <1>1, OpTail
<1>3. Head(OpsOf(s)).n \in Nat /\ Head(OpsOf(s)).rem \in Nat
  BY <1>2 DEF Ops
<1>4. /\ Tail(OpsOf(s)) \in Seq(Ops) /\ OpsInOrder(Tail(OpsOf(s)))
      /\ ~HasOp(Tail(OpsOf(s)), "write") /\ HasOp(OpsOf(s), "write")
      /\ HasOp(Tail(OpsOf(s)), "finish") <=> HasOp(OpsOf(s), "finish")
  BY <1>1, OpTail
<1>5. OpsAre(Tail(OpsOf(s)), Len(submitted[s])) /\ Head(OpsOf(s)).n = Len(submitted[s])
  BY <1>1, OpTail
<1> QED BY <1>1, <1>2, <1>3, <1>4, <1>5

\* A completed head write.
LEMMA HeadCompletes ==
  ASSUME IInv, NEW s \in Streams, OpsOf(s) # <<>>, Head(OpsOf(s)).kind = "write",
         Complete(s, <<Head(OpsOf(s))>>, "ok")
  PROVE  /\ slot' \in [Streams -> Results] /\ finslot' \in [Streams -> Results]
         /\ \A t \in Streams : finslot'[t] = finslot[t] /\ (t # s => slot'[t] = slot[t])
         /\ slot'[s] = IF slot[s] = NoSlot THEN "ok" ELSE slot[s]
<1> DEFINE ops == <<Head(OpsOf(s))>>
<1>1. Head(OpsOf(s)).n = Len(submitted[s]) /\ TypeShared
  BY HeadWrite DEF IInv, TypeOK
<1>2. HasOp(ops, "write") /\ ~HasOp(ops, "finish") /\ OpsAre(ops, Len(submitted[s])) /\ "ok" \in Results
  BY <1>1, OneOp DEF Results
<1> HIDE DEF ops
<1>3. /\ slot' \in [Streams -> Results] /\ finslot' \in [Streams -> Results]
      /\ \A t \in Streams : t # s => slot'[t] = slot[t] /\ finslot'[t] = finslot[t]
      /\ slot[s] # NoSlot => slot'[s] = slot[s]
      /\ slot[s] = NoSlot => slot'[s] = "ok"
      /\ finslot'[s] = finslot[s]
  BY <1>1, <1>2, Completes DEF ops
<1> QED BY <1>3

\* A write that fits is held and answered.
LEMMA HoldWriteStep ==
  ASSUME IInv, HoldWrite
  PROVE  IInv'
<1>1. PICK s \in DOMAIN send :
        /\ cur = s /\ s \in Streams /\ send[s] = Entry(s) /\ wpc = "turn"
        /\ ~Entry(s).pending_reset /\ Entry(s).terminal = "none" /\ qsend[s] = "open"
  BY WorkingIs DEF HoldWrite, HeadIs
<1> DEFINE op == Head(OpsOf(s))
           e == Holding(Entry(s))
<1>2. /\ OpsOf(s) # <<>> /\ op.kind = "write" /\ op.rem > 0
      /\ Complete(s, <<op>>, "ok") /\ send' = [send EXCEPT ![s] = e] /\ AfterPop(e)
      /\ UNCHANGED <<frontVars, status, cmd, ingress, recv, admit, conn_terminal, left, quicheVars>>
  BY <1>1 DEF HoldWrite, HeadIs, OpsOf, Holding
<1>3. /\ op \in Ops /\ op.n \in Nat /\ op.n > 0 /\ op.rem \in Nat /\ HasOp(OpsOf(s), "write")
      /\ Tail(OpsOf(s)) \in Seq(Ops) /\ OpsInOrder(Tail(OpsOf(s)))
      /\ OpsAre(Tail(OpsOf(s)), Len(submitted[s])) /\ ~HasOp(Tail(OpsOf(s)), "write")
      /\ HasOp(Tail(OpsOf(s)), "finish") <=> HasOp(OpsOf(s), "finish")
  BY <1>1, <1>2, HeadWrite
<1>4. TypeQuiche /\ Entry(s) \in Entries
  BY <1>1, Known
<1>5. /\ slot' \in [Streams -> Results] /\ finslot' \in [Streams -> Results]
      /\ \A t \in Streams : finslot'[t] = finslot[t] /\ (t # s => slot'[t] = slot[t])
      /\ slot'[s] = IF slot[s] = NoSlot THEN "ok" ELSE slot[s]
  BY <1>1, <1>2, HeadCompletes
<1>6. TurnRest
  <2>1. Drop \/ Requeue
    BY <1>2 DEF AfterPop
  <2> QED BY <1>1, <1>2, <2>1, OutcomeTypes DEF TurnRest
<1>7. /\ TypeQuiche' /\ qsend'[s] = qsend[s] /\ \A t \in Streams : t # s => SameQuiche(t)
      /\ \A x : Wrote(s, x)' <=> Wrote(s, x)
  BY <1>2, <1>4, QuicheTypes DEF quicheVars, SameQuiche, Wrote
<1>8. /\ e \in Entries /\ e.send_ops = Tail(OpsOf(s)) /\ e.pending_reset = Entry(s).pending_reset
      /\ e.terminal = Entry(s).terminal /\ e.finished = Entry(s).finished
      /\ e.held.n > 0 /\ e.held.rem > 0 /\ e.shared = Entry(s).shared
  <2>1. Head(Entry(s).send_ops) = op /\ Tail(Entry(s).send_ops) = Tail(OpsOf(s))
    BY DEF OpsOf
  <2> HIDE DEF op
  <2>2. [n |-> op.n, rem |-> op.rem] \in [n : Nat, rem : Nat]
    BY <1>3
  <2> QED BY <1>2, <1>3, <1>4, <2>1, <2>2 DEF Holding, Entries
<1> HIDE DEF e, op
<1> QED BY <1>1, <1>2, <1>3, <1>5, <1>6, <1>7, <1>8, TurnKeeps

\* A bounded partial write.
LEMMA PartialWriteStep ==
  ASSUME IInv, PartialWrite
  PROVE  IInv'
<1>1. PICK s \in DOMAIN send :
        /\ cur = s /\ s \in Streams /\ send[s] = Entry(s) /\ wpc = "turn"
        /\ ~Entry(s).pending_reset /\ Entry(s).terminal = "none" /\ qsend[s] = "open"
  BY WorkingIs DEF PartialWrite, HeadIs
<1> DEFINE op == Head(OpsOf(s))
           offered == Least(op.rem, MAX_WRITE_CHUNK)
           n == Least(offered, cap)
<1>2. /\ OpsOf(s) # <<>> /\ op.kind = "write" /\ Transmit(s, op.n, n, FALSE)
      /\ \/ /\ op.rem = n /\ Complete(s, <<op>>, "ok")
            /\ send' = [send EXCEPT ![s] = Popped(Entry(s))]
            /\ AfterPop(Popped(Entry(s))) /\ UNCHANGED qarmed
         \/ /\ op.rem > n
            /\ send' = [send EXCEPT ![s].send_ops[1].rem = op.rem - n]
            /\ IF n = offered THEN Requeue /\ UNCHANGED qarmed ELSE Park
            /\ UNCHANGED <<slot, finslot>>
      /\ UNCHANGED <<frontVars, status, cmd, ingress, recv, admit, conn_terminal, left, granted, qconn>>
  BY <1>1 DEF PartialWrite, HeadIs, OpsOf, Popped
<1>3. /\ op \in Ops /\ op.n \in Nat /\ op.n > 0 /\ op.rem \in Nat /\ HasOp(OpsOf(s), "write")
      /\ Tail(OpsOf(s)) \in Seq(Ops) /\ OpsInOrder(Tail(OpsOf(s)))
      /\ OpsAre(Tail(OpsOf(s)), Len(submitted[s])) /\ ~HasOp(Tail(OpsOf(s)), "write")
      /\ HasOp(Tail(OpsOf(s)), "finish") <=> HasOp(OpsOf(s), "finish")
  BY <1>1, <1>2, HeadWrite
<1>4. /\ TypeQuiche /\ TypeShared /\ Entry(s) \in Entries /\ Queues(s) /\ EntryState(s)
      /\ OpsOf(s) \in Seq(Ops)
  BY <1>1, Known
<1>5. n \in Nat /\ n <= cap /\ op.rem - n \in Nat
  BY <1>3, <1>4, Offered, SendBoundsAssumption DEF TypeQuiche
<1> HIDE DEF n, offered
<1>6. qarmed' \subseteq Streams /\ (Drop \/ Requeue \/ Park)
  <2>1. CASE AfterPop(Popped(Entry(s))) /\ UNCHANGED qarmed
    BY <1>4, <2>1 DEF AfterPop, TypeQuiche
  <2>2. CASE Requeue /\ UNCHANGED qarmed
    BY <1>4, <2>2 DEF TypeQuiche
  <2>3. CASE Park
    BY <1>1, <1>4, <2>3 DEF Park, TypeQuiche
  <2> QED BY <1>2, <2>1, <2>2, <2>3
<1>7. TurnRest
  BY <1>1, <1>2, <1>6, OutcomeTypes DEF TurnRest
<1>8. /\ TypeQuiche' /\ \A t \in Streams : t # s => SameQuiche(t)
      /\ qsend'[s] = qsend[s]
      /\ Wrote(s, FIN)' <=> Wrote(s, FIN)
      /\ Wrote(s, RESET)' <=> Wrote(s, RESET)
  <2>1. op.n # 0 /\ granted' = granted /\ qconn' = qconn
    BY <1>2, <1>3
  <2> QED BY <1>1, <1>2, <1>3, <1>4, <1>5, <1>6, <2>1, TransmitMore
<1>9. Entry(s).held # NoHeld => Entry(s).held.n > 0 /\ Entry(s).held.rem > 0
  BY <1>4 DEF EntryState
<1>10. CASE /\ op.rem = n /\ Complete(s, <<op>>, "ok")
            /\ send' = [send EXCEPT ![s] = Popped(Entry(s))]
  <2> DEFINE e == Popped(Entry(s))
  <2>1. /\ slot' \in [Streams -> Results] /\ finslot' \in [Streams -> Results]
        /\ \A t \in Streams : finslot'[t] = finslot[t] /\ (t # s => slot'[t] = slot[t])
        /\ slot'[s] = IF slot[s] = NoSlot THEN "ok" ELSE slot[s]
    BY <1>1, <1>2, <1>10, HeadCompletes
  <2>2. /\ e \in Entries /\ e.send_ops = Tail(OpsOf(s)) /\ e.pending_reset = Entry(s).pending_reset
        /\ e.terminal = Entry(s).terminal /\ e.finished = Entry(s).finished
        /\ e.held = Entry(s).held /\ e.shared = Entry(s).shared
    BY <1>3, <1>4 DEF Popped, Entries, OpsOf
  <2> HIDE DEF e, op
  <2>3. send' = [send EXCEPT ![s] = e]
    BY <1>10 DEF e
  <2> QED BY <1>1, <1>3, <1>7, <1>8, <1>9, <2>1, <2>2, <2>3, TurnKeeps
<1>11. CASE /\ send' = [send EXCEPT ![s].send_ops[1].rem = op.rem - n]
            /\ UNCHANGED <<slot, finslot>>
  <2> DEFINE k == op.rem - n
             ops == [OpsOf(s) EXCEPT ![1].rem = k]
             e == [Entry(s) EXCEPT !.send_ops = ops]
  <2>1. send' = [send EXCEPT ![s] = e]
    BY <1>1, <1>11 DEF OpsOf
  <2> HIDE DEF k
  <2>2. k \in Nat
    BY <1>5 DEF k
  <2>3. OpsInOrder(OpsOf(s)) /\ OpsAre(OpsOf(s), Len(submitted[s]))
    BY <1>4 DEF Queues
  <2>4. /\ ops \in Seq(Ops) /\ OpsInOrder(ops) /\ \A x : HasOp(ops, x) <=> HasOp(OpsOf(s), x)
    BY <1>2, <1>4, <2>2, <2>3, OpShorten
  <2>5. OpsAre(ops, Len(submitted[s]))
    BY <1>2, <1>4, <2>2, <2>3, OpShorten
  <2> HIDE DEF ops
  <2>6. /\ e \in Entries /\ e.send_ops = ops /\ e.pending_reset = Entry(s).pending_reset
        /\ e.terminal = Entry(s).terminal /\ e.finished = Entry(s).finished
        /\ e.held = Entry(s).held /\ e.shared = Entry(s).shared
    BY <1>4, <2>4 DEF Entries
  <2> HIDE DEF e, op
  <2>7. /\ slot' \in [Streams -> Results] /\ finslot' \in [Streams -> Results]
        /\ slot' = slot /\ finslot' = finslot
    BY <1>4, <1>11 DEF TypeShared
  <2> QED BY <1>1, <1>7, <1>8, <1>9, <2>1, <2>4, <2>5, <2>6, <2>7, TurnKeeps
<1> QED BY <1>2, <1>10, <1>11

\* A FIN that goes alone.
LEMMA LoneFinStep ==
  ASSUME IInv, LoneFin
  PROVE  IInv'
<1>1. PICK s \in DOMAIN send :
        /\ cur = s /\ s \in Streams /\ send[s] = Entry(s) /\ wpc = "turn"
        /\ ~Entry(s).pending_reset /\ Entry(s).terminal = "none" /\ qsend[s] = "open"
  BY WorkingIs DEF LoneFin, HeadIs
<1>2. /\ OpsOf(s) # <<>> /\ Head(OpsOf(s)).kind = "finish" /\ Transmit(s, FIN, 0, TRUE)
      /\ FinishOpDone(send[s]) /\ Drop /\ qarmed' = qarmed \ {s}
      /\ UNCHANGED <<frontVars, status, cmd, ingress, recv, conn_terminal, left, granted, qconn>>
  BY <1>1 DEF LoneFin, HeadIs, OpsOf
<1>3. TypeQuiche
  BY <1>1, Known
<1>4. /\ TypeQuiche' /\ \A t \in Streams : t # s => SameQuiche(t)
      /\ qsend'[s] = "fin" /\ Wrote(s, FIN)' /\ (Wrote(s, RESET)' <=> Wrote(s, RESET))
  <2>1. FIN \in Nat /\ 0 \in Nat /\ 0 <= cap /\ qarmed' \subseteq Streams
    BY <1>2, <1>3 DEF TypeQuiche, FIN
  <2> QED BY <1>1, <1>2, <1>3, <2>1, TransmitFin
<1>5. /\ Complete(s, <<Head(OpsOf(s))>>, "ok") /\ DOMAIN admit' \subseteq DOMAIN admit
      /\ \/ send' = Remove(send, s)
         \/ send' = [send EXCEPT ![s] = Done(Entry(s))] /\ s \in recv
  BY <1>1, <1>2, FinishOpIs
<1>6. TurnRest
  BY <1>1, <1>2, <1>5, OutcomeTypes DEF TurnRest
<1> QED BY <1>1, <1>2, <1>4, <1>5, <1>6, FinKeeps

\* The held write is flushed, with the FIN behind it if there is one.
LEMMA FlushHeldStep ==
  ASSUME IInv, FlushHeld
  PROVE  IInv'
<1>1. PICK s \in DOMAIN send :
        /\ cur = s /\ s \in Streams /\ send[s] = Entry(s) /\ wpc = "turn"
        /\ ~Entry(s).pending_reset /\ Entry(s).terminal = "none" /\ qsend[s] = "open"
  BY WorkingIs DEF FlushHeld
<1> DEFINE h == Entry(s).held
           offered == Least(h.rem, MAX_WRITE_CHUNK)
           n == Least(offered, cap)
           fin == OpsOf(s) # <<>> /\ Head(OpsOf(s)).kind = "finish"
<1>2. /\ h # NoHeld /\ Transmit(s, h.n, n, FinRides(Entry(s), n))
      /\ \/ /\ h.rem - n = 0 /\ fin /\ FinishOpDone(send[s]) /\ Drop /\ qarmed' = qarmed \ {s}
         \/ /\ h.rem - n = 0 /\ ~fin
            /\ send' = [send EXCEPT ![s].held = NoHeld]
            /\ IF OpsOf(s) = <<>>
                 THEN Drop
                 ELSE UNCHANGED <<wpc, cur, runnable_send, needs_iteration>>
            /\ UNCHANGED <<admit, slot, finslot, qarmed>>
         \/ /\ h.rem - n > 0
            /\ send' = [send EXCEPT ![s].held.rem = h.rem - n]
            /\ IF n = offered THEN Requeue /\ UNCHANGED qarmed ELSE Park
            /\ UNCHANGED <<admit, slot, finslot>>
      /\ UNCHANGED <<frontVars, status, cmd, ingress, recv, conn_terminal, left, granted, qconn>>
  BY <1>1 DEF FlushHeld, HasHeld, OpsOf
<1>3. /\ TypeQuiche /\ TypeShared /\ Entry(s) \in Entries /\ Queues(s) /\ EntryState(s)
      /\ OpsOf(s) \in Seq(Ops)
  BY <1>1, Known
<1>4. h.n \in Nat /\ h.rem \in Nat /\ h.n > 0 /\ h.rem > 0
  <2>1. h \in [n : Nat, rem : Nat]
    BY <1>3, EntryFields
  <2> QED BY <1>2, <1>3, <2>1 DEF EntryState
<1>5. n \in Nat /\ n <= cap /\ h.rem - n \in Nat /\ n <= h.rem
  BY <1>3, <1>4, Offered, SendBoundsAssumption DEF TypeQuiche
<1> HIDE DEF n, offered
<1>6. FinRides(Entry(s), n) <=> fin /\ n = h.rem
  BY DEF FinRides, OpsOf
<1>7. OpsInOrder(OpsOf(s)) /\ OpsAre(OpsOf(s), Len(submitted[s]))
  BY <1>3 DEF Queues
<1>8. CASE h.rem - n = 0 /\ fin /\ FinishOpDone(send[s]) /\ Drop /\ qarmed' = qarmed \ {s}
  <2>1. n = h.rem
    BY <1>4, <1>5, <1>8
  <2>2. Transmit(s, h.n, n, TRUE)
    BY <1>2, <1>6, <1>8, <2>1 DEF Transmit
  <2>3. /\ TypeQuiche' /\ \A t \in Streams : t # s => SameQuiche(t)
        /\ qsend'[s] = "fin" /\ Wrote(s, FIN)' /\ (Wrote(s, RESET)' <=> Wrote(s, RESET))
    <3>1. qarmed' \subseteq Streams
      BY <1>3, <1>8 DEF TypeQuiche
    <3>2. h.n # 0 /\ granted' = granted /\ qconn' = qconn
      BY <1>2, <1>4
    <3> QED BY <1>1, <1>3, <1>4, <1>5, <2>2, <3>1, <3>2, TransmitFin
  <2>4. /\ Complete(s, <<Head(OpsOf(s))>>, "ok") /\ DOMAIN admit' \subseteq DOMAIN admit
        /\ \/ send' = Remove(send, s)
           \/ send' = [send EXCEPT ![s] = Done(Entry(s))] /\ s \in recv
    BY <1>1, <1>8, FinishOpIs
  <2>5. TurnRest
    BY <1>1, <1>2, <1>8, <2>4, OutcomeTypes DEF TurnRest
  <2> QED BY <1>1, <1>8, <2>3, <2>4, <2>5, FinKeeps
<1>9. ASSUME ~(fin /\ n = h.rem), qarmed' \subseteq Streams
      PROVE  /\ TypeQuiche' /\ \A t \in Streams : t # s => SameQuiche(t)
             /\ qsend'[s] = qsend[s]
             /\ Wrote(s, FIN)' <=> Wrote(s, FIN)
             /\ Wrote(s, RESET)' <=> Wrote(s, RESET)
  <2>1. Transmit(s, h.n, n, FALSE)
    BY <1>2, <1>6, <1>9 DEF Transmit
  <2>2. h.n # 0 /\ granted' = granted /\ qconn' = qconn
    BY <1>2, <1>4
  <2> QED BY <1>1, <1>3, <1>4, <1>5, <1>9, <2>1, <2>2, TransmitMore
<1>10. UNCHANGED <<slot, finslot>> => /\ slot' \in [Streams -> Results] /\ finslot' \in [Streams -> Results]
                                      /\ slot' = slot /\ finslot' = finslot
  BY <1>3 DEF TypeShared
<1>11. CASE /\ h.rem - n = 0 /\ ~fin
            /\ send' = [send EXCEPT ![s].held = NoHeld]
            /\ IF OpsOf(s) = <<>>
                 THEN Drop
                 ELSE UNCHANGED <<wpc, cur, runnable_send, needs_iteration>>
            /\ UNCHANGED <<admit, slot, finslot, qarmed>>
  <2> DEFINE e == [Entry(s) EXCEPT !.held = NoHeld]
  <2>1. send' = [send EXCEPT ![s] = e]
    BY <1>1, <1>11
  <2>2. /\ e \in Entries /\ e.send_ops = OpsOf(s) /\ e.pending_reset = Entry(s).pending_reset
        /\ e.terminal = Entry(s).terminal /\ e.finished = Entry(s).finished
        /\ e.held = NoHeld /\ e.shared = Entry(s).shared
    BY <1>3 DEF Entries, OpsOf, NoHeld
  <2>3. qarmed' \subseteq Streams
    BY <1>3, <1>11 DEF TypeQuiche
  <2>4. TurnRest
    BY <1>1, <1>2, <1>11, OutcomeTypes DEF TurnRest
  <2> HIDE DEF e
  <2> QED BY <1>1, <1>7, <1>9, <1>10, <1>11, <2>1, <2>2, <2>3, <2>4, TurnKeeps
<1>12. CASE /\ h.rem - n > 0
            /\ send' = [send EXCEPT ![s].held.rem = h.rem - n]
            /\ IF n = offered THEN Requeue /\ UNCHANGED qarmed ELSE Park
            /\ UNCHANGED <<admit, slot, finslot>>
  <2> DEFINE k == h.rem - n
             e == [Entry(s) EXCEPT !.held = [n |-> h.n, rem |-> k]]
  <2>1. k \in Nat /\ k > 0 /\ n # h.rem
    BY <1>4, <1>5, <1>12
  <2>2. send' = [send EXCEPT ![s] = e]
    <3>1. h = [n |-> h.n, rem |-> h.rem]
      BY <1>3, EntryFields
    <3>2. [h EXCEPT !.rem = k] = [n |-> h.n, rem |-> k]
      BY <3>1
    <3>3. send' = [send EXCEPT ![s] = [Entry(s) EXCEPT !.held = [h EXCEPT !.rem = k]]]
      BY <1>1, <1>12
    <3> QED BY <3>2, <3>3
  <2> HIDE DEF k
  <2>3. /\ e \in Entries /\ e.send_ops = OpsOf(s) /\ e.pending_reset = Entry(s).pending_reset
        /\ e.terminal = Entry(s).terminal /\ e.finished = Entry(s).finished
        /\ e.held.n > 0 /\ e.held.rem > 0 /\ e.shared = Entry(s).shared
    <3>1. [n |-> h.n, rem |-> k] \in [n : Nat, rem : Nat]
      BY <1>4, <2>1
    <3> QED BY <1>3, <1>4, <2>1, <3>1 DEF Entries, OpsOf
  <2>4. qarmed' \subseteq Streams /\ (Requeue \/ Park)
    <3>1. CASE Requeue /\ UNCHANGED qarmed
      BY <1>3, <3>1 DEF TypeQuiche
    <3>2. CASE Park
      BY <1>1, <1>3, <3>2 DEF Park, TypeQuiche
    <3> QED BY <1>12, <3>1, <3>2
  <2>5. TurnRest
    BY <1>1, <1>2, <1>12, <2>4, OutcomeTypes DEF TurnRest
  <2> HIDE DEF e
  <2> QED BY <1>1, <1>7, <1>9, <1>10, <1>12, <2>1, <2>2, <2>3, <2>4, <2>5, TurnKeeps
<1> QED BY <1>2, <1>8, <1>11, <1>12

-----------------------------------------------------------------------------
(* The close *)

\* A live entry after do_on_conn_close.
ClosedEntry(e) == [e EXCEPT !.terminal = IF @ = "none" THEN "conn" ELSE @, !.held = NoHeld, !.send_ops = <<>>]

LEMMA ClosedFields ==
  ASSUME NEW e \in Entries
  PROVE  /\ ClosedEntry(e) \in Entries /\ ClosedEntry(e).terminal # "none"
         /\ ClosedEntry(e).held = NoHeld /\ ClosedEntry(e).send_ops = <<>>
         /\ ClosedEntry(e).pending_reset = e.pending_reset /\ ClosedEntry(e).finished = e.finished
         /\ ClosedEntry(e).shared = e.shared
<1>1. "conn" \in Ends /\ NoHeld \in [n : Nat, rem : Nat] /\ <<>> \in Seq(Ops) /\ e.terminal \in Ends
  BY DEF Ends, NoHeld, Entries
<1>2. (IF e.terminal = "none" THEN "conn" ELSE e.terminal) \in Ends \ {"none"}
  BY <1>1
<1> QED BY <1>1, <1>2 DEF ClosedEntry, Entries

\* What the close does to one stream.
Closes(t) ==
  /\ (t \in DOMAIN send' <=> t \in DOMAIN send)
  /\ t \in DOMAIN send => Entry(t)' = ClosedEntry(Entry(t))
  /\ t \notin DOMAIN send => Entry(t)' = Entry(t)
  /\ status'[t] = ClosedStatus(t)
  /\ slot'[t] = IF slot[t] = NoSlot /\ HasOp(OpsOf(t), "write") THEN "conn" ELSE slot[t]
  /\ finslot'[t] = IF finslot[t] = NoSlot /\ HasOp(OpsOf(t), "finish") THEN "conn" ELSE finslot[t]

LEMMA PublishIs ==
  ASSUME IInv, ClosePublish
  PROVE  /\ \A t \in Streams : Closes(t)
         /\ TypeShared' /\ TypeWorker' /\ Stage'
<1>0. TypeShared /\ TypeWorker /\ TypeQuiche /\ Stage
  BY DEF IInv, TypeOK
<1>1. /\ wpc = "wait" /\ qconn = "closing" /\ conn_terminal' = TRUE /\ wpc' = "close"
      /\ status' = [s \in Streams |-> ClosedStatus(s)]
      /\ UNCHANGED <<cmd, ingress, recv, admit, runnable_send, needs_iteration, left, cur>>
      /\ qconn' = qconn
  BY DEF ClosePublish, quicheVars
<1>2. send' = [s \in DOMAIN send |-> ClosedEntry(send[s])]
  BY DEF ClosePublish, ClosedEntry
<1>3. /\ slot' = [s \in Streams |->
            IF slot[s] = NoSlot /\ HasOp(OpsOf(s), "write") THEN "conn" ELSE slot[s]]
      /\ finslot' = [s \in Streams |->
            IF finslot[s] = NoSlot /\ HasOp(OpsOf(s), "finish") THEN "conn" ELSE finslot[s]]
  <2>1. \A s, k : (s \in DOMAIN send /\ \E op \in Elems(send[s].send_ops) : op.kind = k)
                    <=> HasOp(OpsOf(s), k)
    <3> SUFFICES ASSUME NEW s, NEW k
                 PROVE  (s \in DOMAIN send /\ \E op \in Elems(send[s].send_ops) : op.kind = k)
                          <=> HasOp(OpsOf(s), k)
      OBVIOUS
    <3>1. CASE s \in DOMAIN send
      BY <3>1 DEF Elems, HasOp, OpsOf, Entry
    <3>2. CASE s \notin DOMAIN send
      <4>1. OpsOf(s) = <<>>
        BY <3>2 DEF OpsOf, Entry, NewState
      <4> QED BY <3>2, <4>1, OpNone
    <3> QED BY <3>1, <3>2
  <2> QED BY <2>1 DEF ClosePublish
<1>4. ASSUME NEW t \in Streams PROVE Closes(t)
  <2>1. /\ DOMAIN send' = DOMAIN send
        /\ t \in DOMAIN send => send'[t] = ClosedEntry(send[t])
    BY <1>2
  <2>2. /\ t \in DOMAIN send => Entry(t)' = ClosedEntry(Entry(t))
        /\ t \notin DOMAIN send => Entry(t)' = Entry(t)
    BY <2>1 DEF Entry
  <2> QED BY <1>1, <1>3, <2>1, <2>2 DEF Closes
<1>5. TypeShared'
  <2>1. \A t \in Streams : ClosedStatus(t) \in Ends
    BY <1>0 DEF ClosedStatus, TypeShared, Ends
  <2>2. status' \in [Streams -> Ends]
    BY <1>1, <2>1
  <2>3. slot' \in [Streams -> Results] /\ finslot' \in [Streams -> Results]
    <3>1. "conn" \in Results
      BY DEF Results
    <3> QED BY <1>0, <1>3, <3>1 DEF TypeShared
  <2> QED BY <1>0, <1>1, <2>2, <2>3 DEF TypeShared
<1>6. send' \in [DOMAIN send -> Entries] /\ \A s \in DOMAIN send : send'[s].terminal # "none"
  <2>1. \A s \in DOMAIN send : send[s] \in Entries
    BY <1>0 DEF TypeWorker
  <2>2. \A s \in DOMAIN send : ClosedEntry(send[s]) \in Entries /\ ClosedEntry(send[s]).terminal # "none"
    BY <2>1, ClosedFields
  <2> QED BY <1>2, <2>2
<1>7. TypeWorker'
  <2>1. DOMAIN send' = DOMAIN send
    BY <1>2
  <2>2. conn_terminal' \in BOOLEAN
    BY <1>1, Zenon
  <2> QED BY <1>0, <1>1, <1>6, <2>1, <2>2 DEF TypeWorker
<1>8. Stage'
  <2>1. DOMAIN send' = DOMAIN send
    BY <1>2
  <2> QED BY <1>0, <1>1, <1>6, <2>1 DEF Stage
<1> QED BY <1>4, <1>5, <1>7, <1>8

LEMMA ClosePublishStep ==
  ASSUME IInv, ClosePublish
  PROVE  IInv'
<1>1. /\ \A t \in Streams : Closes(t)
      /\ TypeShared' /\ TypeWorker' /\ Stage'
  BY PublishIs
<1>2. /\ UNCHANGED frontVars /\ cmd' = cmd /\ recv' = recv /\ UNCHANGED quicheVars
  BY DEF ClosePublish
<1>3. TypeFront' /\ TypeQuiche'
  BY <1>2, FrontTypes, QuicheTypes DEF IInv, TypeOK
<1>4. ASSUME NEW t \in Streams PROVE Chain(t)'
  <2>1. /\ Queues(t) /\ Handle(t) /\ EntryState(t) /\ Reported(t) /\ Entry(t) \in Entries
    BY Known
  <2>2. /\ Closes(t) /\ SameCmds(t) /\ SameFront(t) /\ SameQuiche(t) /\ submitted'[t] = submitted[t]
    BY <1>1, <1>2, CmdsStay, FrontStays DEF SameQuiche, quicheVars, SameFront
  <2>3. ClosedEntry(Entry(t)) \in Entries
    BY <2>1, ClosedFields
  <2>4. /\ OpsOf(t)' = <<>> /\ Entry(t)'.held = NoHeld
        /\ Entry(t)'.pending_reset = Entry(t).pending_reset
        /\ Entry(t)'.finished = Entry(t).finished /\ Entry(t)'.shared = Entry(t).shared
        /\ t \in DOMAIN send => Entry(t)'.terminal # "none"
        /\ t \notin DOMAIN send => Entry(t)'.terminal = "none"
    <3>1. CASE t \in DOMAIN send
      BY <2>1, <2>2, <3>1, ClosedFields DEF Closes, OpsOf
    <3>2. CASE t \notin DOMAIN send
      BY <2>2, <3>2 DEF Closes, OpsOf, Entry, NewState
    <3> QED BY <3>1, <3>2
  <2>5. /\ \A k : ~HasOp(OpsOf(t)', k) /\ OpsInOrder(OpsOf(t)') /\ \A g : OpsAre(OpsOf(t)', g)
    BY <2>4, OpNone
  <2>6. \A x : Wrote(t, x)' <=> Wrote(t, x)
    BY <2>2 DEF Wrote, SameQuiche
  <2>7. /\ \A o : Has(cmd, t, o)' <=> Has(cmd, t, o)
        /\ InOrder(cmd, t)' <=> InOrder(cmd, t)
        /\ \A g, k : SendsAre(cmd', t, g, k) <=> SendsAre(cmd, t, g, k)
    BY <1>2
  <2>8. Queues(t)'
    BY <2>1, <2>2, <2>4, <2>5, <2>6, <2>7 DEF Queues
  <2>9. Handle(t)'
    <3>1. status'[t] = status[t] \/ (status[t] = "none" /\ status'[t] # "none")
      BY <2>2 DEF Closes, ClosedStatus
    <3>2. Writing(t)' => Writing(t) /\ slot'[t] = slot[t]
      BY <2>1, <2>2, <2>5, <2>7 DEF Writing, Closes, Queues
    <3>3. Writing(t) /\ ~Writing(t)' /\ slot[t] = NoSlot => slot'[t] # NoSlot
      BY <2>2, <2>7 DEF Writing, Closes, NoSlot
    <3>4. slot[t] # NoSlot => slot'[t] # NoSlot
      BY <2>2 DEF Closes
    <3>5. (Finishing(t)' => Finishing(t)) /\ (Resetting(t)' => Resetting(t))
      BY <2>4, <2>5, <2>6, <2>7 DEF Finishing, Resetting
    <3> QED BY <2>1, <2>2, <3>1, <3>2, <3>3, <3>4, <3>5, HandleKeeps
  <2>10. EntryState(t)'
    <3>1. qsend'[t] = qsend[t] /\ recv' = recv /\ (t \in DOMAIN send' <=> t \in DOMAIN send)
      BY <1>2, <2>2 DEF SameQuiche, Closes
    <3>2. t \notin DOMAIN send => Entry(t).terminal = "none"
      BY DEF Entry, NewState
    <3> QED BY <2>1, <2>4, <2>6, <3>1, <3>2 DEF EntryState
  <2>11. Reported(t)'
    <3>1. (conn_terminal' => status'[t] # "none" \/ Wrote(t, FIN)')
            /\ (\/ Entry(t)'.shared /\ Entry(t)'.terminal = "none" /\ ~Entry(t)'.finished
                \/ status'[t] # "none" \/ Wrote(t, FIN)')
      <4>1. CASE t \in DOMAIN send /\ Entry(t).shared
        <5>1. status'[t] # "none"
          BY <2>2, <4>1 DEF Closes, ClosedStatus, Entry
        <5> QED BY <5>1
      <4>2. CASE t \in DOMAIN send /\ ~Entry(t).shared
        <5>1. status[t] # "none" \/ Wrote(t, FIN)
          BY <2>1, <4>2 DEF Reported
        <5>2. status[t] # "none" => status'[t] # "none"
          BY <2>2 DEF Closes, ClosedStatus
        <5> QED BY <2>6, <5>1, <5>2
      <4>3. CASE t \notin DOMAIN send
        <5>1. ~Entry(t).shared
          BY <4>3 DEF Entry, NewState
        <5>2. status[t] # "none" \/ Wrote(t, FIN)
          BY <2>1, <5>1 DEF Reported
        <5>3. status[t] # "none" => status'[t] # "none"
          BY <2>2 DEF Closes, ClosedStatus
        <5> QED BY <2>6, <5>2, <5>3
      <4> QED BY <4>1, <4>2, <4>3
    <3>2. /\ finslot'[t] = finslot[t] \/ finslot'[t] = "conn"
          /\ slot'[t] = slot[t] \/ slot'[t] = "conn"
          /\ failed'[t] = failed[t] /\ finish_result'[t] = finish_result[t]
      BY <2>2 DEF Closes, SameFront
    <3> QED BY <2>1, <2>6, <3>1, <3>2 DEF Reported
  <2> QED BY <2>8, <2>9, <2>10, <2>11 DEF Chain
<1> QED BY <1>1, <1>3, <1>4 DEF IInv, TypeOK

LEMMA CloseIngressStep ==
  ASSUME IInv, CloseIngress
  PROVE  IInv'
<1>0. TypeShared /\ TypeWorker /\ TypeQuiche /\ TypeFront /\ Stage
  BY DEF IInv, TypeOK
<1>1. /\ wpc = "close" /\ wpc' = "exited" /\ qconn' = "closed" /\ ingress' = FALSE /\ cmd' = <<>>
      /\ UNCHANGED frontVars /\ status' = status /\ send' = send /\ recv' = recv /\ admit' = admit
      /\ UNCHANGED <<runnable_send, needs_iteration, conn_terminal, left, cur, cap, granted, qsend, qarmed, wire>>
  BY DEF CloseIngress, regVars
<1>2. /\ slot' = [s \in Streams |->
            IF slot[s] = NoSlot /\ Has(cmd, s, "Send") THEN "conn" ELSE slot[s]]
      /\ finslot' = [s \in Streams |->
            IF finslot[s] = NoSlot /\ Has(cmd, s, "Finish") THEN "conn" ELSE finslot[s]]
  <2>1. \A s, o : (\E c \in Elems(cmd) : c.op = o /\ c.id = s) <=> Has(cmd, s, o)
    BY DEF Elems, Has
  <2> QED BY <2>1 DEF CloseIngress
<1>3. TypeFront'
  BY <1>0, <1>1, FrontTypes
<1>4. TypeShared'
  <2>1. "conn" \in Results
    BY DEF Results
  <2>2. slot' \in [Streams -> Results] /\ finslot' \in [Streams -> Results]
    BY <1>0, <1>2, <2>1 DEF TypeShared
  <2>3. ingress' \in BOOLEAN
    BY <1>1, Zenon
  <2> QED BY <1>0, <1>1, <2>2, <2>3 DEF TypeShared
<1>5. TypeWorker' /\ TypeQuiche' /\ Stage'
  <2>1. TypeWorker'
    BY <1>0, <1>1 DEF TypeWorker
  <2>2. TypeQuiche'
    BY <1>0, <1>1 DEF TypeQuiche
  <2>3. Stage'
    BY <1>0, <1>1 DEF Stage
  <2> QED BY <2>1, <2>2, <2>3
<1>6. ASSUME NEW t \in Streams PROVE Chain(t)'
  <2>1. /\ Queues(t) /\ Handle(t) /\ EntryState(t) /\ Reported(t)
    BY Known
  <2>2. /\ SameFront(t) /\ SameQuiche(t) /\ submitted'[t] = submitted[t] /\ SameEntry(t)
        /\ OpsOf(t)' = OpsOf(t) /\ Entry(t)' = Entry(t)
    BY <1>1, FrontStays, EntryStays DEF SameQuiche, SameFront, SameEntry, OpsOf
  <2>3. /\ \A o : ~Has(cmd', t, o) /\ InOrder(cmd', t) /\ \A g, k : SendsAre(cmd', t, g, k)
    BY <1>1 DEF Has, InOrder, SendsAre
  <2>4. \A x : Wrote(t, x)' <=> Wrote(t, x)
    BY <2>2 DEF Wrote, SameQuiche
  <2>5. Queues(t)'
    BY <2>1, <2>2, <2>3, <2>4 DEF Queues
  <2>6. OpsOf(t) = <<>>
    <3>1. CASE t \in DOMAIN send
      <4>1. Entry(t).terminal # "none"
        BY <1>0, <1>1, <3>1 DEF Stage, Entry
      <4> QED BY <2>1, <4>1 DEF EntryState
    <3>2. CASE t \notin DOMAIN send
      BY <3>2 DEF OpsOf, Entry, NewState
    <3> QED BY <3>1, <3>2
  <2>7. \A k : ~HasOp(OpsOf(t), k)
    BY <2>6, OpNone
  <2>8. Handle(t)'
    <3>1. ~Writing(t)'
      BY <2>2, <2>3, <2>7 DEF Writing
    <3>2. Writing(t) /\ slot[t] = NoSlot => slot'[t] # NoSlot
      BY <1>2, <2>7 DEF Writing, NoSlot
    <3>3. slot[t] # NoSlot => slot'[t] # NoSlot
      BY <1>2
    <3>4. (Finishing(t)' => Finishing(t)) /\ (Resetting(t)' => Resetting(t))
      BY <2>2, <2>3, <2>4 DEF Finishing, Resetting
    <3> QED BY <1>1, <2>1, <2>2, <3>1, <3>2, <3>3, <3>4, HandleKeeps
  <2>9. EntryState(t)'
    BY <1>1, <2>1, <2>2, EntrySame
  <2>10. Reported(t)'
    <3>1. /\ finslot'[t] = finslot[t] \/ finslot'[t] = "conn"
          /\ slot'[t] = slot[t] \/ slot'[t] = "conn"
          /\ failed'[t] = failed[t] /\ finish_result'[t] = finish_result[t]
      BY <1>2, <2>2 DEF SameFront
    <3> QED BY <1>1, <2>1, <2>2, <2>4, <3>1 DEF Reported
  <2> QED BY <2>5, <2>8, <2>9, <2>10 DEF Chain
<1> QED BY <1>3, <1>4, <1>5, <1>6 DEF IInv, TypeOK

-----------------------------------------------------------------------------
(* The invariant *)

\* What build_send leaves: a live entry, or none for a half already stopped.
LEMMA InitBuilt ==
  ASSUME Init
  PROVE  /\ status \in [Streams -> {"none", "stopped"}]
         /\ qsend \in [Streams -> {"open", "stopped"}] /\ qarmed \subseteq Streams
         /\ DOMAIN send \subseteq Streams /\ \A s \in DOMAIN send : send[s] = NewState(TRUE)
         /\ send \in [DOMAIN send -> {NewState(TRUE)}]
         /\ \A s \in Streams : s \in DOMAIN send \/ (status[s] = "stopped" /\ qsend[s] = "stopped")
         /\ \A s \in Streams : \E sh \in BOOLEAN :
              Entry(s) = NewState(sh) /\ (sh \/ (status[s] = "stopped" /\ qsend[s] = "stopped"))
<1>1. PICK retained : BuildSend(retained)
  BY DEF Init
<1>2. DOMAIN send = Streams \ retained /\ \A s \in DOMAIN send : send[s] = NewState(TRUE)
  BY <1>1 DEF BuildSend
<1>3. \A s \in Streams : s \in DOMAIN send \/ (status[s] = "stopped" /\ qsend[s] = "stopped")
  BY <1>1, <1>2 DEF BuildSend
<1>4. send \in [DOMAIN send -> {NewState(TRUE)}]
  BY <1>1 DEF BuildSend
<1>5. /\ status \in [Streams -> {"none", "stopped"}]
      /\ qsend \in [Streams -> {"open", "stopped"}] /\ qarmed \subseteq Streams
  BY <1>1 DEF BuildSend
<1>6. ASSUME NEW s \in Streams
      PROVE  \E sh \in BOOLEAN :
               Entry(s) = NewState(sh) /\ (sh \/ (status[s] = "stopped" /\ qsend[s] = "stopped"))
  <2>1. CASE s \in DOMAIN send
    <3>1. Entry(s) = NewState(TRUE)
      BY <1>2, <2>1 DEF Entry
    <3> QED BY <3>1, Zenon
  <2>2. CASE s \notin DOMAIN send
    <3>1. Entry(s) = NewState(FALSE)
      BY <2>2, Zenon DEF Entry
    <3> QED BY <1>3, <2>2, <3>1, Zenon
  <2> QED BY <2>1, <2>2
<1> QED BY <1>2, <1>3, <1>4, <1>5, <1>6

LEMMA InitInvariant == Init => IInv
<1> SUFFICES ASSUME Init PROVE IInv
  OBVIOUS
<1> USE InitBuilt
<1>1. /\ fpc = [s \in Streams |-> "idle"] /\ submitted = [s \in Streams |-> <<>>]
      /\ finalized = [s \in Streams |-> FALSE] /\ local_terminal = [s \in Streams |-> "none"]
      /\ finish_result = [s \in Streams |-> NoSlot] /\ failed = [s \in Streams |-> NoSlot]
      /\ size = [s \in Streams |-> 0]
      /\ slot = [s \in Streams |-> NoSlot] /\ finslot = [s \in Streams |-> NoSlot]
      /\ cmd = <<>> /\ ingress = TRUE
      /\ conn_terminal = FALSE /\ wpc = "wait" /\ wire = [s \in Streams |-> <<>>]
  BY DEF Init
<1>2. TypeFront
  <2>1. "none" \in Ends /\ NoSlot \in Results /\ <<>> \in Seq(Nat)
    BY DEF Ends, Results
  <2>2. finalized \in [Streams -> BOOLEAN]
    BY <1>1, Zenon
  <2> QED BY <1>1, <2>1, <2>2 DEF TypeFront
<1>3. TypeShared
  <2>1. "none" \in Ends /\ "stopped" \in Ends /\ NoSlot \in Results /\ <<>> \in Seq(Commands)
    BY DEF Ends, Results
  <2>2. ingress \in BOOLEAN
    BY <1>1, Zenon
  <2> QED BY <1>1, <2>1, <2>2 DEF TypeShared
<1>4. TypeWorker
  <2>1. NewState(TRUE) \in Entries
    BY DEF NewState, Entries, Ends, NoHeld
  <2>2. DOMAIN send \subseteq Streams /\ send \in [DOMAIN send -> Entries]
    BY <2>1
  <2>3. recv \subseteq Bidi /\ DOMAIN admit \subseteq Bidi
    BY DEF Init
  <2>4. needs_iteration \in BOOLEAN /\ conn_terminal \in BOOLEAN
    BY Zenon DEF Init
  <2>5. runnable_send \in Seq(Streams) /\ left \in Nat /\ cur \in Streams \cup {NoStream}
    BY DEF Init
  <2> QED BY <1>1, <2>2, <2>3, <2>4, <2>5 DEF TypeWorker
<1>5. TypeQuiche
  <2>1. <<>> \in Seq(Nat \cup {RESET})
    OBVIOUS
  <2>2. cap \in Nat /\ granted \in Nat /\ qconn = "open"
    BY SendBoundsAssumption DEF Init
  <2> QED BY <1>1, <2>1, <2>2 DEF TypeQuiche
<1>6. Stage
  BY <1>1 DEF Stage
<1>7. ASSUME NEW s \in Streams PROVE Chain(s)
  <2>1. PICK sh \in BOOLEAN :
          Entry(s) = NewState(sh) /\ (sh \/ (status[s] = "stopped" /\ qsend[s] = "stopped"))
    OBVIOUS
  <2>2. /\ ~Entry(s).pending_reset /\ Entry(s).terminal = "none" /\ ~Entry(s).finished
        /\ Entry(s).held = NoHeld /\ OpsOf(s) = <<>> /\ Entry(s).shared = sh
    BY <2>1 DEF NewState, OpsOf
  <2>11. Entry(s).shared \/ (status[s] = "stopped" /\ qsend[s] = "stopped")
    BY <2>1, <2>2, Zenon
  <2>3. /\ \A o : ~Has(cmd, s, o) /\ InOrder(cmd, s) /\ \A g, k : SendsAre(cmd, s, g, k)
    BY <1>1 DEF Has, InOrder, SendsAre
  <2>4. \A x : ~Wrote(s, x)
    BY <1>1 DEF Wrote, Elems
  <2>5. /\ \A k : ~HasOp(OpsOf(s), k) /\ OpsInOrder(OpsOf(s)) /\ \A g : OpsAre(OpsOf(s), g)
    BY <2>2, OpNone
  <2>6. Queues(s)
    BY <2>2, <2>3, <2>4, <2>5 DEF Queues
  <2>7. ~Writing(s) /\ ~Finishing(s) /\ ~Resetting(s)
    BY <2>2, <2>3, <2>4, <2>5 DEF Writing, Finishing, Resetting
  <2>8. Handle(s)
    BY <1>1, <2>7 DEF Handle
  <2>9. EntryState(s)
    BY <2>2, <2>4, <2>11 DEF EntryState
  <2>10. Reported(s)
    BY <1>1, <2>2, <2>11 DEF Reported, NoSlot
  <2> QED BY <2>6, <2>8, <2>9, <2>10 DEF Chain
<1> QED BY <1>2, <1>3, <1>4, <1>5, <1>6, <1>7 DEF IInv, TypeOK

LEMMA StutterStep ==
  ASSUME IInv, UNCHANGED vars
  PROVE  IInv'
<1>1. /\ UNCHANGED frontVars /\ UNCHANGED sharedVars /\ UNCHANGED quicheVars
      /\ UNCHANGED <<regVars, runnable_send, needs_iteration, conn_terminal, loopVars>>
  BY DEF vars
<1>2. TypeOK'
  BY <1>1, FrontTypes, SharedTypes, QuicheTypes, WorkerTypes DEF IInv, TypeOK
<1>3. /\ cmd' = cmd /\ send' = send /\ recv' = recv /\ conn_terminal' = conn_terminal /\ wpc' = wpc
      /\ cur' = cur /\ qconn' = qconn /\ ingress' = ingress
      /\ UNCHANGED <<status, slot, finslot, qsend, wire>>
  BY <1>1 DEF sharedVars, regVars, loopVars, quicheVars
<1>4. Stage'
  BY <1>3 DEF IInv, Stage
<1>5. ASSUME NEW t \in Streams PROVE Chain(t)'
  <2>1. Same(t)
    BY <1>1, <1>3, CmdsStay, EntryStays, FrontStays DEF Same, SameCells, SameQuiche
  <2> QED BY <1>3, <2>1, SameChain DEF IInv
<1> QED BY <1>2, <1>4, <1>5 DEF IInv

LEMMA TurnSteps ==
  ASSUME IInv, Turn
  PROVE  IInv'
BY TurnResetStep, TurnErrorStep, FlushHeldStep, HoldWriteStep, PartialWriteStep, LoneFinStep DEF Turn

LEMMA WorkerSteps ==
  ASSUME IInv, Worker
  PROVE  IInv'
<1>1. CASE NoPacketIteration \/ FlushQuiescent \/ EndApply \/ EndWritable \/ BeginTurn \/ EndSend
  BY <1>1, LoopSteps
<1>2. CASE apply_inbox
  BY <1>2, InboxStep
<1>3. CASE \E s \in Streams : stage_writable(s)
  BY <1>3, WritableStep
<1>4. CASE Turn
  BY <1>4, TurnSteps
<1>5. CASE ClosePublish \/ CloseIngress
  BY <1>5, ClosePublishStep, CloseIngressStep
<1> QED BY <1>1, <1>2, <1>3, <1>4, <1>5 DEF Worker

LEMMA StepInvariant == IInv /\ [Next]_vars => IInv'
<1> SUFFICES ASSUME IInv, [Next]_vars PROVE IInv'
  OBVIOUS
<1>1. CASE Worker
  BY <1>1, WorkerSteps
<1>2. CASE Peer
  <2>1. CASE GrantCredit \/ ConnectionClosing
    BY <2>1, LoopSteps
  <2>2. CASE \E s \in Streams : PeerStops(s) \/ Collect(s) \/ mark_recv_done(s)
    BY <2>2, PeerSteps, RecvDoneStep
  <2> QED BY <1>2, <2>1, <2>2 DEF Peer
<1>3. ASSUME NEW s \in Streams,
             \/ Polls(s) \/ StartFinish(s) \/ CallReset(s) \/ DropHandle(s)
             \/ \E k \in Sizes : StartWrite(s, k)
      PROVE  IInv'
  BY <1>3, FlushWriteStep, PollWriteStep, FlushFinishStep, PollFinishStep, StartFinishStep,
     CallResetStep, DropHandleStep, StartWriteStep DEF Polls
<1>4. CASE UNCHANGED vars
  BY <1>4, StutterStep
<1> QED BY <1>1, <1>2, <1>3, <1>4 DEF Next

\* The inductive invariant holds of the send path: what the channel, the
\* queue, the registry, the cells and the wire of every stream say of each
\* other, through every interleaving of front end, worker, peer and close.
THEOREM Invariant == Spec => []IInv
<1>1. Init => IInv
  BY InitInvariant
<1>2. IInv /\ [Next]_vars => IInv'
  BY StepInvariant
<1> QED BY <1>1, <1>2, PTL DEF Spec

\* The variables keep their types, and no call offers quiche more than the
\* capacity it reported: cap stays a natural number through Transmit.
THEOREM TypeCorrect == Spec => []TypeOK
<1>1. IInv => TypeOK
  BY DEF IInv
<1> QED BY <1>1, Invariant, PTL

\* poll_finish answers Ok only if the transport accepted the FIN, and neither
\* poll_ready nor poll_finish falls back to the internal error of
\* sticky_or_internal, however it races the close.
THEOREM AnswersTrue == Spec => []AnswersAreTrue
<1>1. IInv => AnswersAreTrue
  <2> SUFFICES ASSUME IInv, NEW s \in Streams
               PROVE  /\ finish_result[s] = "ok" => FIN \in Elems(wire[s])
                      /\ failed[s] # "internal" /\ finish_result[s] # "internal"
    BY DEF AnswersAreTrue
  <2>1. Reported(s)
    BY Known
  <2> QED BY <2>1 DEF Reported, Wrote
<1> QED BY <1>1, Invariant, PTL

\* reclaim_finished_send leaves no entry behind once the FIN was accepted and
\* the receive half is gone.
THEOREM FinishedReclaimed == Spec => []FinishedIsReclaimed
<1>1. IInv => FinishedIsReclaimed
  <2> SUFFICES ASSUME IInv, NEW s \in Streams, FIN \in Elems(wire[s]), s \notin recv
               PROVE  s \notin DOMAIN send
    BY DEF FinishedIsReclaimed
  <2>1. EntryState(s)
    BY Known
  <2> QED BY <2>1 DEF EntryState, Wrote
<1> QED BY <1>1, Invariant, PTL

\* The places where a write of s may wait.
LEMMA OneSend ==
  ASSUME IInv, NEW s \in Streams
  PROVE  LET queued == {i \in DOMAIN cmd : cmd[i].id = s /\ cmd[i].op = "Send"} IN
         Cardinality(queued) = IF Has(cmd, s, "Send") THEN 1 ELSE 0
<1> DEFINE queued == {i \in DOMAIN cmd : cmd[i].id = s /\ cmd[i].op = "Send"}
<1>1. CASE ~Has(cmd, s, "Send")
  <2>1. queued = {}
    BY <1>1 DEF Has
  <2> QED BY <1>1, <2>1, FS_EmptySet
<1>2. CASE Has(cmd, s, "Send")
  <2>1. PICK i \in DOMAIN cmd : cmd[i].id = s /\ cmd[i].op = "Send"
    BY <1>2 DEF Has
  <2>2. ASSUME NEW j \in DOMAIN cmd, cmd[j].id = s, cmd[j].op = "Send" PROVE j = i
    <3>1. InOrder(cmd, s) /\ cmd \in Seq(Commands)
      BY Known DEF Queues, TypeShared
    <3>2. i \in Nat /\ j \in Nat
      BY <3>1
    <3>3. ~(i < j) /\ ~(j < i)
      BY <2>1, <2>2, <3>1 DEF InOrder
    <3> QED BY <3>2, <3>3
  <2>3. queued = {i}
    BY <2>1, <2>2
  <2> QED BY <1>2, <2>3, FS_Singleton
<1> QED BY <1>1, <1>2

LEMMA OneWrite ==
  ASSUME IInv, NEW s \in Streams
  PROVE  LET ops == IF s \in DOMAIN send
                      THEN {i \in DOMAIN send[s].send_ops : send[s].send_ops[i].kind = "write"}
                      ELSE {} IN
         Cardinality(ops) = IF HasOp(OpsOf(s), "write") THEN 1 ELSE 0
<1> DEFINE ops == IF s \in DOMAIN send
                    THEN {i \in DOMAIN send[s].send_ops : send[s].send_ops[i].kind = "write"}
                    ELSE {}
           here == {i \in DOMAIN OpsOf(s) : OpsOf(s)[i].kind = "write"}
<1>1. ops = here
  <2>1. CASE s \in DOMAIN send
    BY <2>1 DEF OpsOf, Entry
  <2>2. CASE s \notin DOMAIN send
    <3>1. OpsOf(s) = <<>>
      BY <2>2 DEF OpsOf, Entry, NewState
    <3>2. DOMAIN OpsOf(s) = {}
      BY <3>1
    <3> QED BY <2>2, <3>2
  <2> QED BY <2>1, <2>2
<1>2. CASE ~HasOp(OpsOf(s), "write")
  <2>1. here = {}
    BY <1>2 DEF HasOp
  <2> QED BY <1>1, <1>2, <2>1, FS_EmptySet
<1>3. CASE HasOp(OpsOf(s), "write")
  <2>1. OpsInOrder(OpsOf(s))
    BY Known DEF Queues
  <2>2. here = {1}
    BY <1>3, <2>1 DEF HasOp, OpsInOrder
  <2> QED BY <1>1, <1>3, <2>2, FS_Singleton
<1> QED BY <1>2, <1>3

\* Exactly-once completion: the write a front end waits for is in the command
\* channel, in the stream's queue or in its completion slot, and in one of
\* them only.
THEOREM InFlightOnce == Spec => []InFlightAccounted
<1>1. IInv => InFlightAccounted
  <2> SUFFICES ASSUME IInv, NEW s \in Streams, fpc[s] = "inflight"
               PROVE  LET queued == {i \in DOMAIN cmd : cmd[i].id = s /\ cmd[i].op = "Send"}
                          ops == IF s \in DOMAIN send
                                   THEN {i \in DOMAIN send[s].send_ops : send[s].send_ops[i].kind = "write"}
                                   ELSE {} IN
                      Cardinality(queued) + Cardinality(ops) + (IF slot[s] = NoSlot THEN 0 ELSE 1) = 1
    BY DEF InFlightAccounted
  <2>1. Queues(s) /\ Handle(s)
    BY Known
  <2>2. (IF Has(cmd, s, "Send") THEN 1 ELSE 0) + (IF HasOp(OpsOf(s), "write") THEN 1 ELSE 0)
          + (IF slot[s] = NoSlot THEN 0 ELSE 1) = 1
    BY <2>1 DEF Queues, Handle, Writing
  <2> QED BY <2>2, OneSend, OneWrite
<1> QED BY <1>1, Invariant, PTL

-----------------------------------------------------------------------------
(* What a turn does, for the round robin and for the bytes *)

\* The frame of a turn of s that quiche answers.
TurnFrame(s) ==
  /\ cur = s /\ wpc = "turn" /\ s \in DOMAIN send
  /\ ~Entry(s).pending_reset /\ Entry(s).terminal = "none" /\ qsend[s] = "open"
  /\ cmd' = cmd /\ submitted' = submitted /\ conn_terminal' = conn_terminal /\ qconn' = qconn
  /\ \A t \in Streams : t # s => SameEntry(t) /\ SameQuiche(t) /\ (t \in qarmed' <=> t \in qarmed)

\* The entry of s after a turn that did not end it.
StillLive(s) ==
  /\ s \in DOMAIN send' /\ ~Entry(s)'.pending_reset /\ Entry(s)'.terminal = "none"
  /\ Entry(s)'.finished = Entry(s).finished /\ Entry(s)'.shared = Entry(s).shared

\* A finish that was serviced.
FinDone(s) == Drop /\ qsend'[s] = "fin" /\ (Removed(s) \/ Updated(s, Done(Entry(s))))

Held(s) ==
  /\ Entry(s).held = NoHeld /\ OpsOf(s) # <<>> /\ Head(OpsOf(s)).kind = "write"
  /\ OpsOf(s)' = Tail(OpsOf(s)) /\ Head(OpsOf(s)).rem > 0
  /\ Entry(s)'.held = [n |-> Head(OpsOf(s)).n, rem |-> Head(OpsOf(s)).rem]
  /\ wire' = wire /\ qsend' = qsend /\ AfterPop(Entry(s)')

LEMMA HoldIs ==
  ASSUME IInv, HoldWrite
  PROVE  \E s \in Streams : TurnFrame(s) /\ StillLive(s) /\ Held(s)
<1>1. PICK s \in DOMAIN send :
        /\ cur = s /\ s \in Streams /\ send[s] = Entry(s) /\ wpc = "turn"
        /\ ~Entry(s).pending_reset /\ Entry(s).terminal = "none" /\ qsend[s] = "open"
  BY WorkingIs DEF HoldWrite, HeadIs
<1> DEFINE op == Head(OpsOf(s))
           e == Holding(Entry(s))
<1>2. /\ OpsOf(s) # <<>> /\ op.kind = "write" /\ op.rem > 0 /\ Entry(s).held = NoHeld
      /\ send' = [send EXCEPT ![s] = e] /\ AfterPop(e)
      /\ UNCHANGED <<frontVars, cmd, conn_terminal, quicheVars>>
  BY <1>1 DEF HoldWrite, HeadIs, OpsOf, Holding, HasHeld
<1>3. op \in Ops /\ Tail(OpsOf(s)) \in Seq(Ops)
  BY <1>1, <1>2, HeadWrite
<1>4. TypeWorker /\ Entry(s) \in Entries
  BY <1>1, Known
<1>5. /\ e \in Entries /\ e.send_ops = Tail(OpsOf(s)) /\ e.pending_reset = Entry(s).pending_reset
      /\ e.terminal = Entry(s).terminal /\ e.finished = Entry(s).finished
      /\ e.held = [n |-> op.n, rem |-> op.rem] /\ e.shared = Entry(s).shared
  <2>1. Head(Entry(s).send_ops) = op /\ Tail(Entry(s).send_ops) = Tail(OpsOf(s))
    BY DEF OpsOf
  <2> HIDE DEF op
  <2>2. [n |-> op.n, rem |-> op.rem] \in [n : Nat, rem : Nat]
    BY <1>3 DEF Ops
  <2> QED BY <1>3, <1>4, <2>1, <2>2 DEF Holding, Entries
<1> HIDE DEF e
<1>6. Updated(s, e)
  BY <1>1, <1>2, <1>4, <1>5, SetEntry
<1>7. Entry(s)' = e /\ s \in DOMAIN send' /\ \A t \in Streams : t # s => SameEntry(t)
  BY <1>6 DEF Updated
<1>8. /\ wire' = wire /\ qsend' = qsend /\ qarmed' = qarmed /\ qconn' = qconn /\ submitted' = submitted
      /\ cmd' = cmd /\ conn_terminal' = conn_terminal
  BY <1>2 DEF quicheVars, frontVars
<1>9. TurnFrame(s)
  BY <1>1, <1>7, <1>8 DEF TurnFrame, SameQuiche
<1>10. StillLive(s)
  BY <1>1, <1>5, <1>7 DEF StillLive
<1>11. AfterPop(Entry(s)')
  BY <1>2, <1>7 DEF AfterPop
<1>12. OpsOf(s)' = Tail(OpsOf(s))
  BY <1>5, <1>7 DEF OpsOf
<1>13. Held(s)
  BY <1>2, <1>5, <1>7, <1>8, <1>11, <1>12 DEF Held
<1> QED BY <1>1, <1>9, <1>10, <1>13

\* n units of the head write went out.
Written(s, n) ==
  /\ Entry(s).held = NoHeld /\ Entry(s)'.held = NoHeld
  /\ OpsOf(s) # <<>> /\ Head(OpsOf(s)).kind = "write"
  /\ wire' = [wire EXCEPT ![s] = Grown(wire[s], Head(OpsOf(s)).n, n, <<>>)] /\ qsend' = qsend
  /\ \/ /\ Head(OpsOf(s)).rem = n /\ OpsOf(s)' = Tail(OpsOf(s))
        /\ AfterPop(Entry(s)')
     \/ /\ Head(OpsOf(s)).rem > n /\ OpsOf(s)' = [OpsOf(s) EXCEPT ![1].rem = Head(OpsOf(s)).rem - n]
        /\ OpsOf(s)' # <<>> /\ (Requeue \/ Park)

LEMMA PartialIs ==
  ASSUME IInv, PartialWrite
  PROVE  \E s \in Streams : TurnFrame(s) /\ StillLive(s) /\ \E n \in Nat : Written(s, n)
<1>1. PICK s \in DOMAIN send :
        /\ cur = s /\ s \in Streams /\ send[s] = Entry(s) /\ wpc = "turn"
        /\ ~Entry(s).pending_reset /\ Entry(s).terminal = "none" /\ qsend[s] = "open"
  BY WorkingIs DEF PartialWrite, HeadIs
<1> DEFINE op == Head(OpsOf(s))
           offered == Least(op.rem, MAX_WRITE_CHUNK)
           n == Least(offered, cap)
<1>2. /\ OpsOf(s) # <<>> /\ op.kind = "write" /\ Transmit(s, op.n, n, FALSE) /\ Entry(s).held = NoHeld
      /\ \/ /\ op.rem = n
            /\ send' = [send EXCEPT ![s] = Popped(Entry(s))]
            /\ AfterPop(Popped(Entry(s))) /\ UNCHANGED qarmed
         \/ /\ op.rem > n
            /\ send' = [send EXCEPT ![s].send_ops[1].rem = op.rem - n]
            /\ IF n = offered THEN Requeue /\ UNCHANGED qarmed ELSE Park
      /\ UNCHANGED <<frontVars, cmd, conn_terminal, qconn>>
  BY <1>1 DEF PartialWrite, HeadIs, OpsOf, Popped, HasHeld
<1>3. op \in Ops /\ op.rem \in Nat /\ Tail(OpsOf(s)) \in Seq(Ops)
  BY <1>1, <1>2, HeadWrite
<1>4. TypeWorker /\ TypeQuiche /\ Entry(s) \in Entries /\ OpsOf(s) \in Seq(Ops) /\ Queues(s)
  BY <1>1, Known
<1>5. n \in Nat /\ op.rem - n \in Nat
  BY <1>3, <1>4, Offered, SendBoundsAssumption DEF TypeQuiche
<1> HIDE DEF n, offered
<1>6. /\ wire' = [wire EXCEPT ![s] = Grown(wire[s], op.n, n, <<>>)] /\ qsend' = qsend
  BY <1>2 DEF Transmit, Grown
<1>7. \A t \in Streams : t # s => SameQuiche(t)
  BY <1>4, <1>6 DEF TypeQuiche, SameQuiche
<1>8. cmd' = cmd /\ submitted' = submitted /\ conn_terminal' = conn_terminal /\ qconn' = qconn
  BY <1>2 DEF frontVars
<1>9. ASSUME NEW e \in Entries, send' = [send EXCEPT ![s] = e], e.pending_reset = Entry(s).pending_reset,
             e.terminal = Entry(s).terminal, e.finished = Entry(s).finished, e.shared = Entry(s).shared,
             \A t \in Streams : t # s => (t \in qarmed' <=> t \in qarmed)
      PROVE  TurnFrame(s) /\ StillLive(s) /\ Entry(s)' = e
  <2>1. Updated(s, e)
    BY <1>1, <1>4, <1>9, SetEntry
  <2>2. Entry(s)' = e /\ s \in DOMAIN send' /\ \A t \in Streams : t # s => SameEntry(t)
    BY <2>1 DEF Updated
  <2> QED BY <1>1, <1>7, <1>8, <1>9, <2>2 DEF TurnFrame, StillLive
<1>10. CASE /\ op.rem = n
            /\ send' = [send EXCEPT ![s] = Popped(Entry(s))]
            /\ AfterPop(Popped(Entry(s))) /\ UNCHANGED qarmed
  <2> DEFINE e == Popped(Entry(s))
  <2>1. /\ e \in Entries /\ e.send_ops = Tail(OpsOf(s)) /\ e.pending_reset = Entry(s).pending_reset
        /\ e.terminal = Entry(s).terminal /\ e.finished = Entry(s).finished
        /\ e.held = Entry(s).held /\ e.shared = Entry(s).shared
    BY <1>3, <1>4 DEF Popped, Entries, OpsOf
  <2>2. send' = [send EXCEPT ![s] = e] /\ AfterPop(e)
    BY <1>10
  <2> HIDE DEF e, op
  <2>3. TurnFrame(s) /\ StillLive(s) /\ Entry(s)' = e
    BY <1>9, <1>10, <2>1, <2>2
  <2>4. AfterPop(Entry(s)') /\ OpsOf(s)' = Tail(OpsOf(s)) /\ Entry(s)'.held = NoHeld
    BY <1>2, <2>1, <2>2, <2>3 DEF AfterPop, OpsOf
  <2>5. Written(s, n)
    BY <1>2, <1>6, <1>10, <2>4 DEF Written, op
  <2> QED BY <1>1, <1>5, <2>3, <2>5
<1>11. CASE /\ op.rem > n
            /\ send' = [send EXCEPT ![s].send_ops[1].rem = op.rem - n]
            /\ IF n = offered THEN Requeue /\ UNCHANGED qarmed ELSE Park
  <2> DEFINE k == op.rem - n
             ops == [OpsOf(s) EXCEPT ![1].rem = k]
             e == [Entry(s) EXCEPT !.send_ops = ops]
  <2>1. send' = [send EXCEPT ![s] = e]
    BY <1>1, <1>11 DEF OpsOf
  <2> HIDE DEF k
  <2>2. k \in Nat
    BY <1>5 DEF k
  <2>3. OpsInOrder(OpsOf(s))
    BY <1>4 DEF Queues
  <2>4. /\ ops \in Seq(Ops) /\ \A x : HasOp(ops, x) <=> HasOp(OpsOf(s), x)
    BY <1>2, <1>4, <2>2, <2>3, OpShorten
  <2>5. ops # <<>>
    <3>1. HasOp(OpsOf(s), "write")
      BY <1>1, <1>2, HeadWrite
    <3> HIDE DEF ops
    <3> QED BY <2>4, <3>1, OpNone
  <2> HIDE DEF ops
  <2>6. /\ e \in Entries /\ e.send_ops = ops /\ e.pending_reset = Entry(s).pending_reset
        /\ e.terminal = Entry(s).terminal /\ e.finished = Entry(s).finished
        /\ e.held = Entry(s).held /\ e.shared = Entry(s).shared
    BY <1>4, <2>4 DEF Entries
  <2> HIDE DEF e, op
  <2>7. (Requeue \/ Park) /\ \A t \in Streams : t # s => (t \in qarmed' <=> t \in qarmed)
    BY <1>1, <1>11 DEF Park
  <2>8. TurnFrame(s) /\ StillLive(s) /\ Entry(s)' = e
    BY <1>9, <2>1, <2>6, <2>7
  <2>9. OpsOf(s)' = ops /\ Entry(s)'.held = NoHeld
    BY <1>2, <2>6, <2>8 DEF OpsOf
  <2>10. OpsOf(s)' = [OpsOf(s) EXCEPT ![1].rem = op.rem - n]
    BY <2>9 DEF ops, k
  <2>11. Written(s, n)
    BY <1>2, <1>6, <1>11, <2>5, <2>7, <2>9, <2>10 DEF Written, op
  <2> QED BY <1>1, <1>5, <2>8, <2>11
<1> QED BY <1>2, <1>10, <1>11

\* The registry after complete_finish_op.
LEMMA DoneIs ==
  ASSUME IInv, NEW s \in DOMAIN send, OpsOf(s) # <<>>,
         send' = Remove(send, s) \/ send' = [send EXCEPT ![s] = Done(Entry(s))]
  PROVE  Removed(s) \/ Updated(s, Done(Entry(s)))
<1>1. s \in Streams /\ TypeWorker
  BY DEF IInv, TypeOK, TypeWorker
<1>2. Entry(s) \in Entries /\ OpsOf(s) \in Seq(Ops)
  BY <1>1, Known
<1>3. Tail(OpsOf(s)) \in Seq(Ops)
  BY <1>2
<1>4. NoHeld \in [n : Nat, rem : Nat]
  BY DEF NoHeld
<1>5. Done(Entry(s)) \in Entries
  BY <1>2, <1>3, <1>4 DEF Done, Entries, OpsOf
<1>6. CASE send' = Remove(send, s)
  BY <1>1, <1>6, RemoveEntry
<1>7. CASE send' = [send EXCEPT ![s] = Done(Entry(s))]
  BY <1>1, <1>5, <1>7, SetEntry
<1> QED BY <1>6, <1>7

\* The FIN went alone.
Alone(s) ==
  /\ Entry(s).held = NoHeld /\ OpsOf(s) # <<>> /\ Head(OpsOf(s)).kind = "finish"
  /\ wire' = [wire EXCEPT ![s] = Grown(wire[s], FIN, 0, <<FIN>>)] /\ FinDone(s)

LEMMA LoneFinIs ==
  ASSUME IInv, LoneFin
  PROVE  \E s \in Streams : TurnFrame(s) /\ Alone(s)
<1>1. PICK s \in DOMAIN send :
        /\ cur = s /\ s \in Streams /\ send[s] = Entry(s) /\ wpc = "turn"
        /\ ~Entry(s).pending_reset /\ Entry(s).terminal = "none" /\ qsend[s] = "open"
  BY WorkingIs DEF LoneFin, HeadIs
<1>2. /\ OpsOf(s) # <<>> /\ Head(OpsOf(s)).kind = "finish" /\ Transmit(s, FIN, 0, TRUE)
      /\ Entry(s).held = NoHeld
      /\ FinishOpDone(send[s]) /\ Drop /\ qarmed' = qarmed \ {s}
      /\ UNCHANGED <<frontVars, cmd, conn_terminal, qconn>>
  BY <1>1 DEF LoneFin, HeadIs, OpsOf, HasHeld
<1>3. Removed(s) \/ Updated(s, Done(Entry(s)))
  <2>1. send' = Remove(send, s) \/ send' = [send EXCEPT ![s] = Done(Entry(s))]
    BY <1>1, <1>2, FinishOpIs
  <2> QED BY <1>1, <1>2, <2>1, DoneIs
<1>4. TypeQuiche
  BY <1>1, Known
<1>5. /\ wire' = [wire EXCEPT ![s] = Grown(wire[s], FIN, 0, <<FIN>>)]
      /\ qsend' = [qsend EXCEPT ![s] = "fin"]
  BY <1>2 DEF Transmit, Grown
<1>6. qsend'[s] = "fin" /\ \A t \in Streams : t # s => SameQuiche(t)
  BY <1>1, <1>4, <1>5 DEF TypeQuiche, SameQuiche
<1>7. cmd' = cmd /\ submitted' = submitted /\ conn_terminal' = conn_terminal /\ qconn' = qconn
  BY <1>2 DEF frontVars
<1>8. \A t \in Streams : t # s => SameEntry(t)
  BY <1>3 DEF Updated, Removed
<1>9. TurnFrame(s)
  BY <1>1, <1>2, <1>6, <1>7, <1>8 DEF TurnFrame
<1>10. Alone(s)
  BY <1>2, <1>3, <1>5, <1>6 DEF Alone, FinDone
<1> QED BY <1>1, <1>9, <1>10

\* n units of the held write went out.
Flushed(s, n) ==
  /\ Entry(s).held # NoHeld /\ n <= Entry(s).held.rem
  /\ \/ /\ n = Entry(s).held.rem /\ OpsOf(s) # <<>> /\ Head(OpsOf(s)).kind = "finish"
        /\ wire' = [wire EXCEPT ![s] = Grown(wire[s], Entry(s).held.n, n, <<FIN>>)] /\ FinDone(s)
     \/ /\ StillLive(s) /\ OpsOf(s)' = OpsOf(s) /\ qsend' = qsend
        /\ wire' = [wire EXCEPT ![s] = Grown(wire[s], Entry(s).held.n, n, <<>>)]
        /\ \/ /\ n = Entry(s).held.rem /\ Entry(s)'.held = NoHeld
              /\ OpsOf(s) = <<>> => Drop
              /\ OpsOf(s) # <<>> => UNCHANGED <<wpc, cur, runnable_send, needs_iteration>>
           \/ /\ n < Entry(s).held.rem
              /\ Entry(s)'.held = [n |-> Entry(s).held.n, rem |-> Entry(s).held.rem - n]
              /\ Requeue \/ Park

LEMMA FlushIs ==
  ASSUME IInv, FlushHeld
  PROVE  \E s \in Streams : TurnFrame(s) /\ \E n \in Nat : Flushed(s, n)
<1>1. PICK s \in DOMAIN send :
        /\ cur = s /\ s \in Streams /\ send[s] = Entry(s) /\ wpc = "turn"
        /\ ~Entry(s).pending_reset /\ Entry(s).terminal = "none" /\ qsend[s] = "open"
  BY WorkingIs DEF FlushHeld
<1> DEFINE h == Entry(s).held
           offered == Least(h.rem, MAX_WRITE_CHUNK)
           n == Least(offered, cap)
           fin == OpsOf(s) # <<>> /\ Head(OpsOf(s)).kind = "finish"
<1>2. /\ h # NoHeld /\ Transmit(s, h.n, n, FinRides(Entry(s), n))
      /\ \/ /\ h.rem - n = 0 /\ fin /\ FinishOpDone(send[s]) /\ Drop /\ qarmed' = qarmed \ {s}
         \/ /\ h.rem - n = 0 /\ ~fin
            /\ send' = [send EXCEPT ![s].held = NoHeld]
            /\ IF OpsOf(s) = <<>>
                 THEN Drop
                 ELSE UNCHANGED <<wpc, cur, runnable_send, needs_iteration>>
            /\ UNCHANGED <<admit, slot, finslot, qarmed>>
         \/ /\ h.rem - n > 0
            /\ send' = [send EXCEPT ![s].held.rem = h.rem - n]
            /\ IF n = offered THEN Requeue /\ UNCHANGED qarmed ELSE Park
            /\ UNCHANGED <<admit, slot, finslot>>
      /\ UNCHANGED <<frontVars, cmd, conn_terminal, qconn>>
  BY <1>1 DEF FlushHeld, HasHeld, OpsOf
<1>3. TypeWorker /\ TypeQuiche /\ Entry(s) \in Entries /\ OpsOf(s) \in Seq(Ops)
  BY <1>1, Known
<1>4. h \in [n : Nat, rem : Nat] /\ h.n \in Nat /\ h.rem \in Nat /\ h = [n |-> h.n, rem |-> h.rem]
  <2>1. h \in [n : Nat, rem : Nat]
    BY <1>3, EntryFields
  <2> HIDE DEF h
  <2> QED BY <2>1
<1>5. n \in Nat /\ h.rem - n \in Nat /\ n <= h.rem
  BY <1>3, <1>4, Offered, SendBoundsAssumption DEF TypeQuiche
<1> HIDE DEF n, offered
<1>6. FinRides(Entry(s), n) <=> fin /\ n = h.rem
  BY DEF FinRides, OpsOf
<1>7. cmd' = cmd /\ submitted' = submitted /\ conn_terminal' = conn_terminal /\ qconn' = qconn
  BY <1>2 DEF frontVars
<1>8. CASE h.rem - n = 0 /\ fin /\ FinishOpDone(send[s]) /\ Drop /\ qarmed' = qarmed \ {s}
  <2>1. n = h.rem
    BY <1>4, <1>5, <1>8
  <2>2. Transmit(s, h.n, n, TRUE)
    BY <1>2, <1>6, <1>8, <2>1 DEF Transmit
  <2>3. /\ wire' = [wire EXCEPT ![s] = Grown(wire[s], h.n, n, <<FIN>>)]
        /\ qsend' = [qsend EXCEPT ![s] = "fin"]
    BY <2>2 DEF Transmit, Grown
  <2>4. qsend'[s] = "fin" /\ \A t \in Streams : t # s => SameQuiche(t)
    BY <1>1, <1>3, <2>3 DEF TypeQuiche, SameQuiche
  <2>5. Removed(s) \/ Updated(s, Done(Entry(s)))
    <3>1. send' = Remove(send, s) \/ send' = [send EXCEPT ![s] = Done(Entry(s))]
      BY <1>1, <1>8, FinishOpIs
    <3> QED BY <1>1, <1>8, <3>1, DoneIs
  <2>6. \A t \in Streams : t # s => SameEntry(t)
    BY <2>5 DEF Updated, Removed
  <2>7. TurnFrame(s)
    BY <1>1, <1>7, <1>8, <2>4, <2>6 DEF TurnFrame
  <2>8. FinDone(s)
    BY <1>8, <2>4, <2>5 DEF FinDone
  <2>9. Flushed(s, n)
    BY <1>2, <1>5, <1>8, <2>1, <2>3, <2>8 DEF Flushed
  <2> QED BY <1>1, <1>5, <2>7, <2>9
<1>9. ASSUME ~(fin /\ n = h.rem), NEW e \in Entries, send' = [send EXCEPT ![s] = e],
             e.pending_reset = Entry(s).pending_reset, e.terminal = Entry(s).terminal,
             e.finished = Entry(s).finished, e.shared = Entry(s).shared, e.send_ops = OpsOf(s),
             \A t \in Streams : t # s => (t \in qarmed' <=> t \in qarmed)
      PROVE  /\ wire' = [wire EXCEPT ![s] = Grown(wire[s], h.n, n, <<>>)] /\ qsend' = qsend
             /\ TurnFrame(s) /\ StillLive(s) /\ Entry(s)' = e /\ OpsOf(s)' = OpsOf(s)
  <2>1. Transmit(s, h.n, n, FALSE)
    BY <1>2, <1>6, <1>9 DEF Transmit
  <2>2. wire' = [wire EXCEPT ![s] = Grown(wire[s], h.n, n, <<>>)] /\ qsend' = qsend
    BY <2>1 DEF Transmit, Grown
  <2>3. \A t \in Streams : t # s => SameQuiche(t)
    BY <1>3, <2>2 DEF TypeQuiche, SameQuiche
  <2>4. Updated(s, e)
    BY <1>1, <1>3, <1>9, SetEntry
  <2>5. Entry(s)' = e /\ s \in DOMAIN send' /\ \A t \in Streams : t # s => SameEntry(t)
    BY <2>4 DEF Updated
  <2>6. OpsOf(s)' = OpsOf(s)
    BY <1>9, <2>5 DEF OpsOf
  <2>7. TurnFrame(s) /\ StillLive(s)
    BY <1>1, <1>7, <1>9, <2>3, <2>5 DEF TurnFrame, StillLive
  <2> QED BY <2>2, <2>5, <2>6, <2>7
<1>10. CASE /\ h.rem - n = 0 /\ ~fin
            /\ send' = [send EXCEPT ![s].held = NoHeld]
            /\ IF OpsOf(s) = <<>>
                 THEN Drop
                 ELSE UNCHANGED <<wpc, cur, runnable_send, needs_iteration>>
            /\ UNCHANGED <<admit, slot, finslot, qarmed>>
  <2> DEFINE e == [Entry(s) EXCEPT !.held = NoHeld]
  <2>1. send' = [send EXCEPT ![s] = e]
    BY <1>1, <1>10
  <2>2. /\ e \in Entries /\ e.send_ops = OpsOf(s) /\ e.pending_reset = Entry(s).pending_reset
        /\ e.terminal = Entry(s).terminal /\ e.finished = Entry(s).finished
        /\ e.held = NoHeld /\ e.shared = Entry(s).shared
    BY <1>3 DEF Entries, OpsOf, NoHeld
  <2> HIDE DEF e
  <2>3. /\ wire' = [wire EXCEPT ![s] = Grown(wire[s], h.n, n, <<>>)] /\ qsend' = qsend
        /\ TurnFrame(s) /\ StillLive(s) /\ Entry(s)' = e /\ OpsOf(s)' = OpsOf(s)
    BY <1>9, <1>10, <2>1, <2>2
  <2>4. n = h.rem
    BY <1>4, <1>5, <1>10
  <2>5. Flushed(s, n)
    BY <1>2, <1>5, <1>10, <2>2, <2>3, <2>4 DEF Flushed
  <2> QED BY <1>1, <1>5, <2>3, <2>5
<1>11. CASE /\ h.rem - n > 0
            /\ send' = [send EXCEPT ![s].held.rem = h.rem - n]
            /\ IF n = offered THEN Requeue /\ UNCHANGED qarmed ELSE Park
            /\ UNCHANGED <<admit, slot, finslot>>
  <2> DEFINE k == h.rem - n
             e == [Entry(s) EXCEPT !.held = [n |-> h.n, rem |-> k]]
  <2>1. k \in Nat /\ n < h.rem /\ n # h.rem
    BY <1>4, <1>5, <1>11
  <2>2. send' = [send EXCEPT ![s] = e]
    <3>1. [h EXCEPT !.rem = k] = [n |-> h.n, rem |-> k]
      BY <1>4
    <3>2. send' = [send EXCEPT ![s] = [Entry(s) EXCEPT !.held = [h EXCEPT !.rem = k]]]
      BY <1>1, <1>11
    <3> QED BY <3>1, <3>2
  <2> HIDE DEF k
  <2>3. /\ e \in Entries /\ e.send_ops = OpsOf(s) /\ e.pending_reset = Entry(s).pending_reset
        /\ e.terminal = Entry(s).terminal /\ e.finished = Entry(s).finished
        /\ e.held = [n |-> h.n, rem |-> k] /\ e.shared = Entry(s).shared
    <3>1. [n |-> h.n, rem |-> k] \in [n : Nat, rem : Nat]
      BY <1>4, <2>1
    <3> QED BY <1>3, <3>1 DEF Entries, OpsOf
  <2> HIDE DEF e
  <2>4. (Requeue \/ Park) /\ \A t \in Streams : t # s => (t \in qarmed' <=> t \in qarmed)
    BY <1>1, <1>11 DEF Park
  <2>5. /\ wire' = [wire EXCEPT ![s] = Grown(wire[s], h.n, n, <<>>)] /\ qsend' = qsend
        /\ TurnFrame(s) /\ StillLive(s) /\ Entry(s)' = e /\ OpsOf(s)' = OpsOf(s)
    BY <1>9, <2>1, <2>2, <2>3, <2>4
  <2>6. Entry(s)'.held = [n |-> h.n, rem |-> h.rem - n]
    BY <2>3, <2>5 DEF k
  <2>7. Flushed(s, n)
    BY <1>2, <1>5, <2>1, <2>4, <2>5, <2>6 DEF Flushed
  <2> QED BY <1>1, <1>5, <2>5, <2>7
<1> QED BY <1>2, <1>8, <1>10, <1>11

-----------------------------------------------------------------------------
(* The round robin and its work *)

\* What concerns one stream carries over when the stream is left alone.
LEMMA OtherTurn ==
  ASSUME NEW t, Covered(t), Useful(t), Half(t), SameEntry(t), SameQuiche(t),
         Has(cmd', t, "Send") => Has(cmd, t, "Send"), t \in qarmed => t \in qarmed',
         t \in HasTurn' <=> t \in HasTurn, qconn' = "open" => qconn = "open",
         conn_terminal => conn_terminal'
  PROVE  Covered(t)' /\ Useful(t)' /\ Half(t)'
<1>1. /\ Entry(t)' = Entry(t) /\ OpsOf(t)' = OpsOf(t) /\ (t \in DOMAIN send' <=> t \in DOMAIN send)
      /\ qsend'[t] = qsend[t] /\ \A x : Wrote(t, x)' <=> Wrote(t, x)
  BY DEF SameEntry, SameQuiche, OpsOf, Wrote
<1>2. Covered(t)'
  BY <1>1 DEF Covered
<1>3. Useful(t)'
  BY <1>1 DEF Useful
<1>4. Writing(t)' => Writing(t)
  BY <1>1 DEF Writing
<1>5. Half(t)'
  BY <1>1, <1>4 DEF Half
<1> QED BY <1>2, <1>3, <1>5

LEMMA TurnsOf ==
  ASSUME Turns, NEW s \in Streams,
         \A t \in Streams : t # s =>
           /\ SameEntry(t) /\ SameQuiche(t) /\ (Has(cmd', t, "Send") => Has(cmd, t, "Send"))
           /\ (t \in qarmed => t \in qarmed') /\ (t \in HasTurn' <=> t \in HasTurn),
         qconn' = qconn, conn_terminal' = conn_terminal, Robin',
         Covered(s)', Useful(s)', Half(s)'
  PROVE  Turns'
<1>1. ASSUME NEW t \in Streams, t # s PROVE Covered(t)' /\ Useful(t)' /\ Half(t)'
  BY <1>1, OtherTurn DEF Turns
<1> QED BY <1>1 DEF Turns

\* A step that leaves the registry, the set of turns and quiche's halves alone.
LEMMA TurnsQuiet ==
  ASSUME Turns, send' = send, qsend' = qsend, wire' = wire, qarmed \subseteq qarmed',
         \A t \in Streams : Has(cmd', t, "Send") => Has(cmd, t, "Send"),
         HasTurn' = HasTurn, qconn' = "open" => qconn = "open", conn_terminal' = conn_terminal, Robin'
  PROVE  Turns'
<1>1. ASSUME NEW t \in Streams PROVE Covered(t)' /\ Useful(t)' /\ Half(t)'
  <2>1. SameEntry(t) /\ SameQuiche(t)
    BY EntryStays DEF SameQuiche
  <2> QED BY <2>1, OtherTurn DEF Turns
<1> QED BY <1>1 DEF Turns

LEMMA TurnsAre == IInv /\ Turns => WorkIsCovered
<1> SUFFICES ASSUME IInv, Turns PROVE WorkIsCovered
  OBVIOUS
<1>1. TypeWorker /\ Stage
  BY DEF IInv, TypeOK
<1>2. ASSUME NEW s \in DOMAIN send, qconn = "open"
      PROVE  /\ send[s].pending_reset => s \in HasTurn
             /\ send[s].terminal = "none" /\ send[s].send_ops # <<>> =>
                  s \in HasTurn \cup qarmed \/ qsend[s] = "gone"
  <2>1. Covered(s) /\ Entry(s) = send[s]
    BY <1>1 DEF TypeWorker, Turns, Entry
  <2> QED BY <1>2, <2>1 DEF Covered, OpsOf
<1>3. ASSUME NEW s \in HasTurn, ~conn_terminal
      PROVE  \/ Entry(s).pending_reset
             \/ /\ Entry(s).terminal = "none"
                /\ Entry(s).send_ops # <<>> \/ Entry(s).held # NoHeld
  <2>1. s \in Streams
    <3>1. CASE s \in Elems(runnable_send)
      <4>1. runnable_send \in Seq(Streams)
        BY <1>1 DEF TypeWorker
      <4> QED BY <3>1, <4>1 DEF Elems
    <3>2. CASE wpc = "turn" /\ s = cur
      BY <1>1, <3>2 DEF Stage
    <3> QED BY <3>1, <3>2 DEF HasTurn
  <2>2. Useful(s)
    BY <2>1 DEF Turns
  <2> QED BY <1>3, <2>2 DEF Useful, OpsOf
<1> QED BY <1>2, <1>3 DEF WorkIsCovered

LEMMA InitTurns == Init => Turns
<1> SUFFICES ASSUME Init PROVE Turns
  OBVIOUS
<1>1. /\ runnable_send = <<>> /\ wpc = "wait" /\ cmd = <<>> /\ wire = [s \in Streams |-> <<>>]
      /\ qsend \in [Streams -> {"open", "stopped"}]
  BY InitBuilt DEF Init
<1>2. Elems(runnable_send) = {} /\ HasTurn = {}
  BY <1>1 DEF Elems, HasTurn
<1>3. Robin
  BY <1>1 DEF Robin, Once
<1>4. ASSUME NEW s \in Streams PROVE Covered(s) /\ Useful(s) /\ Half(s)
  <2>1. PICK sh \in BOOLEAN : Entry(s) = NewState(sh)
    BY InitBuilt
  <2>2. OpsOf(s) = <<>> /\ ~Entry(s).pending_reset
    BY <2>1 DEF OpsOf, NewState
  <2>3. qsend[s] \in {"open", "stopped"} /\ ~Wrote(s, RESET)
    BY <1>1 DEF Wrote, Elems
  <2> QED BY <1>2, <2>2, <2>3 DEF Covered, Useful, Half
<1> QED BY <1>3, <1>4 DEF Turns

\* The front end.
LEMMA FrontTurns ==
  ASSUME IInv, Turns, UNCHANGED workerVars, NEW s \in Streams,
         \A t \in Streams : t # s => (Has(cmd', t, "Send") => Has(cmd, t, "Send")),
         (Has(cmd', s, "Send") => Has(cmd, s, "Send")) \/ ~Resetting(s)
  PROVE  Turns'
<1>1. /\ send' = send /\ qsend' = qsend /\ wire' = wire /\ qarmed' = qarmed /\ qconn' = qconn
      /\ conn_terminal' = conn_terminal /\ runnable_send' = runnable_send /\ wpc' = wpc /\ cur' = cur
      /\ needs_iteration' = needs_iteration
  BY DEF workerVars, regVars, loopVars, quicheVars
<1>2. HasTurn' = HasTurn /\ Robin'
  BY <1>1 DEF HasTurn, Robin, Turns
<1>3. \A t \in Streams : SameEntry(t) /\ SameQuiche(t)
  BY <1>1, EntryStays DEF SameQuiche
<1>4. CASE Has(cmd', s, "Send") => Has(cmd, s, "Send")
  <2>1. \A t \in Streams : Has(cmd', t, "Send") => Has(cmd, t, "Send")
    BY <1>4
  <2>2. qarmed \subseteq qarmed' /\ (qconn' = "open" => qconn = "open")
    BY <1>1
  <2> QED BY <1>1, <1>2, <2>1, <2>2, TurnsQuiet
<1>5. CASE ~Resetting(s)
  <2>1. /\ Entry(s)' = Entry(s) /\ OpsOf(s)' = OpsOf(s) /\ \A x : Wrote(s, x)' <=> Wrote(s, x)
    BY <1>3 DEF SameEntry, SameQuiche, OpsOf, Wrote
  <2>2. Covered(s) /\ Useful(s) /\ Half(s)
    BY DEF Turns
  <2>3. Covered(s)' /\ Useful(s)'
    BY <1>1, <1>2, <2>1, <2>2 DEF Covered, Useful
  <2>4. Half(s)'
    BY <1>1, <1>5, <2>1, <2>2 DEF Half, Resetting
  <2>5. \A t \in Streams : (t \in qarmed => t \in qarmed') /\ (t \in HasTurn' <=> t \in HasTurn)
    BY <1>1, <1>2
  <2> QED BY <1>1, <1>2, <1>3, <2>3, <2>4, <2>5, TurnsOf
<1> QED BY <1>4, <1>5

LEMMA FrontEndTurns ==
  ASSUME IInv, Turns, NEW s \in Streams,
         \/ Polls(s) \/ StartFinish(s) \/ CallReset(s) \/ DropHandle(s)
         \/ \E k \in Sizes : StartWrite(s, k)
  PROVE  Turns'
<1>0. cmd \in Seq(Commands) /\ Handle(s) /\ TypeFront
  BY Known DEF TypeShared
<1>1. ASSUME UNCHANGED workerVars, cmd' = cmd PROVE Turns'
  BY <1>1, FrontTurns
<1>2. ASSUME UNCHANGED workerVars, NEW c \in Commands, c.op # "Send", cmd' = Append(cmd, c) PROVE Turns'
  <2>1. \A t \in Streams : Has(cmd', t, "Send") => Has(cmd, t, "Send")
    BY <1>0, <1>2, CmdAppend
  <2> QED BY <1>2, <2>1, FrontTurns
<1>3. CASE PollWrite(s) \/ PollFinish(s) \/ StartFinish(s) \/ \E k \in Sizes : StartWrite(s, k)
  <2>1. UNCHANGED workerVars /\ cmd' = cmd
    BY <1>3 DEF PollWrite, PollFinish, StartFinish, StartWrite, sharedVars
  <2> QED BY <1>1, <2>1
<1>4. CASE CallReset(s)
  <2>1. UNCHANGED workerVars /\ (cmd' = cmd \/ cmd' = Append(cmd, Reset(s)))
    BY <1>4 DEF CallReset
  <2>2. Reset(s) \in Commands /\ Reset(s).op # "Send"
    BY CmdMakers
  <2> QED BY <1>1, <1>2, <2>1, <2>2
<1>5. CASE FlushFinish(s) \/ DropHandle(s)
  <2>1. UNCHANGED workerVars /\ (cmd' = cmd \/ cmd' = Append(cmd, Finish(s)))
    BY <1>5 DEF FlushFinish, DropHandle
  <2>2. Finish(s) \in Commands /\ Finish(s).op # "Send"
    BY CmdMakers
  <2> QED BY <1>1, <1>2, <2>1, <2>2
<1>6. CASE FlushWrite(s)
  <2>1. UNCHANGED workerVars /\ fpc[s] = "flush"
        /\ (cmd' = cmd \/ \E m, k : cmd' = Append(cmd, Send(s, m, k)) /\ Send(s, m, k) \in Commands)
    <3>1. UNCHANGED workerVars /\ fpc[s] = "flush"
          /\ (cmd' = cmd \/ cmd' = Append(cmd, Send(s, Len(submitted[s]) + 1, size[s])))
      BY <1>6 DEF FlushWrite, Generation
    <3>2. Len(submitted[s]) + 1 \in Nat /\ size[s] \in Nat
      BY <1>0 DEF TypeFront
    <3>3. Send(s, Len(submitted[s]) + 1, size[s]) \in Commands
      BY <3>2 DEF Send, Commands
    <3> QED BY <3>1, <3>3
  <2>2. ~Resetting(s)
    BY <1>0, <2>1 DEF Handle
  <2>3. CASE cmd' = cmd
    BY <1>1, <2>1, <2>3
  <2>4. ASSUME NEW m, NEW k, cmd' = Append(cmd, Send(s, m, k)), Send(s, m, k) \in Commands PROVE Turns'
    <3>1. Send(s, m, k).id = s
      BY DEF Send
    <3>2. \A t \in Streams : t # s => (Has(cmd', t, "Send") => Has(cmd, t, "Send"))
      BY <1>0, <2>4, <3>1, CmdAppend
    <3> QED BY <2>1, <2>2, <3>2, FrontTurns
  <2> QED BY <2>1, <2>3, <2>4
<1> QED BY <1>3, <1>4, <1>5, <1>6 DEF Polls

\* The stages of an iteration.
LEMMA LoopTurns ==
  ASSUME IInv, Turns,
         NoPacketIteration \/ EndApply \/ EndWritable \/ EndSend \/ GrantCredit \/ ConnectionClosing
  PROVE  Turns'
<1>1. /\ send' = send /\ cmd' = cmd /\ conn_terminal' = conn_terminal /\ runnable_send' = runnable_send
      /\ qsend' = qsend /\ wire' = wire /\ qarmed' = qarmed /\ (qconn' = qconn \/ qconn' = "closing")
      /\ wpc # "turn" /\ wpc' # "turn"
  BY DEF NoPacketIteration, EndApply, EndWritable, EndSend, GrantCredit, ConnectionClosing,
         BeginIteration, packetUnchanged, sharedVars, regVars, quicheVars
<1>2. HasTurn' = HasTurn
  BY <1>1 DEF HasTurn
<1>3. wpc' = "wait" /\ ~needs_iteration' => runnable_send' = <<>>
  <2>1. CASE NoPacketIteration \/ EndApply \/ EndWritable \/ GrantCredit
    BY <2>1 DEF NoPacketIteration, EndApply, EndWritable, GrantCredit, BeginIteration
  <2>2. CASE EndSend
    BY <1>1, <2>2 DEF EndSend
  <2>3. CASE ConnectionClosing
    BY <1>1, <2>3 DEF ConnectionClosing, Turns, Robin
  <2> QED BY <2>1, <2>2, <2>3
<1>4. Robin'
  BY <1>1, <1>3 DEF Robin, Turns
<1>5. qarmed \subseteq qarmed' /\ (qconn' = "open" => qconn = "open")
  BY <1>1
<1> QED BY <1>1, <1>2, <1>4, <1>5, TurnsQuiet

LEMMA BeginTurnTurns ==
  ASSUME IInv, Turns, BeginTurn
  PROVE  Turns'
<1>0. runnable_send \in Seq(Streams) /\ Once(runnable_send)
  BY DEF IInv, TypeOK, TypeWorker, Turns, Robin
<1>1. /\ send' = send /\ cmd' = cmd /\ conn_terminal' = conn_terminal
      /\ qsend' = qsend /\ wire' = wire /\ qarmed' = qarmed /\ qconn' = qconn
      /\ wpc = "send" /\ wpc' = "turn" /\ runnable_send # <<>>
      /\ cur' = Head(runnable_send) /\ runnable_send' = Tail(runnable_send)
  BY DEF BeginTurn, TurnAvailable, sharedVars, regVars, quicheVars
<1>2. Elems(runnable_send) = Elems(Tail(runnable_send)) \cup {Head(runnable_send)}
  BY <1>0, <1>1, ElemsTail
<1>3. HasTurn' = HasTurn
  BY <1>1, <1>2 DEF HasTurn
<1>4. Once(Tail(runnable_send)) /\ Head(runnable_send) \notin Elems(Tail(runnable_send))
  BY <1>0, <1>1, OnceTail
<1>5. Robin'
  BY <1>1, <1>4 DEF Robin
<1>6. qarmed \subseteq qarmed' /\ (qconn' = "open" => qconn = "open")
  BY <1>1
<1> QED BY <1>1, <1>3, <1>5, <1>6, TurnsQuiet

LEMMA QuiescentTurns ==
  ASSUME IInv, Turns, FlushQuiescent
  PROVE  Turns'
<1>0. TypeWorker
  BY DEF IInv, TypeOK
<1>1. /\ send' = send /\ cmd' = cmd /\ conn_terminal' = conn_terminal
      /\ qsend' = qsend /\ wire' = wire /\ qarmed' = qarmed /\ qconn' = qconn
      /\ wpc = "wait" /\ wpc' = "apply" /\ ~needs_iteration
      /\ runnable_send' \in Orders(QuiescentHeld)
  BY DEF FlushQuiescent, BeginIteration, sharedVars, regVars, quicheVars
<1>2. runnable_send = <<>> /\ HasTurn = {}
  <2>1. runnable_send = <<>>
    BY <1>1 DEF Turns, Robin
  <2> QED BY <1>1, <2>1 DEF HasTurn, Elems
<1>3. Elems(runnable_send') = QuiescentHeld /\ Once(runnable_send')
  BY <1>1 DEF Orders, Once
<1>4. HasTurn' = QuiescentHeld /\ Robin'
  BY <1>1, <1>3 DEF HasTurn, Robin
<1>5. ASSUME NEW t \in Streams PROVE Covered(t)' /\ Useful(t)' /\ Half(t)'
  <2>1. Covered(t) /\ Half(t)
    BY DEF Turns
  <2>2. /\ Entry(t)' = Entry(t) /\ OpsOf(t)' = OpsOf(t) /\ \A x : Wrote(t, x)' <=> Wrote(t, x)
        /\ Writing(t)' <=> Writing(t)
    BY <1>1 DEF Entry, OpsOf, Wrote, Writing
  <2>3. Covered(t)'
    BY <1>1, <1>2, <2>1, <2>2 DEF Covered
  <2>4. Half(t)'
    BY <1>1, <2>1, <2>2 DEF Half
  <2>5. t \in QuiescentHeld => Entry(t).terminal = "none" /\ Entry(t).held # NoHeld
    BY DEF QuiescentHeld, HasHeld, Entry
  <2>6. Useful(t)'
    BY <1>4, <2>2, <2>5 DEF Useful
  <2> QED BY <2>3, <2>4, <2>6
<1> QED BY <1>4, <1>5 DEF Turns

\* quiche.
LEMMA PeerTurns ==
  ASSUME IInv, Turns, NEW s \in Streams, PeerStops(s) \/ Collect(s)
  PROVE  Turns'
<1>0. TypeQuiche /\ Covered(s) /\ Useful(s) /\ Half(s)
  BY Known DEF Turns
<1>1. /\ send' = send /\ cmd' = cmd /\ conn_terminal' = conn_terminal /\ runnable_send' = runnable_send
      /\ wire' = wire /\ qconn' = qconn /\ wpc = "wait"
      /\ \/ /\ qsend' = [qsend EXCEPT ![s] = "stopped"] /\ qarmed' = qarmed \cup {s} /\ wpc' = "apply"
            /\ qsend[s] = "open"
         \/ /\ qsend' = [qsend EXCEPT ![s] = "gone"] /\ qarmed' = qarmed \ {s}
            /\ wpc' = wpc /\ needs_iteration' = needs_iteration
  BY DEF PeerStops, Collect, BeginIteration, packetUnchanged, sharedVars, regVars
<1>2. HasTurn' = HasTurn
  BY <1>1 DEF HasTurn
<1>3. Robin'
  BY <1>1 DEF Robin, Turns
<1>4. /\ \A t \in Streams : t # s => SameQuiche(t) /\ (t \in qarmed => t \in qarmed')
      /\ \/ qsend'[s] = "stopped" /\ s \in qarmed'
         \/ qsend'[s] = "gone"
  BY <1>0, <1>1 DEF TypeQuiche, SameQuiche
<1>5. \A t \in Streams : SameEntry(t) /\ (Has(cmd', t, "Send") => Has(cmd, t, "Send"))
  BY <1>1, EntryStays
<1>6. /\ Entry(s)' = Entry(s) /\ OpsOf(s)' = OpsOf(s) /\ \A x : Wrote(s, x)' <=> Wrote(s, x)
      /\ Writing(s)' <=> Writing(s)
  BY <1>1 DEF Entry, OpsOf, Wrote, Writing
<1>7. Covered(s)'
  BY <1>0, <1>1, <1>2, <1>4, <1>6 DEF Covered
<1>8. Useful(s)'
  BY <1>0, <1>1, <1>2, <1>6 DEF Useful
<1>9. Half(s)'
  BY <1>0, <1>4, <1>6 DEF Half
<1>10. \A t \in Streams : t \in HasTurn' <=> t \in HasTurn
  BY <1>2
<1> QED BY <1>1, <1>3, <1>4, <1>5, <1>7, <1>8, <1>9, <1>10, TurnsOf

\* The end of the receive half may reclaim an entry, which then had no turn.
LEMMA RecvDoneTurns ==
  ASSUME IInv, Turns, NEW s \in Streams, mark_recv_done(s)
  PROVE  Turns'
<1>0. TypeWorker /\ Covered(s) /\ Useful(s) /\ Half(s) /\ EntryState(s) /\ Stage
  BY Known DEF Turns
<1>1. /\ wpc = "apply" /\ cmd' = cmd /\ conn_terminal' = conn_terminal /\ runnable_send' = runnable_send
      /\ wire' = wire /\ qconn' = qconn /\ qsend' = qsend /\ qarmed' = qarmed /\ wpc' = wpc /\ cur' = cur
      /\ needs_iteration' = needs_iteration
      /\ \/ send' = Remove(send, s) /\ s \in DOMAIN send /\ send[s].finished
         \/ send' = send
  BY DEF mark_recv_done, Reclaimable, sharedVars, loopVars, quicheVars
<1>2. HasTurn' = HasTurn /\ Robin'
  BY <1>1 DEF HasTurn, Robin, Turns
<1>3. CASE send' = send
  <2>1. qarmed \subseteq qarmed' /\ (qconn' = "open" => qconn = "open")
        /\ \A t \in Streams : Has(cmd', t, "Send") => Has(cmd, t, "Send")
    BY <1>1
  <2> QED BY <1>1, <1>2, <1>3, <2>1, TurnsQuiet
<1>4. CASE send' = Remove(send, s) /\ s \in DOMAIN send /\ send[s].finished
  <2>1. Removed(s)
    BY <1>0, <1>4, RemoveEntry
  <2>2. Entry(s)' = NewState(FALSE) /\ s \notin DOMAIN send' /\ \A t \in Streams : t # s => SameEntry(t)
    BY <2>1 DEF Removed
  <2>3. Entry(s).finished /\ ~conn_terminal
    BY <1>0, <1>1, <1>4 DEF Entry, Stage
  <2>4. s \notin HasTurn
    <3>1. OpsOf(s) = <<>> /\ Entry(s).held = NoHeld /\ ~Entry(s).pending_reset
      BY <1>0, <2>3 DEF EntryState
    <3> QED BY <1>0, <2>3, <3>1 DEF Useful
  <2>5. Covered(s)' /\ Useful(s)'
    BY <1>2, <2>2, <2>4 DEF Covered, Useful
  <2>6. OpsOf(s)' = <<>> /\ ~Entry(s)'.pending_reset /\ \A x : Wrote(s, x)' <=> Wrote(s, x)
    BY <1>1, <2>2 DEF OpsOf, NewState, Wrote
  <2>7. Writing(s)' => Writing(s)
    <3>1. ~HasOp(OpsOf(s)', "write")
      BY <2>6, OpNone
    <3> QED BY <1>1, <3>1 DEF Writing
  <2>8. Half(s)'
    BY <1>0, <1>1, <2>6, <2>7 DEF Half
  <2>9. \A t \in Streams : /\ SameQuiche(t) /\ (Has(cmd', t, "Send") => Has(cmd, t, "Send"))
                           /\ (t \in qarmed => t \in qarmed') /\ (t \in HasTurn' <=> t \in HasTurn)
    BY <1>1, <1>2 DEF SameQuiche
  <2> QED BY <1>1, <1>2, <2>2, <2>5, <2>8, <2>9, TurnsOf
<1> QED BY <1>1, <1>3, <1>4

\* The inbox.
LEMMA InboxTurns ==
  ASSUME IInv, Turns, apply_inbox
  PROVE  Turns'
<1>1. PICK s \in Streams :
        cmd # <<>> /\ Head(cmd).id = s /\ cmd' = Tail(cmd) /\ InboxRest /\ InboxCase(s)
  BY InboxCases
<1>2. /\ conn_terminal' = conn_terminal /\ wpc' = "apply" /\ wpc = "apply" /\ cur' = cur
      /\ needs_iteration' = needs_iteration /\ qsend' = qsend /\ wire' = wire
      /\ \A t \in Streams : SameQuiche(t)
  BY <1>1, InboxRestIs
<1>3. qarmed' = qarmed /\ qconn' = qconn
  BY <1>1 DEF InboxRest, quicheVars
<1>4. /\ \A t \in Streams : t # s => SameCmds(t)
      /\ \A o : Has(cmd', s, o) => Has(cmd, s, o)
      /\ Has(cmd, s, Head(cmd).op) /\ ~Has(cmd', s, "Send")
  BY <1>1, CommandTaken
<1>5. \A t \in Streams : Has(cmd', t, "Send") => Has(cmd, t, "Send")
  BY <1>4 DEF SameCmds
<1>6. /\ TypeShared /\ TypeWorker /\ Handle(s) /\ EntryState(s) /\ Entry(s) \in Entries /\ OpsOf(s) \in Seq(Ops)
      /\ Covered(s) /\ Useful(s) /\ Half(s) /\ runnable_send \in Seq(Streams) /\ Once(runnable_send)
  BY Known DEF Turns, Robin, TypeWorker
<1>7. HasTurn = Elems(runnable_send) /\ HasTurn' = Elems(runnable_send')
  BY <1>2 DEF HasTurn
<1>8. Elems(Enqueue(runnable_send, s)) = Elems(runnable_send) \cup {s} /\ Once(Enqueue(runnable_send, s))
  BY <1>6, ElemsEnqueue
<1>9. Once(runnable_send') => Robin'
  BY <1>2 DEF Robin
<1>10. \A x : Wrote(s, x)' <=> Wrote(s, x)
  BY <1>2 DEF Wrote
<1>11. CASE UNCHANGED <<send, runnable_send>>
  <2>1. qarmed \subseteq qarmed' /\ (qconn' = "open" => qconn = "open") /\ HasTurn' = HasTurn
        /\ send' = send /\ Robin'
    BY <1>3, <1>6, <1>7, <1>9, <1>11
  <2> QED BY <1>2, <1>5, <2>1, TurnsQuiet
<1>12. ASSUME NEW e \in Entries, send' = Put(send, s, e), runnable_send' = Enqueue(runnable_send, s),
              e.pending_reset \/ (e.terminal = "none" /\ e.send_ops # <<>>),
              e.pending_reset \/ Wrote(s, RESET) => ~HasOp(e.send_ops, "write"),
              e.pending_reset => ~Wrote(s, RESET)
       PROVE  Turns'
  <2>1. Updated(s, e)
    BY <1>6, <1>12, PutEntry
  <2>2. Entry(s)' = e /\ OpsOf(s)' = e.send_ops /\ \A t \in Streams : t # s => SameEntry(t)
    BY <2>1 DEF Updated, OpsOf
  <2>3. HasTurn' = HasTurn \cup {s} /\ Robin'
    BY <1>7, <1>8, <1>9, <1>12
  <2>4. Covered(s)' /\ Useful(s)'
    BY <1>12, <2>2, <2>3 DEF Covered, Useful
  <2>5. Writing(s)' => HasOp(e.send_ops, "write")
    BY <1>4, <2>2 DEF Writing
  <2>6. Half(s)'
    BY <1>2, <1>6, <1>10, <1>12, <2>2, <2>5 DEF Half
  <2>7. \A t \in Streams : t # s => /\ (t \in qarmed => t \in qarmed') /\ (t \in HasTurn' <=> t \in HasTurn)
    BY <1>3, <2>3
  <2> QED BY <1>2, <1>3, <1>5, <2>2, <2>3, <2>4, <2>6, <2>7, TurnsOf
<1>13. CASE /\ Head(cmd).op # "Reset" /\ Entry(s).terminal = "none"
            /\ send' = Put(send, s, Queued(Entry(s), OpOf(Head(cmd))))
            /\ runnable_send' = Enqueue(runnable_send, s)
  <2> DEFINE op == OpOf(Head(cmd))
             e == Queued(Entry(s), op)
  <2>1. Head(cmd) \in Commands
    BY <1>1, <1>6, CmdTail DEF TypeShared
  <2>2. op \in Ops /\ Head(cmd).op \in {"Send", "Finish"}
    BY <1>13, <2>1, OpOfType DEF Commands
  <2> HIDE DEF op
  <2>3. Append(OpsOf(s), op) \in Seq(Ops) /\ Append(OpsOf(s), op) # <<>>
    BY <1>6, <2>2
  <2>4. /\ e \in Entries /\ e.send_ops = Append(OpsOf(s), op) /\ e.terminal = "none"
        /\ e.pending_reset = Entry(s).pending_reset
    BY <1>6, <1>13, <2>3 DEF Queued, Entries, OpsOf
  <2>5. ~Entry(s).pending_reset
    BY <1>6, <1>13 DEF EntryState
  <2>6. ~Wrote(s, RESET)
    <3>1. CASE Head(cmd).op = "Send"
      BY <1>4, <1>6, <3>1 DEF Half, Writing
    <3>2. CASE Head(cmd).op = "Finish"
      BY <1>4, <1>6, <3>2 DEF Handle, Finishing, Resetting
    <3> QED BY <2>2, <3>1, <3>2
  <2>7. send' = Put(send, s, e)
    BY <1>13 DEF op
  <2> HIDE DEF e
  <2> QED BY <1>12, <1>13, <2>3, <2>4, <2>5, <2>6, <2>7
<1>14. CASE /\ Entry(s).pending_reset \/ Entry(s).terminal # "none"
            /\ send' = Put(send, s, Entry(s)) /\ runnable_send' = runnable_send
  <2>1. Updated(s, Entry(s))
    BY <1>6, <1>14, PutEntry
  <2>2. s \in DOMAIN send
    BY <1>14 DEF Entry, NewState
  <2>3. \A t \in Streams : SameEntry(t)
    BY <2>1, <2>2 DEF Updated, SameEntry
  <2>4. HasTurn' = HasTurn /\ Robin'
    BY <1>6, <1>7, <1>9, <1>14
  <2>5. \A t \in Streams : /\ SameQuiche(t) /\ (t \in qarmed => t \in qarmed')
                           /\ (t \in HasTurn' <=> t \in HasTurn)
    BY <1>2, <1>3, <2>4
  <2>6. Covered(s)' /\ Useful(s)' /\ Half(s)'
    BY <1>2, <1>3, <1>5, <1>6, <2>3, <2>5, OtherTurn
  <2> QED BY <1>2, <1>3, <1>5, <2>3, <2>4, <2>5, <2>6, TurnsOf
<1>15. CASE /\ Head(cmd).op = "Reset" /\ send' = Put(send, s, Aborted(Entry(s)))
            /\ runnable_send' = Enqueue(runnable_send, s)
  <2> DEFINE e == Aborted(Entry(s))
  <2>1. "reset" \in Ends /\ NoHeld \in [n : Nat, rem : Nat] /\ <<>> \in Seq(Ops)
    BY DEF Ends, NoHeld
  <2>2. e \in Entries /\ e.pending_reset /\ e.send_ops = <<>>
    BY <1>6, <2>1 DEF Aborted, Entries
  <2>3. ~Wrote(s, RESET)
    <3>1. Queues(s)
      BY Known
    <3> QED BY <1>4, <1>15, <3>1 DEF Queues
  <2>4. send' = Put(send, s, e)
    BY <1>15
  <2> HIDE DEF e
  <2>5. ~HasOp(e.send_ops, "write")
    BY <2>2, OpNone
  <2> QED BY <1>12, <1>15, <2>2, <2>3, <2>4, <2>5
<1> QED BY <1>1, <1>11, <1>13, <1>14, <1>15 DEF InboxCase

\* The peer's stop takes the stream out of the round robin with its work.
LEMMA StoppedTurns ==
  ASSUME IInv, Turns, NEW s \in DOMAIN send, ~Entry(s).pending_reset, Entry(s).terminal = "none",
         SendTerminal(s, "stopped"), cmd' = cmd, conn_terminal' = conn_terminal, qconn' = qconn,
         qsend' = qsend, wire' = wire, \A t \in Streams : t # s => (t \in qarmed => t \in qarmed'),
         wpc = "turn" => cur = s, wpc' \notin {"turn", "wait"}
  PROVE  Turns'
<1> DEFINE e == Stopped(Entry(s))
<1>0. s \in Streams
  BY DEF IInv, TypeOK, TypeWorker
<1>1. TypeWorker /\ Entry(s) \in Entries /\ Half(s) /\ runnable_send \in Seq(Streams) /\ Once(runnable_send)
  BY <1>0, Known DEF Turns, Robin, TypeWorker
<1>2. send' = [send EXCEPT ![s] = e] /\ runnable_send' = Without(runnable_send, s)
  BY StopIs
<1>3. e \in Entries /\ e.send_ops = <<>> /\ ~e.pending_reset
  <2>1. "stopped" \in Ends /\ NoHeld \in [n : Nat, rem : Nat] /\ <<>> \in Seq(Ops)
    BY DEF Ends, NoHeld
  <2> QED BY <1>1, <2>1 DEF Entries, Stopped
<1> HIDE DEF e
<1>4. Updated(s, e)
  BY <1>1, <1>2, <1>3, SetEntry
<1>5. /\ OpsOf(s)' = <<>> /\ ~Entry(s)'.pending_reset /\ \A t \in Streams : t # s => SameEntry(t)
      /\ \A x : Wrote(s, x)' <=> Wrote(s, x)
  BY <1>3, <1>4 DEF Updated, OpsOf, Wrote
<1>6. /\ \A t \in Elems(runnable_send) : t # s => t \in Elems(runnable_send')
      /\ Elems(runnable_send') \subseteq Elems(runnable_send)
      /\ Once(runnable_send') /\ s \notin Elems(runnable_send')
  BY <1>0, <1>1, <1>2, ElemsWithout
<1>7. s \notin HasTurn' /\ Robin' /\ \A t \in Streams : t # s => (t \in HasTurn' <=> t \in HasTurn)
  BY <1>6 DEF HasTurn, Robin
<1>8. Covered(s)' /\ Useful(s)'
  BY <1>5, <1>7 DEF Covered, Useful
<1>9. Writing(s)' => Writing(s)
  <2>1. ~HasOp(OpsOf(s)', "write")
    BY <1>5, OpNone
  <2> QED BY <2>1 DEF Writing
<1>10. Half(s)'
  BY <1>1, <1>5, <1>9 DEF Half
<1>11. \A t \in Streams : SameQuiche(t) /\ (Has(cmd', t, "Send") => Has(cmd, t, "Send"))
  BY DEF SameQuiche
<1> QED BY <1>0, <1>5, <1>7, <1>8, <1>10, <1>11, TurnsOf

\* The writable scan: an id leaves quiche's queue for the round robin when it
\* has work.
LEMMA WritableTurns ==
  ASSUME IInv, Turns, NEW s \in Streams, stage_writable(s)
  PROVE  Turns'
<1>1. /\ cmd' = cmd /\ conn_terminal' = conn_terminal /\ wpc' = wpc /\ wpc = "writable"
      /\ qsend' = qsend /\ wire' = wire /\ qconn' = qconn /\ qarmed' = qarmed \ {s}
  BY DEF stage_writable
<1>2. \/ s \in DOMAIN send /\ ~AlreadyEnding(Entry(s)) /\ SendTerminal(s, "stopped")
      \/ /\ send' = send
         /\ \/ /\ runnable_send' = runnable_send
               /\ s \notin DOMAIN send \/ AlreadyEnding(Entry(s)) \/ (OpsOf(s) = <<>> /\ ~Entry(s).pending_reset)
            \/ /\ runnable_send' = Enqueue(runnable_send, s)
               /\ OpsOf(s) # <<>> \/ Entry(s).pending_reset
  BY DEF stage_writable, regVars, OpsOf
<1>3. /\ TypeWorker /\ EntryState(s) /\ Covered(s) /\ Useful(s) /\ Half(s)
      /\ runnable_send \in Seq(Streams) /\ Once(runnable_send)
  BY Known DEF Turns, Robin, TypeWorker
<1>4. CASE s \in DOMAIN send /\ ~AlreadyEnding(Entry(s)) /\ SendTerminal(s, "stopped")
  <2>1. ~Entry(s).pending_reset /\ Entry(s).terminal = "none"
    BY <1>4 DEF AlreadyEnding
  <2>2. \A t \in Streams : t # s => (t \in qarmed => t \in qarmed')
    BY <1>1
  <2> QED BY <1>1, <1>4, <2>1, <2>2, StoppedTurns
<1>5. ASSUME send' = send, Robin', \A t \in Streams : t # s => (t \in HasTurn' <=> t \in HasTurn),
             Covered(s)', Useful(s)'
      PROVE  Turns'
  <2>1. \A t \in Streams : /\ SameEntry(t) /\ SameQuiche(t) /\ (Has(cmd', t, "Send") => Has(cmd, t, "Send"))
                           /\ (t # s => (t \in qarmed => t \in qarmed'))
    BY <1>1, <1>5, EntryStays DEF SameQuiche
  <2>2. Half(s)'
    <3>1. Entry(s)' = Entry(s) /\ (Writing(s)' <=> Writing(s)) /\ \A x : Wrote(s, x)' <=> Wrote(s, x)
      BY <1>1, <1>5 DEF Entry, OpsOf, Wrote, Writing
    <3> QED BY <1>1, <1>3, <3>1 DEF Half
  <2> QED BY <1>1, <1>5, <2>1, <2>2, TurnsOf
<1>6. CASE /\ send' = send /\ runnable_send' = runnable_send
           /\ s \notin DOMAIN send \/ AlreadyEnding(Entry(s)) \/ (OpsOf(s) = <<>> /\ ~Entry(s).pending_reset)
  <2>1. HasTurn' = HasTurn /\ Robin' /\ Entry(s)' = Entry(s) /\ OpsOf(s)' = OpsOf(s)
    BY <1>1, <1>3, <1>6 DEF HasTurn, Robin, Entry, OpsOf
  <2>2. AlreadyEnding(Entry(s)) => Entry(s).terminal # "none"
    BY <1>3 DEF AlreadyEnding, EntryState
  <2>3. Covered(s)' /\ Useful(s)'
    BY <1>1, <1>3, <1>6, <2>1, <2>2 DEF Covered, Useful
  <2> QED BY <1>5, <1>6, <2>1, <2>3
<1>7. CASE /\ send' = send /\ runnable_send' = Enqueue(runnable_send, s)
           /\ OpsOf(s) # <<>> \/ Entry(s).pending_reset
  <2>1. Elems(runnable_send') = Elems(runnable_send) \cup {s} /\ Once(runnable_send')
    BY <1>3, <1>7, ElemsEnqueue
  <2>2. HasTurn' = HasTurn \cup {s} /\ Robin' /\ Entry(s)' = Entry(s) /\ OpsOf(s)' = OpsOf(s)
    BY <1>1, <1>7, <2>1 DEF HasTurn, Robin, Entry, OpsOf
  <2>3. Covered(s)' /\ Useful(s)'
    BY <1>3, <1>7, <2>2 DEF Covered, Useful, EntryState
  <2> QED BY <1>5, <1>7, <2>2, <2>3
<1> QED BY <1>2, <1>4, <1>6, <1>7

\* The reset goes out and ends its turn.
LEMMA TurnResetTurns ==
  ASSUME IInv, Turns, TurnReset
  PROVE  Turns'
<1>1. PICK s \in Streams : cur = s
  BY TurnIs DEF TurnReset
<1>2. /\ wpc = "turn" /\ Entry(s).pending_reset /\ wpc' = "send" /\ cmd' = cmd
      /\ send' = [send EXCEPT ![s].pending_reset = FALSE, ![s].finished = TRUE]
      /\ qsend' = [qsend EXCEPT ![s] = IF @ = "gone" THEN @ ELSE "shut"]
      /\ wire' = [wire EXCEPT ![s] = IF qsend[s] = "gone" THEN @ ELSE Append(@, RESET)]
      /\ qarmed' = qarmed \ {s} /\ runnable_send' = runnable_send
      /\ conn_terminal' = conn_terminal /\ qconn' = qconn
  BY <1>1 DEF TurnReset, Drop, EndTurn, sharedVars
<1>3. /\ TypeWorker /\ TypeQuiche /\ Entry(s) \in Entries /\ EntryState(s) /\ Half(s) /\ Robin
      /\ s \in DOMAIN send
  BY <1>2, Known DEF Turns, Entry, NewState
<1> DEFINE e == [Entry(s) EXCEPT !.pending_reset = FALSE, !.finished = TRUE]
<1>4. send' = [send EXCEPT ![s] = e] /\ e \in Entries
  <2>1. send[s] = Entry(s)
    BY <1>3 DEF Entry
  <2> QED BY <1>2, <1>3, <2>1 DEF Entries
<1>5. e.send_ops = OpsOf(s) /\ ~e.pending_reset /\ e.terminal = Entry(s).terminal
  BY <1>3 DEF OpsOf, Entries
<1> HIDE DEF e
<1>6. Updated(s, e)
  BY <1>3, <1>4, SetEntry
<1>7. /\ OpsOf(s)' = OpsOf(s) /\ ~Entry(s)'.pending_reset /\ Entry(s)'.terminal # "none"
      /\ \A t \in Streams : t # s => SameEntry(t)
  BY <1>2, <1>3, <1>5, <1>6 DEF Updated, OpsOf, EntryState
<1>8. s \notin HasTurn' /\ Robin' /\ \A t \in Streams : t # s => (t \in HasTurn' <=> t \in HasTurn)
  BY <1>1, <1>2, <1>3 DEF HasTurn, Robin
<1>9. Covered(s)' /\ Useful(s)'
  BY <1>7, <1>8 DEF Covered, Useful
<1>10. /\ qsend'[s] \in {"gone", "shut"} /\ (qsend'[s] = "shut" => wire'[s] = Append(wire[s], RESET))
       /\ \A t \in Streams : t # s => SameQuiche(t) /\ (t \in qarmed => t \in qarmed')
  BY <1>2, <1>3 DEF TypeQuiche, SameQuiche
<1>11. qsend'[s] = "shut" => Wrote(s, RESET)'
  <2>1. wire[s] \in Seq(Units) /\ RESET \in Units
    BY <1>3 DEF TypeQuiche, Units
  <2>2. RESET \in Elems(Append(wire[s], RESET))
    BY <2>1, ElemsAppend
  <2> QED BY <1>10, <2>2 DEF Wrote
<1>12. ~Writing(s)'
  BY <1>2, <1>3, <1>7 DEF Half, Writing
<1>13. Half(s)'
  BY <1>7, <1>10, <1>11, <1>12 DEF Half
<1>14. \A t \in Streams : Has(cmd', t, "Send") => Has(cmd, t, "Send")
  BY <1>2
<1> QED BY <1>2, <1>7, <1>8, <1>9, <1>10, <1>13, <1>14, TurnsOf

\* A turn that quiche refuses: on an open connection its stream was stopped,
\* or is gone.
LEMMA TurnErrorTurns ==
  ASSUME IInv, Turns, TurnError
  PROVE  Turns'
<1>1. PICK s \in Streams : cur = s
  BY TurnIs DEF TurnError, Working
<1>2. /\ wpc = "turn" /\ wpc' = "send" /\ cmd' = cmd /\ conn_terminal' = conn_terminal
      /\ qsend' = qsend /\ wire' = wire /\ qarmed' = qarmed /\ qconn' = qconn
      /\ s \in DOMAIN send /\ ~Entry(s).pending_reset /\ Entry(s).terminal = "none"
      /\ OpsOf(s) # <<>> \/ Entry(s).held # NoHeld
      /\ \/ SendTerminal(s, "stopped")
         \/ "ConnGone" \in Answers(s) /\ runnable_send' = Without(runnable_send, s) /\ send' = send
  BY <1>1 DEF TurnError, Working, EndTurn, Entry, OpsOf, HasHeld, quicheVars, regVars
<1>3. CASE SendTerminal(s, "stopped")
  <2>1. \A t \in Streams : t \in qarmed => t \in qarmed'
    BY <1>2
  <2> QED BY <1>1, <1>2, <1>3, <2>1, StoppedTurns
<1>4. CASE "ConnGone" \in Answers(s) /\ runnable_send' = Without(runnable_send, s) /\ send' = send
  <2>1. /\ TypeWorker /\ EntryState(s) /\ Handle(s) /\ Half(s) /\ Covered(s)
        /\ runnable_send \in Seq(Streams) /\ Once(runnable_send)
    BY Known DEF Turns, Robin, TypeWorker
  <2>2. /\ \A t \in Elems(runnable_send) : t # s => t \in Elems(runnable_send')
        /\ Elems(runnable_send') \subseteq Elems(runnable_send)
        /\ Once(runnable_send') /\ s \notin Elems(runnable_send')
    BY <1>4, <2>1, ElemsWithout
  <2>3. s \notin HasTurn' /\ Robin' /\ \A t \in Streams : t # s => (t \in HasTurn' <=> t \in HasTurn)
    BY <1>1, <1>2, <2>2 DEF HasTurn, Robin
  <2>4. qconn = "open" => qsend[s] \in {"fin", "shut", "gone"}
    <3>1. CASE qsend[s] = "stopped"
      BY <1>4, <3>1 DEF Answers
    <3>2. CASE qsend[s] \notin {"stopped", "fin", "shut", "gone"}
      BY <1>4, <3>2 DEF Answers
    <3> QED BY <3>1, <3>2
  <2>5. ASSUME qsend[s] = "fin" PROVE OpsOf(s) = <<>>
    BY <1>2, <2>1, <2>5 DEF Half, EntryState
  <2>6. ASSUME qsend[s] = "shut" PROVE OpsOf(s) = <<>>
    <3>1. Wrote(s, RESET) /\ ~Writing(s) /\ ~Finishing(s)
      BY <2>1, <2>6 DEF Half, Handle, Resetting
    <3>2. ~HasOp(OpsOf(s), "write") /\ ~HasOp(OpsOf(s), "finish")
      BY <3>1 DEF Writing, Finishing
    <3>3. OpsOf(s) \in Seq(Ops)
      BY Known
    <3>4. ASSUME OpsOf(s) # <<>> PROVE FALSE
      <4>1. 1 \in DOMAIN OpsOf(s) /\ OpsOf(s)[1] \in Ops
        BY <3>3, <3>4
      <4>2. OpsOf(s)[1].kind \in {"write", "finish"}
        BY <4>1 DEF Ops
      <4> QED BY <3>2, <4>1, <4>2 DEF HasOp
    <3> QED BY <3>4
  <2>7. Entry(s)' = Entry(s) /\ OpsOf(s)' = OpsOf(s) /\ (Writing(s)' <=> Writing(s))
        /\ \A x : Wrote(s, x)' <=> Wrote(s, x)
    BY <1>2, <1>4 DEF Entry, OpsOf, Wrote, Writing
  <2>8. Covered(s)' /\ Useful(s)'
    BY <1>2, <2>3, <2>4, <2>5, <2>6, <2>7 DEF Covered, Useful
  <2>9. Half(s)'
    BY <1>2, <2>1, <2>7 DEF Half
  <2>10. \A t \in Streams : /\ SameEntry(t) /\ SameQuiche(t) /\ (Has(cmd', t, "Send") => Has(cmd, t, "Send"))
                            /\ (t \in qarmed => t \in qarmed')
    BY <1>2, <1>4, EntryStays DEF SameQuiche
  <2> QED BY <1>2, <2>3, <2>8, <2>9, <2>10, TurnsOf
<1> QED BY <1>2, <1>3, <1>4

\* The turn of s ends, or goes on: who has a turn then.
LEMMA TurnOutcome ==
  ASSUME IInv, Turns, NEW s \in Streams, cur = s, wpc = "turn"
  PROVE  /\ Drop \/ Park => s \notin HasTurn' /\ Robin'
         /\ Park => s \in qarmed'
         /\ Requeue => s \in HasTurn' /\ Robin'
         /\ UNCHANGED <<wpc, cur, runnable_send, needs_iteration>> => s \in HasTurn' /\ Robin'
         /\ Drop \/ Park \/ Requeue \/ UNCHANGED <<wpc, cur, runnable_send, needs_iteration>> =>
              \A t \in Streams : t # s => (t \in HasTurn' <=> t \in HasTurn)
<1>1. s \notin Elems(runnable_send) /\ Once(runnable_send) /\ runnable_send \in Seq(Streams) /\ Robin
  BY Known DEF Turns, Robin, TypeWorker
<1>2. Elems(Enqueue(runnable_send, s)) = Elems(runnable_send) \cup {s} /\ Once(Enqueue(runnable_send, s))
  BY <1>1, ElemsEnqueue
<1>3. CASE Drop \/ Park
  <2>1. runnable_send' = runnable_send /\ wpc' = "send" /\ (Park => qarmed' = qarmed \cup {s})
    BY <1>3 DEF Drop, Park, EndTurn
  <2>2. s \notin HasTurn' /\ Robin' /\ \A t \in Streams : t # s => (t \in HasTurn' <=> t \in HasTurn)
    BY <1>1, <2>1 DEF HasTurn, Robin
  <2>3. ~Requeue \/ runnable_send = Enqueue(runnable_send, s)
    BY <2>1 DEF Requeue
  <2>4. ~Requeue /\ ~UNCHANGED <<wpc, cur, runnable_send, needs_iteration>>
    BY <1>1, <1>2, <2>1, <2>3
  <2> QED BY <2>1, <2>2, <2>4
<1>4. CASE Requeue
  <2>1. runnable_send' = Enqueue(runnable_send, s) /\ wpc' = "send"
    BY <1>4 DEF Requeue, EndTurn
  <2>2. s \in HasTurn' /\ Robin' /\ \A t \in Streams : t # s => (t \in HasTurn' <=> t \in HasTurn)
    BY <1>1, <1>2, <2>1 DEF HasTurn, Robin
  <2>3. ~Drop /\ ~Park
    <3>1. runnable_send' # runnable_send
      BY <1>1, <1>2, <2>1
    <3> QED BY <3>1 DEF Drop, Park
  <2> QED BY <2>1, <2>2, <2>3
<1>5. CASE UNCHANGED <<wpc, cur, runnable_send, needs_iteration>>
  <2>1. HasTurn' = HasTurn /\ s \in HasTurn /\ Robin'
    BY <1>1, <1>5 DEF HasTurn, Robin
  <2>2. ~Drop /\ ~Park /\ ~Requeue
    BY <1>5 DEF Drop, Park, Requeue, EndTurn
  <2> QED BY <2>1, <2>2
<1> QED BY <1>3, <1>4, <1>5

LEMMA TurnEnds ==
  ASSUME IInv, IInv', Turns, NEW s \in Streams, TurnFrame(s), ~Entry(s)'.pending_reset,
         Entry(s)'.terminal = "none", qsend'[s] = "open" \/ (qsend'[s] = "fin" /\ Wrote(s, FIN)'),
         \/ Drop /\ (s \in DOMAIN send' => OpsOf(s)' = <<>>)
         \/ Park
         \/ /\ Requeue \/ UNCHANGED <<wpc, cur, runnable_send, needs_iteration>>
            /\ OpsOf(s)' # <<>> \/ Entry(s)'.held # NoHeld
  PROVE  Turns'
<1>1. /\ cur = s /\ wpc = "turn" /\ cmd' = cmd /\ conn_terminal' = conn_terminal /\ qconn' = qconn
      /\ \A t \in Streams : t # s => SameEntry(t) /\ SameQuiche(t) /\ (t \in qarmed' <=> t \in qarmed)
  BY DEF TurnFrame
<1>2. /\ Drop \/ Park => s \notin HasTurn' /\ Robin'
      /\ Park => s \in qarmed'
      /\ Requeue => s \in HasTurn' /\ Robin'
      /\ UNCHANGED <<wpc, cur, runnable_send, needs_iteration>> => s \in HasTurn' /\ Robin'
      /\ Drop \/ Park \/ Requeue \/ UNCHANGED <<wpc, cur, runnable_send, needs_iteration>> =>
           \A t \in Streams : t # s => (t \in HasTurn' <=> t \in HasTurn)
  BY <1>1, TurnOutcome
<1>3. Robin' /\ \A t \in Streams : t # s => (t \in HasTurn' <=> t \in HasTurn)
  BY <1>2
<1>4. /\ s \in HasTurn' => OpsOf(s)' # <<>> \/ Entry(s)'.held # NoHeld
      /\ s \in HasTurn' \/ s \in qarmed' \/ s \notin DOMAIN send' \/ OpsOf(s)' = <<>>
  BY <1>2
<1>5. Covered(s)' /\ Useful(s)'
  BY <1>4 DEF Covered, Useful
<1>6. ~Wrote(s, RESET)'
  <2>1. EntryState(s)'
    BY DEF IInv, Chain
  <2> QED BY <2>1 DEF EntryState
<1>7. Half(s)'
  BY <1>6 DEF Half
<1>8. \A t \in Streams : Has(cmd', t, "Send") => Has(cmd, t, "Send")
  BY <1>1
<1> QED BY <1>1, <1>3, <1>5, <1>7, <1>8, TurnsOf

\* The FIN of a finished turn is on the wire.
LEMMA FinIsWritten ==
  ASSUME IInv, NEW s \in Streams, NEW w \in Nat, NEW n \in Nat,
         wire' = [wire EXCEPT ![s] = Grown(wire[s], w, n, <<FIN>>)]
  PROVE  Wrote(s, FIN)'
<1> DEFINE f == <<FIN>>
           b == Grown(wire[s], w, n, f)
<1>1. wire[s] \in Seq(Units) /\ f \in Seq({FIN}) /\ Len(f) = 1 /\ TypeQuiche
  BY Known
<1>2. wire'[s] = b
  BY <1>1 DEF TypeQuiche
<1> HIDE DEF f
<1>3. IsGrown(b, wire[s], w, n, f)
  BY <1>1, WireGrows
<1> HIDE DEF b
<1>4. Len(wire[s]) \in Nat
  BY <1>1
<1>5. Len(wire[s]) + n + 1 \in DOMAIN b /\ b[Len(wire[s]) + n + 1] = FIN
  BY <1>1, <1>3, <1>4 DEF IsGrown
<1> QED BY <1>2, <1>5 DEF Wrote, Elems

\* complete_finish_op.
LEMMA FinTurns ==
  ASSUME IInv, IInv', Turns, NEW s \in Streams, TurnFrame(s), FinDone(s), Wrote(s, FIN)', OpsOf(s) # <<>>
  PROVE  Turns'
<1>1. Drop /\ qsend'[s] = "fin" /\ (Removed(s) \/ Updated(s, Done(Entry(s))))
  BY DEF FinDone
<1>2. ~Entry(s).pending_reset /\ Entry(s).terminal = "none" /\ Entry(s) \in Entries
  BY Known DEF TurnFrame
<1>3. CASE Removed(s)
  <2>1. ~Entry(s)'.pending_reset /\ Entry(s)'.terminal = "none" /\ s \notin DOMAIN send'
    BY <1>3 DEF Removed, NewState
  <2> QED BY <1>1, <2>1, TurnEnds
<1>4. CASE Updated(s, Done(Entry(s)))
  <2>1. Entry(s)' = Done(Entry(s))
    BY <1>4 DEF Updated
  <2>2. ~Entry(s)'.pending_reset /\ Entry(s)'.terminal = "none" /\ Entry(s)'.finished
    BY <1>2, <2>1 DEF Done, Entries
  <2>3. EntryState(s)'
    BY DEF IInv, Chain
  <2>4. OpsOf(s)' = <<>>
    BY <2>2, <2>3 DEF EntryState
  <2> QED BY <1>1, <2>2, <2>4, TurnEnds
<1> QED BY <1>1, <1>3, <1>4

\* A turn that quiche accepts.
LEMMA AcceptedTurns ==
  ASSUME IInv, IInv', Turns, HoldWrite \/ PartialWrite \/ LoneFin \/ FlushHeld
  PROVE  Turns'
<1>1. ASSUME NEW s \in Streams, TurnFrame(s), StillLive(s), AfterPop(Entry(s)'), qsend' = qsend PROVE Turns'
  <2>1. (Drop /\ OpsOf(s)' = <<>>) \/ (Requeue /\ OpsOf(s)' # <<>>)
    BY <1>1 DEF AfterPop, OpsOf
  <2>2. ~Entry(s)'.pending_reset /\ Entry(s)'.terminal = "none" /\ qsend'[s] = "open"
    BY <1>1 DEF StillLive, TurnFrame
  <2> QED BY <1>1, <2>1, <2>2, TurnEnds
<1>2. CASE HoldWrite
  <2>1. PICK s \in Streams : TurnFrame(s) /\ StillLive(s) /\ Held(s)
    BY <1>2, HoldIs
  <2> QED BY <1>1, <2>1 DEF Held
<1>3. CASE PartialWrite
  <2>1. PICK s \in Streams : TurnFrame(s) /\ StillLive(s) /\ \E n \in Nat : Written(s, n)
    BY <1>3, PartialIs
  <2>2. PICK n \in Nat : Written(s, n)
    BY <2>1
  <2>3. CASE AfterPop(Entry(s)')
    BY <1>1, <2>1, <2>2, <2>3 DEF Written
  <2>4. CASE OpsOf(s)' # <<>> /\ (Requeue \/ Park)
    <3>1. ~Entry(s)'.pending_reset /\ Entry(s)'.terminal = "none" /\ qsend'[s] = "open"
      BY <2>1, <2>2 DEF StillLive, TurnFrame, Written
    <3> QED BY <2>1, <2>4, <3>1, TurnEnds
  <2> QED BY <2>2, <2>3, <2>4 DEF Written
<1>4. CASE LoneFin
  <2>1. PICK s \in Streams : TurnFrame(s) /\ Alone(s)
    BY <1>4, LoneFinIs
  <2>2. Wrote(s, FIN)'
    <3>1. FIN \in Nat /\ 0 \in Nat /\ wire' = [wire EXCEPT ![s] = Grown(wire[s], FIN, 0, <<FIN>>)]
      BY <2>1 DEF Alone, FIN
    <3> QED BY <3>1, FinIsWritten
  <2> QED BY <2>1, <2>2, FinTurns DEF Alone
<1>5. CASE FlushHeld
  <2>1. PICK s \in Streams : TurnFrame(s) /\ \E n \in Nat : Flushed(s, n)
    BY <1>5, FlushIs
  <2>2. PICK n \in Nat : Flushed(s, n)
    BY <2>1
  <2>3. Entry(s).held \in [n : Nat, rem : Nat]
    BY <2>1, Known DEF Entries
  <2>4. CASE /\ OpsOf(s) # <<>> /\ FinDone(s)
             /\ wire' = [wire EXCEPT ![s] = Grown(wire[s], Entry(s).held.n, n, <<FIN>>)]
    <3>1. Entry(s).held.n \in Nat
      BY <2>3
    <3>2. Wrote(s, FIN)'
      BY <2>4, <3>1, FinIsWritten
    <3> QED BY <2>1, <2>4, <3>2, FinTurns
  <2>5. CASE StillLive(s) /\ OpsOf(s)' = OpsOf(s) /\ qsend' = qsend
    <3>1. ~Entry(s)'.pending_reset /\ Entry(s)'.terminal = "none" /\ qsend'[s] = "open"
      BY <2>1, <2>5 DEF StillLive, TurnFrame
    <3>2. CASE /\ OpsOf(s) = <<>> => Drop
               /\ OpsOf(s) # <<>> => UNCHANGED <<wpc, cur, runnable_send, needs_iteration>>
      <4>1. \/ Drop /\ OpsOf(s)' = <<>>
            \/ UNCHANGED <<wpc, cur, runnable_send, needs_iteration>> /\ OpsOf(s)' # <<>>
        BY <2>5, <3>2
      <4> QED BY <2>1, <3>1, <4>1, TurnEnds
    <3>3. CASE /\ n < Entry(s).held.rem /\ (Requeue \/ Park)
               /\ Entry(s)'.held = [n |-> Entry(s).held.n, rem |-> Entry(s).held.rem - n]
      <4>1. Entry(s)'.held # NoHeld
        <5>1. Entry(s)'.held.rem = Entry(s).held.rem - n /\ Entry(s).held.rem \in Nat
          BY <2>3, <3>3
        <5>2. Entry(s)'.held.rem # 0
          BY <3>3, <5>1
        <5> QED BY <5>2 DEF NoHeld
      <4> QED BY <2>1, <3>1, <3>3, <4>1, TurnEnds
    <3> QED BY <2>2, <2>4, <2>5, <3>2, <3>3 DEF Flushed
  <2> QED BY <2>2, <2>4, <2>5 DEF Flushed
<1> QED BY <1>2, <1>3, <1>4, <1>5

\* The close: what it drains needs no turn any more.
LEMMA ClosePublishTurns ==
  ASSUME IInv, Turns, ClosePublish
  PROVE  Turns'
<1>1. /\ conn_terminal' /\ wpc = "wait" /\ wpc' = "close" /\ runnable_send' = runnable_send /\ cmd' = cmd
      /\ qconn = "closing" /\ qconn' = qconn /\ qsend' = qsend /\ wire' = wire
  BY DEF ClosePublish, quicheVars
<1>2. Robin'
  BY <1>1 DEF Robin, Turns
<1>3. ASSUME NEW t \in Streams PROVE Covered(t)' /\ Useful(t)' /\ Half(t)'
  <2>1. Covered(t)' /\ Useful(t)'
    BY <1>1 DEF Covered, Useful
  <2>2. Closes(t) /\ Half(t)
    BY <1>3, PublishIs DEF Turns
  <2>3. Entry(t)'.pending_reset = Entry(t).pending_reset /\ OpsOf(t)' = <<>>
        /\ \A x : Wrote(t, x)' <=> Wrote(t, x)
    <3>1. CASE t \in DOMAIN send
      <4>1. Entry(t)' = ClosedEntry(Entry(t)) /\ Entry(t) \in Entries
        BY <1>3, <2>2, <3>1, Known DEF Closes
      <4> QED BY <1>1, <4>1, ClosedFields DEF OpsOf, Wrote
    <3>2. CASE t \notin DOMAIN send
      <4>1. Entry(t)' = Entry(t) /\ OpsOf(t) = <<>>
        BY <2>2, <3>2 DEF Closes, Entry, OpsOf, NewState
      <4> QED BY <1>1, <4>1 DEF OpsOf, Wrote
    <3> QED BY <3>1, <3>2
  <2>4. Writing(t)' => Writing(t)
    BY <1>1, <2>3, OpNone DEF Writing
  <2>5. Half(t)'
    BY <1>1, <2>2, <2>3, <2>4 DEF Half
  <2> QED BY <2>1, <2>5
<1> QED BY <1>2, <1>3 DEF Turns

LEMMA CloseIngressTurns ==
  ASSUME IInv, Turns, CloseIngress
  PROVE  Turns'
<1>1. /\ wpc = "close" /\ wpc' = "exited" /\ cmd' = <<>> /\ qconn' = "closed" /\ send' = send
      /\ qsend' = qsend /\ wire' = wire /\ qarmed' = qarmed /\ runnable_send' = runnable_send
      /\ conn_terminal' = conn_terminal
  BY DEF CloseIngress, regVars
<1>2. HasTurn' = HasTurn /\ Robin'
  BY <1>1 DEF HasTurn, Robin, Turns
<1>3. qarmed \subseteq qarmed' /\ (qconn' = "open" => qconn = "open")
  BY <1>1
<1>4. \A t \in Streams : Has(cmd', t, "Send") => Has(cmd, t, "Send")
  BY <1>1, CmdNone
<1> QED BY <1>1, <1>2, <1>3, <1>4, TurnsQuiet

LEMMA WorkerTurns ==
  ASSUME IInv, IInv', Turns, Worker
  PROVE  Turns'
<1>1. CASE NoPacketIteration \/ EndApply \/ EndWritable \/ EndSend
  BY <1>1, LoopTurns
<1>2. CASE FlushQuiescent
  BY <1>2, QuiescentTurns
<1>3. CASE apply_inbox
  BY <1>3, InboxTurns
<1>4. CASE \E s \in Streams : stage_writable(s)
  BY <1>4, WritableTurns
<1>5. CASE BeginTurn
  BY <1>5, BeginTurnTurns
<1>6. CASE Turn
  BY <1>6, TurnResetTurns, TurnErrorTurns, AcceptedTurns DEF Turn
<1>7. CASE ClosePublish \/ CloseIngress
  BY <1>7, ClosePublishTurns, CloseIngressTurns
<1> QED BY <1>1, <1>2, <1>3, <1>4, <1>5, <1>6, <1>7 DEF Worker

LEMMA StepTurns == IInv /\ IInv' /\ Turns /\ [Next]_vars => Turns'
<1> SUFFICES ASSUME IInv, IInv', Turns, [Next]_vars PROVE Turns'
  OBVIOUS
<1>1. CASE UNCHANGED vars
  <2>1. /\ send' = send /\ qsend' = qsend /\ wire' = wire /\ qarmed' = qarmed /\ cmd' = cmd
        /\ runnable_send' = runnable_send /\ wpc' = wpc /\ cur' = cur /\ qconn' = qconn
        /\ conn_terminal' = conn_terminal /\ needs_iteration' = needs_iteration
    BY <1>1 DEF vars, sharedVars, regVars, loopVars, quicheVars
  <2>2. HasTurn' = HasTurn /\ Robin'
    BY <2>1 DEF HasTurn, Robin, Turns
  <2>3. qarmed \subseteq qarmed' /\ (qconn' = "open" => qconn = "open")
        /\ \A t \in Streams : Has(cmd', t, "Send") => Has(cmd, t, "Send")
    BY <2>1
  <2> QED BY <2>1, <2>2, <2>3, TurnsQuiet
<1>2. CASE Worker
  BY <1>2, WorkerTurns
<1>3. CASE Peer
  BY <1>3, LoopTurns, PeerTurns, RecvDoneTurns DEF Peer
<1>4. CASE \E s \in Streams : \/ Polls(s) \/ StartFinish(s) \/ CallReset(s) \/ DropHandle(s)
                              \/ \E k \in Sizes : StartWrite(s, k)
  BY <1>4, FrontEndTurns
<1> QED BY <1>1, <1>2, <1>3, <1>4 DEF Next

\* The round robin and the work agree: a live stream with operations has a
\* turn or will be reported writable, an applied reset keeps its turn until
\* RESET_STREAM is out, and an id never outlives its work (mark_send_runnable,
\* stage_writable, service_send_turn's outcomes and rearm_send).
THEOREM WorkCovered == Spec => []WorkIsCovered
<1>1. Init => IInv /\ Turns
  BY InitInvariant, InitTurns
<1>2. IInv /\ Turns /\ [Next]_vars => (IInv /\ Turns)'
  BY StepInvariant, StepTurns
<1>3. IInv /\ Turns => WorkIsCovered
  BY TurnsAre
<1> QED BY <1>1, <1>2, <1>3, PTL DEF Spec

-----------------------------------------------------------------------------
(* The bytes *)

\* A count is a number, and nothing is counted that is not there.
LEMMA Counted ==
  ASSUME NEW w \in Seq(Units), NEW m
  PROVE  /\ Count(w, m) \in Nat /\ ((\A i \in DOMAIN w : w[i] # m) => Count(w, m) = 0)
         /\ IsFiniteSet({i \in DOMAIN w : w[i] = m})
<1> DEFINE C == {i \in DOMAIN w : w[i] = m}
<1>1. Len(w) \in Nat /\ DOMAIN w = 1..Len(w)
  OBVIOUS
<1>2. IsFiniteSet(1..Len(w))
  BY <1>1, FS_Interval
<1>3. C \subseteq 1..Len(w)
  BY <1>1
<1>4. IsFiniteSet(C)
  BY <1>2, <1>3, FS_Subset
<1>5. Cardinality(C) \in Nat
  BY <1>4, FS_CardinalityType
<1>6. ASSUME \A i \in DOMAIN w : w[i] # m PROVE Cardinality(C) = 0
  <2>1. C = {}
    BY <1>6
  <2> QED BY <2>1, FS_EmptySet
<1> QED BY <1>4, <1>5, <1>6 DEF Count

\* An accepted stream_send counts for its write alone.
LEMMA CountGrows ==
  ASSUME NEW a \in Seq(Units), NEW w \in Nat, NEW n \in Nat, NEW f \in Seq({FIN}), Len(f) \in {0, 1},
         NEW b, IsGrown(b, a, w, n, f), NEW m \in Nat \ {0}
  PROVE  Count(b, m) = IF m = w THEN Count(a, m) + n ELSE Count(a, m)
<1> DEFINE A == {i \in DOMAIN a : a[i] = m}
           B == {i \in DOMAIN b : b[i] = m}
           I == Len(a) + 1..Len(a) + n
<1>0. /\ b \in Seq(Units) /\ Len(b) = Len(a) + n + Len(f)
      /\ \A i \in 1..Len(a) : b[i] = a[i]
      /\ \A i \in Len(a) + 1..Len(a) + n : b[i] = w
      /\ Len(f) = 1 => b[Len(a) + n + 1] = FIN
  BY DEF IsGrown
<1>1. Len(a) \in Nat /\ DOMAIN a = 1..Len(a) /\ DOMAIN b = 1..Len(a) + n + Len(f) /\ Len(f) \in Nat
  BY <1>0
<1>2. \A i \in DOMAIN b : i \in DOMAIN a \/ i \in I \/ (Len(f) = 1 /\ b[i] = FIN)
  <2>0. \A l, j, k \in Nat : \A x \in 1..l + j + k :
          (k = 0 \/ k = 1) => x \in 1..l \/ x \in l + 1..l + j \/ (k = 1 /\ x = l + j + 1)
    OBVIOUS
  <2>1. \A i \in DOMAIN b : i \in 1..Len(a) \/ i \in I \/ (Len(f) = 1 /\ i = Len(a) + n + 1)
    BY <1>1, <2>0
  <2> QED BY <1>0, <1>1, <2>1
<1>3. m # FIN
  BY DEF FIN
<1>4. /\ \A i \in DOMAIN a : i \in DOMAIN b /\ b[i] = a[i] /\ i \notin I
      /\ \A i \in I : i \in DOMAIN b /\ b[i] = w
  <2>1. \A i \in DOMAIN a : i \in DOMAIN b /\ i \notin I
    BY <1>1
  <2>2. \A i \in I : i \in DOMAIN b
    BY <1>1
  <2> QED BY <1>0, <1>1, <2>1, <2>2
<1>5. IsFiniteSet(A) /\ Cardinality(A) = Count(a, m) /\ Cardinality(B) = Count(b, m) /\ Count(a, m) \in Nat
  BY Counted DEF Count
<1>6. IsFiniteSet(I) /\ Cardinality(I) = n
  <2>1. Len(a) + 1 \in Int /\ Len(a) + n \in Int
    BY <1>1
  <2>2. \A l \in Nat : IsFiniteSet(l + 1..l + n) /\ Cardinality(l + 1..l + n) = n
    <3> SUFFICES ASSUME NEW l \in Nat PROVE IsFiniteSet(l + 1..l + n) /\ Cardinality(l + 1..l + n) = n
      OBVIOUS
    <3> DEFINE x == l + 1
               y == l + n
    <3>1. x \in Int /\ y \in Int /\ (x > y <=> n = 0) /\ y - x + 1 = n
      OBVIOUS
    <3> HIDE DEF x, y
    <3>2. IsFiniteSet(x..y) /\ Cardinality(x..y) = IF x > y THEN 0 ELSE y - x + 1
      BY <3>1, FS_Interval
    <3>3. IsFiniteSet(x..y) /\ Cardinality(x..y) = n
      BY <3>1, <3>2
    <3> QED BY <3>3 DEF x, y
  <2> QED BY <1>1, <2>2
<1>7. CASE m = w
  <2>1. B = A \cup I /\ A \cap I = {}
    <3> HIDE DEF I
    <3> QED BY <1>2, <1>3, <1>4, <1>7
  <2> HIDE DEF A, B, I
  <2>2. Cardinality(A \cap I) = 0
    BY <2>1, FS_EmptySet
  <2>3. Cardinality(B) = Cardinality(A) + Cardinality(I) - Cardinality(A \cap I)
    BY <1>5, <1>6, <2>1, FS_Union
  <2> QED BY <1>5, <1>6, <1>7, <2>2, <2>3
<1>8. CASE m # w
  <2>1. B = A
    <3> HIDE DEF I
    <3> QED BY <1>2, <1>3, <1>4, <1>8
  <2> HIDE DEF A, B
  <2> QED BY <1>5, <1>8, <2>1
<1> QED BY <1>7, <1>8

\* n more units of write w keep the writes in order and within their sizes.
Fits(a, c, w, n) ==
  /\ w \in 1..Len(c) /\ \A i \in DOMAIN a : a[i] <= w
  /\ \A m \in 1..w - 1 : Count(a, m) = c[m]
  /\ Count(a, w) + n <= c[w]

LEMMA SizesAre ==
  ASSUME NEW c \in Seq(Nat)
  PROVE  \A m \in 1..Len(c) : c[m] \in Nat /\ m \in Nat \ {0}
OBVIOUS

LEMMA BodyGrows ==
  ASSUME NEW a \in Seq(Units), NEW c \in Seq(Nat), NEW w \in Nat, NEW n \in Nat,
         NEW f \in Seq({FIN}), Len(f) \in {0, 1}, NEW b, IsGrown(b, a, w, n, f),
         IsBody(a, c), FIN \notin Elems(a), RESET \notin Elems(a),
         n = 0 \/ Fits(a, c, w, n), Len(f) = 1 => \A m \in 1..Len(c) : Count(b, m) = c[m]
  PROVE  IsBody(b, c)
<1>0. /\ b \in Seq(Units) /\ Len(b) = Len(a) + n + Len(f)
      /\ \A i \in 1..Len(a) : b[i] = a[i]
      /\ \A i \in Len(a) + 1..Len(a) + n : b[i] = w
      /\ Len(f) = 1 => b[Len(a) + n + 1] = FIN
  BY DEF IsGrown
<1>1. /\ Len(a) \in Nat /\ DOMAIN a = 1..Len(a) /\ DOMAIN b = 1..Len(a) + n + Len(f) /\ Len(f) \in Nat
      /\ Len(f) = 0 \/ Len(f) = 1
  BY <1>0
<1>2. \A i \in DOMAIN a : a[i] \in Nat \ {0}
  <2> SUFFICES ASSUME NEW i \in DOMAIN a PROVE a[i] \in Nat \ {0}
    OBVIOUS
  <2>1. a[i] \in Units /\ a[i] # FIN /\ a[i] # RESET
    BY DEF Elems
  <2> QED BY <2>1 DEF Units, FIN
<1>3. ASSUME NEW m \in Nat \ {0}
      PROVE  /\ Count(a, m) \in Nat /\ (n = 0 \/ m # w => Count(b, m) = Count(a, m))
             /\ m = w => Count(b, m) = Count(a, m) + n
  <2>1. Count(a, m) \in Nat
    BY Counted
  <2>2. Count(b, m) = IF m = w THEN Count(a, m) + n ELSE Count(a, m)
    BY CountGrows
  <2> QED BY <2>1, <2>2
<1>4. \A i \in DOMAIN b : \/ i \in DOMAIN a /\ b[i] = a[i]
                          \/ i \in Len(a) + 1..Len(a) + n /\ b[i] = w /\ n # 0
                          \/ Len(f) = 1 /\ i = Len(b) /\ b[i] = FIN
  <2>0. \A l, j, k \in Nat : \A x \in 1..l + j + k :
          (k = 0 \/ k = 1) => x \in 1..l \/ (x \in l + 1..l + j /\ j # 0) \/ (k = 1 /\ x = l + j + 1)
    OBVIOUS
  <2>1. \A i \in DOMAIN b : \/ i \in 1..Len(a) \/ (i \in Len(a) + 1..Len(a) + n /\ n # 0)
                            \/ (Len(f) = 1 /\ i = Len(a) + n + 1)
    <3> DEFINE l == Len(a)
    <3> DEFINE k == Len(f)
    <3>1. l \in Nat /\ k \in Nat /\ (k = 0 \/ k = 1) /\ DOMAIN b = 1..l + n + k
      BY <1>1
    <3> HIDE DEF l, k
    <3>2. \A i \in 1..l + n + k : i \in 1..l \/ (i \in l + 1..l + n /\ n # 0) \/ (k = 1 /\ i = l + n + 1)
      BY <3>1, <2>0, Zenon
    <3> QED BY <3>1, <3>2, Zenon DEF l, k
  <2>2. Len(b) = Len(a) + n + 1 \/ Len(f) # 1
    BY <1>0, <1>1
  <2> SUFFICES ASSUME NEW i \in DOMAIN b
               PROVE  \/ i \in DOMAIN a /\ b[i] = a[i]
                      \/ i \in Len(a) + 1..Len(a) + n /\ b[i] = w /\ n # 0
                      \/ Len(f) = 1 /\ i = Len(b) /\ b[i] = FIN
    OBVIOUS
  <2>3. CASE i \in 1..Len(a)
    BY <1>0, <1>1, <2>3, Zenon
  <2>4. CASE i \in Len(a) + 1..Len(a) + n /\ n # 0
    BY <1>0, <2>4, Zenon
  <2>5. CASE Len(f) = 1 /\ i = Len(a) + n + 1
    BY <1>0, <2>2, <2>5, Zenon
  <2> QED BY <2>1, <2>3, <2>4, <2>5, Zenon
<1>5. \A m \in 1..Len(c) : c[m] \in Nat /\ m \in Nat \ {0}
  BY SizesAre, Zenon
<1>6. ASSUME NEW j \in DOMAIN b
      PROVE  /\ \A i \in 1..j - 1 : b[i] > 0
             /\ b[j] <= Len(c)
             /\ b[j] > 0 =>
                  /\ Count(b, b[j]) <= c[b[j]]
                  /\ \A i \in 1..j - 1 : b[i] <= b[j]
                  /\ \A m \in 1..b[j] - 1 : Count(b, m) = c[m]
  <2>1. j \in Nat /\ j <= Len(b) /\ \A i \in 1..j - 1 : i \in DOMAIN b /\ i # Len(b)
    BY <1>0, <1>1
  <2>2. n # 0 => Fits(a, c, w, n) /\ w \in 1..Len(c) /\ w > 0 /\ w <= Len(c)
    BY DEF Fits
  <2>3. ASSUME NEW i \in 1..j - 1 PROVE b[i] > 0
    <3>1. i \in DOMAIN b /\ i # Len(b)
      BY <2>1
    <3>2. (i \in DOMAIN a /\ b[i] = a[i]) \/ (b[i] = w /\ n # 0)
      BY <1>4, <3>1
    <3>3. n # 0 => w \in Nat \ {0}
      BY <2>2
    <3>4. b[i] \in Nat \ {0}
      BY <1>2, <3>2, <3>3, Zenon
    <3> QED BY <3>4
  <2>4. CASE j \in DOMAIN a /\ b[j] = a[j]
    <3>0. \A i \in 1..j - 1 : i \in 1..Len(a)
      BY <1>1, <2>4
    <3>1. \A i \in 1..j - 1 : i \in DOMAIN a /\ b[i] = a[i]
      BY <1>0, <1>1, <3>0, Zenon
    <3> DEFINE x == a[j]
    <3>2. x \in Nat \ {0} /\ x > 0
      BY <1>2, <2>4
    <3>3. /\ x <= Len(c) /\ Count(a, x) <= c[x] /\ \A i \in 1..j - 1 : a[i] <= x
          /\ \A m \in 1..x - 1 : Count(a, m) = c[m]
      BY <2>4, <3>2 DEF IsBody
    <3>4. n # 0 => x <= w
      BY <2>2, <2>4 DEF Fits
    <3> HIDE DEF x
    <3>5. ASSUME NEW m \in 1..x - 1 PROVE Count(b, m) = c[m]
      <4>1. m \in Nat \ {0} /\ m < x
        BY <3>2
      <4>2. n # 0 => m # w
        BY <3>2, <3>4, <4>1
      <4>3. Count(b, m) = Count(a, m)
        BY <1>3, <4>1, <4>2
      <4> QED BY <3>3, <4>3
    <3>6. Count(b, x) <= c[x]
      <4>1. CASE n = 0 \/ x # w
        <5>1. Count(b, x) = Count(a, x)
          BY <1>3, <3>2, <4>1
        <5> QED BY <3>3, <5>1
      <4>2. CASE n # 0 /\ x = w
        <5>1. Count(b, x) = Count(a, w) + n
          BY <1>3, <3>2, <4>2
        <5> QED BY <2>2, <4>2, <5>1 DEF Fits
      <4> QED BY <4>1, <4>2
    <3>7. b[j] = x /\ b[j] <= Len(c) /\ \A i \in 1..j - 1 : b[i] <= b[j]
      BY <2>4, <3>1, <3>3 DEF x
    <3>8. \A m \in 1..b[j] - 1 : Count(b, m) = c[m]
      BY <3>5, <3>7
    <3> QED BY <2>3, <3>6, <3>7, <3>8
  <2>5. CASE j \in Len(a) + 1..Len(a) + n /\ b[j] = w /\ n # 0
    <3>1. Fits(a, c, w, n) /\ w \in Nat \ {0} /\ w <= Len(c)
      BY <2>2, <2>5
    <3>2. Count(b, w) <= c[w]
      <4>1. Count(b, w) = Count(a, w) + n
        BY <1>3, <3>1
      <4> QED BY <3>1, <4>1 DEF Fits
    <3>3. ASSUME NEW i \in 1..j - 1 PROVE b[i] <= w
      <4>1. i \in DOMAIN b /\ i # Len(b)
        BY <2>1
      <4>2. (i \in DOMAIN a /\ b[i] = a[i]) \/ b[i] = w
        BY <1>4, <4>1
      <4> QED BY <3>1, <4>2 DEF Fits
    <3>4. ASSUME NEW m \in 1..w - 1 PROVE Count(b, m) = c[m]
      <4>1. m \in Nat \ {0} /\ m # w
        OBVIOUS
      <4>2. Count(b, m) = Count(a, m)
        BY <1>3, <4>1
      <4> QED BY <3>1, <4>2 DEF Fits
    <3> QED BY <2>3, <2>5, <3>1, <3>2, <3>3, <3>4
  <2>6. CASE Len(f) = 1 /\ j = Len(b) /\ b[j] = FIN
    <3>1. b[j] = 0 /\ Len(c) \in Nat
      BY <2>6 DEF FIN
    <3>2. ~(b[j] > 0) /\ b[j] <= Len(c)
      BY <3>1
    <3> QED BY <2>3, <3>2
  <2> QED BY <1>4, <2>4, <2>5, <2>6
<1>7. ASSUME FIN \in Elems(b) PROVE \A m \in 1..Len(c) : Count(b, m) = c[m]
  <2>1. PICK i \in DOMAIN b : b[i] = FIN
    BY <1>7 DEF Elems
  <2>2. Len(f) = 1
    BY <1>2, <1>4, <2>1 DEF FIN, Fits
  <2> QED BY <2>2
<1> QED BY <1>6, <1>7 DEF IsBody

\* RESET_STREAM ends the wire and counts for no write.
LEMMA BodyReset ==
  ASSUME NEW a \in Seq(Units), NEW c \in Seq(Nat), IsBody(a, c), FIN \notin Elems(a), RESET \notin Elems(a)
  PROVE  IsBody(Append(a, RESET), c)
<1> DEFINE b == Append(a, RESET)
<1>1. /\ Len(a) \in Nat /\ DOMAIN a = 1..Len(a) /\ DOMAIN b = 1..Len(a) + 1
      /\ b[Len(a) + 1] = RESET /\ \A i \in 1..Len(a) : b[i] = a[i]
  OBVIOUS
<1> HIDE DEF b
<1>2. /\ \A i \in DOMAIN b : i \in DOMAIN a \/ i = Len(a) + 1
      /\ \A i \in DOMAIN a : i \in DOMAIN b /\ b[i] = a[i]
  BY <1>1
<1>3. \A i \in DOMAIN a : a[i] \in Nat \ {0}
  <2> SUFFICES ASSUME NEW i \in DOMAIN a PROVE a[i] \in Nat \ {0}
    OBVIOUS
  <2>1. a[i] \in Units /\ a[i] # FIN /\ a[i] # RESET
    BY DEF Elems
  <2> QED BY <2>1 DEF Units, FIN
<1>4. ASSUME NEW m \in Nat PROVE Count(b, m) = Count(a, m)
  <2>1. m # RESET
    BY DEF RESET
  <2>2. {i \in DOMAIN b : b[i] = m} = {i \in DOMAIN a : a[i] = m}
    BY <1>1, <1>2, <2>1
  <2> QED BY <2>2 DEF Count
<1>5. ASSUME NEW j \in DOMAIN b
      PROVE  /\ \A i \in 1..j - 1 : b[i] > 0
             /\ b[j] <= Len(c)
             /\ b[j] > 0 =>
                  /\ Count(b, b[j]) <= c[b[j]]
                  /\ \A i \in 1..j - 1 : b[i] <= b[j]
                  /\ \A m \in 1..b[j] - 1 : Count(b, m) = c[m]
  <2>1. \A i \in 1..j - 1 : i \in DOMAIN a /\ b[i] = a[i]
    BY <1>1
  <2>2. \A i \in 1..j - 1 : b[i] > 0
    <3> SUFFICES ASSUME NEW i \in 1..j - 1 PROVE b[i] > 0
      OBVIOUS
    <3>1. b[i] \in Nat \ {0}
      BY <1>3, <2>1
    <3> QED BY <3>1
  <2>3. CASE j = Len(a) + 1
    <3>1. b[j] = -1 /\ Len(c) \in Nat
      BY <1>1, <2>3 DEF RESET
    <3>2. ~(b[j] > 0) /\ b[j] <= Len(c)
      BY <3>1
    <3> QED BY <2>2, <3>2
  <2>4. CASE j \in DOMAIN a
    <3> DEFINE x == a[j]
    <3>2. x \in Nat \ {0} /\ x > 0
      BY <1>3, <2>4
    <3>3. /\ x <= Len(c) /\ Count(a, x) <= c[x] /\ \A i \in 1..j - 1 : a[i] <= x
          /\ \A m \in 1..x - 1 : Count(a, m) = c[m]
      BY <2>4, <3>2 DEF IsBody
    <3>4. b[j] = x
      BY <1>2, <2>4
    <3>5. b[j] <= Len(c) /\ \A i \in 1..j - 1 : b[i] <= b[j]
      BY <2>1, <3>3, <3>4
    <3> HIDE DEF x
    <3>6. Count(b, x) <= c[x]
      BY <1>4, <3>2, <3>3
    <3>7. \A m \in 1..x - 1 : Count(b, m) = c[m]
      <4>1. \A m \in 1..x - 1 : m \in Nat
        OBVIOUS
      <4> QED BY <1>4, <3>3, <4>1
    <3> QED BY <2>2, <3>4, <3>5, <3>6, <3>7
  <2> QED BY <1>2, <2>3, <2>4
<1>6. FIN \notin Elems(b)
  <2>1. FIN # RESET
    BY DEF FIN, RESET
  <2> QED BY <1>1, <1>2, <2>1 DEF Elems
<1>7. IsBody(b, c)
  BY <1>5, <1>6 DEF IsBody
<1> QED BY <1>7 DEF b

\* A new write does not change what is on the wire, and none of it is there.
LEMMA BodyLonger ==
  ASSUME NEW a \in Seq(Units), NEW c \in Seq(Nat), IsBody(a, c), FIN \notin Elems(a), NEW k \in Nat
  PROVE  IsBody(a, Append(c, k)) /\ Count(a, Len(c) + 1) = 0
<1> DEFINE d == Append(c, k)
<1>1. d \in Seq(Nat) /\ Len(d) = Len(c) + 1 /\ Len(c) \in Nat /\ \A m \in 1..Len(c) : d[m] = c[m]
  OBVIOUS
<1> HIDE DEF d
<1>2. ASSUME NEW j \in DOMAIN a
      PROVE  /\ \A i \in 1..j - 1 : a[i] > 0
             /\ a[j] <= Len(d) /\ a[j] # Len(c) + 1
             /\ a[j] > 0 =>
                  /\ Count(a, a[j]) <= d[a[j]]
                  /\ \A i \in 1..j - 1 : a[i] <= a[j]
                  /\ \A m \in 1..a[j] - 1 : Count(a, m) = d[m]
  <2> DEFINE x == a[j]
  <2>1. x \in Units
    OBVIOUS
  <2>2. /\ \A i \in 1..j - 1 : a[i] > 0
        /\ x <= Len(c)
        /\ x > 0 =>
             /\ Count(a, x) <= c[x]
             /\ \A i \in 1..j - 1 : a[i] <= x
             /\ \A m \in 1..x - 1 : Count(a, m) = c[m]
    BY DEF IsBody
  <2> HIDE DEF x
  <2>3. x \in Int
    BY <2>1 DEF Units, RESET
  <2>4. x <= Len(d) /\ x # Len(c) + 1
    BY <1>1, <2>2, <2>3
  <2>5. ASSUME x > 0 PROVE d[x] = c[x] /\ \A m \in 1..x - 1 : d[m] = c[m]
    <3>1. x \in 1..Len(c) /\ \A m \in 1..x - 1 : m \in 1..Len(c)
      BY <1>1, <2>2, <2>3, <2>5
    <3> QED BY <1>1, <3>1
  <2>6. ASSUME x > 0
        PROVE  /\ Count(a, x) <= d[x] /\ \A i \in 1..j - 1 : a[i] <= x
               /\ \A m \in 1..x - 1 : Count(a, m) = d[m]
    BY <2>2, <2>5, <2>6
  <2> QED BY <2>2, <2>4, <2>6 DEF x
<1>3. IsBody(a, d)
  BY <1>2 DEF IsBody
<1>4. Count(a, Len(c) + 1) = 0
  BY <1>2, Counted
<1> QED BY <1>3, <1>4 DEF d

LEMMA BodyAre == IInv /\ BodyInv => WireIsBody
<1> SUFFICES ASSUME IInv, BodyInv PROVE WireIsBody
  OBVIOUS
<1>1. ASSUME NEW s \in Streams
      PROVE  /\ \A j \in DOMAIN wire[s] :
                  /\ \A i \in 1..j - 1 : wire[s][i] > 0
                  /\ wire[s][j] > 0 =>
                       /\ UnitsOf(s, wire[s][j]) <= submitted[s][wire[s][j]]
                       /\ \A i \in 1..j - 1 : wire[s][i] <= wire[s][j]
                       /\ \A n \in 1..wire[s][j] - 1 : UnitsOf(s, n) = submitted[s][n]
             /\ FIN \in Elems(wire[s]) =>
                  \A n \in 1..Len(submitted[s]) : UnitsOf(s, n) = submitted[s][n]
  <2>1. IsBody(wire[s], submitted[s])
    BY DEF BodyInv, Body
  <2>2. \A n : UnitsOf(s, n) = Count(wire[s], n)
    BY DEF UnitsOf, Count
  <2> QED BY <2>1, <2>2 DEF IsBody
<1> QED BY <1>1 DEF WireIsBody

\* A stream whose wire and writes stay, and that is over or is not touched.
LEMMA BodySame ==
  ASSUME NEW t \in Streams, Body(t), wire'[t] = wire[t], submitted'[t] = submitted[t],
         \/ ~Live(t)'
         \/ SameEntry(t) /\ (Has(cmd', t, "Send") <=> Has(cmd, t, "Send"))
  PROVE  Body(t)'
<1>1. IsBody(wire[t], submitted[t])'
  BY DEF Body
<1>2. CASE ~Live(t)'
  BY <1>1, <1>2 DEF Body
<1>3. CASE SameEntry(t) /\ (Has(cmd', t, "Send") <=> Has(cmd, t, "Send"))
  <2>1. /\ Entry(t)' = Entry(t) /\ OpsOf(t)' = OpsOf(t) /\ (Writing(t)' <=> Writing(t))
        /\ Live(t)' => Live(t)
    BY <1>3 DEF SameEntry, OpsOf, Writing, Live
  <2>2. Carried(t) => Carried(t)'
    BY <1>3, <2>1 DEF Carried
  <2> QED BY <1>1, <2>1, <2>2 DEF Body
<1> QED BY <1>2, <1>3

LEMMA BodyQuiet ==
  ASSUME BodyInv, wire' = wire, submitted' = submitted, send' = send, cmd' = cmd
  PROVE  BodyInv'
<1>1. ASSUME NEW t \in Streams PROVE Body(t)'
  <2>1. SameEntry(t)
    BY EntryStays
  <2> QED BY <2>1, BodySame DEF BodyInv
<1> QED BY <1>1 DEF BodyInv

\* A step of one stream.
LEMMA BodyOf ==
  ASSUME BodyInv, NEW s \in Streams, Body(s)',
         \A t \in Streams : t # s => /\ wire'[t] = wire[t] /\ submitted'[t] = submitted[t] /\ SameEntry(t)
                                     /\ (Has(cmd', t, "Send") <=> Has(cmd, t, "Send"))
  PROVE  BodyInv'
<1>1. ASSUME NEW t \in Streams, t # s PROVE Body(t)'
  BY <1>1, BodySame DEF BodyInv
<1> QED BY <1>1 DEF BodyInv

LEMMA OwesNone ==
  ASSUME NEW ops, ~HasOp(ops, "write"), NEW c, NEW k
  PROVE  Owes(ops, c, k)
BY DEF Owes, HasOp

LEMMA OwesAppend ==
  ASSUME NEW ops \in Seq(Ops), NEW op \in Ops, NEW c, NEW k, Owes(ops, c, k), op.kind = "write" => c + op.rem = k
  PROVE  Owes(Append(ops, op), c, k)
<1> DEFINE a == Append(ops, op)
<1>1. /\ DOMAIN a = 1..Len(ops) + 1 /\ DOMAIN ops = 1..Len(ops) /\ Len(ops) \in Nat
      /\ a[Len(ops) + 1] = op /\ \A i \in 1..Len(ops) : a[i] = ops[i]
  OBVIOUS
<1> HIDE DEF a
<1>2. \A i \in DOMAIN a : (i \in DOMAIN ops /\ a[i] = ops[i]) \/ a[i] = op
  BY <1>1
<1>3. Owes(a, c, k)
  BY <1>2 DEF Owes
<1> QED BY <1>3 DEF a

LEMMA OwesHead ==
  ASSUME NEW ops \in Seq(Ops), ops # <<>>, NEW c, NEW k, Owes(ops, c, k), Head(ops).kind = "write"
  PROVE  c + Head(ops).rem = k
<1>1. 1 \in DOMAIN ops /\ Head(ops) = ops[1]
  OBVIOUS
<1> QED BY <1>1 DEF Owes

LEMMA OwesShorten ==
  ASSUME NEW ops \in Seq(Ops), ops # <<>>, OpsInOrder(ops), NEW n \in Nat, NEW c, NEW k, c + n = k
  PROVE  Owes([ops EXCEPT ![1].rem = n], c, k)
<1> DEFINE a == [ops EXCEPT ![1].rem = n]
<1>1. OpsInOrder(a) /\ DOMAIN a = DOMAIN ops /\ a[1].rem = n
  BY OpShorten
<1> HIDE DEF a
<1>2. \A i \in DOMAIN a : a[i].kind = "write" => i = 1
  BY <1>1 DEF OpsInOrder
<1>3. Owes(a, c, k)
  BY <1>1, <1>2 DEF Owes
<1> QED BY <1>3 DEF a

LEMMA InitBody == Init => BodyInv
<1> SUFFICES ASSUME Init, NEW s \in Streams PROVE Body(s)
  BY DEF BodyInv
<1>1. wire[s] = <<>> /\ submitted[s] = <<>> /\ cmd = <<>>
  BY DEF Init
<1>8. PICK sh \in BOOLEAN : Entry(s) = NewState(sh)
  BY InitBuilt
<1>2. IsBody(<<>>, <<>>)
  BY DEF IsBody, Elems
<1>3. OpsOf(s) = <<>> /\ Entry(s).held = NoHeld
  BY <1>8 DEF OpsOf, NewState
<1>4. ~Has(cmd, s, "Send") /\ ~HasOp(OpsOf(s), "write")
  BY <1>1, <1>3, CmdNone, OpNone
<1>5. ~Writing(s) /\ Owes(OpsOf(s), Count(wire[s], Len(submitted[s])), submitted[s][Len(submitted[s])])
  BY <1>4, OwesNone DEF Writing
<1>6. Len(submitted[s]) = 0 /\ 1..Len(submitted[s]) = {}
  BY <1>1
<1>7. Carried(s)
  BY <1>3, <1>4, <1>5, <1>6 DEF Carried
<1> QED BY <1>1, <1>2, <1>7 DEF Body

\* The front end.
LEMMA FlushWriteBody ==
  ASSUME IInv, BodyInv, NEW s \in Streams, FlushWrite(s)
  PROVE  BodyInv'
<1> DEFINE g == Len(submitted[s])
           h == Entry(s).held
<1>1. /\ Queues(s) /\ Handle(s) /\ TypeFront /\ TypeShared /\ Stage /\ Body(s) /\ Entry(s) \in Entries
      /\ wire[s] \in Seq(Units) /\ submitted[s] \in Seq(Nat) /\ g \in Nat /\ fpc[s] = "flush" /\ size[s] \in Nat
  BY Known DEF BodyInv, FlushWrite, TypeFront
<1> DEFINE c == Send(s, g + 1, size[s])
<1>2. /\ UNCHANGED workerVars /\ submitted' = [submitted EXCEPT ![s] = Append(@, size[s])]
      /\ (ingress /\ cmd' = Append(cmd, c)) \/ (~ingress /\ cmd' = cmd)
      /\ cmd \in Seq(Commands) /\ c \in Commands /\ c.id = s /\ c.op = "Send"
  BY <1>1 DEF FlushWrite, Generation, TypeShared, Send, Commands
<1> HIDE DEF c
<1>3. /\ send' = send /\ wire' = wire /\ Entry(s)' = Entry(s) /\ OpsOf(s)' = OpsOf(s)
      /\ \A t \in Streams : SameEntry(t)
  BY <1>2, EntryStays DEF workerVars, regVars, quicheVars, Entry, OpsOf
<1>4. /\ submitted'[s] = Append(submitted[s], size[s])
      /\ \A t \in Streams : t # s => submitted'[t] = submitted[t]
  BY <1>1, <1>2 DEF TypeFront
<1>5. ~Writing(s) /\ ~Finishing(s)
  BY <1>1 DEF Handle
<1>6. IsBody(wire[s], submitted[s]) /\ FIN \notin Elems(wire[s])
  BY <1>1, <1>5 DEF Body, Finishing, Wrote
<1>7. IsBody(wire'[s], submitted'[s]) /\ Count(wire'[s], g + 1) = 0
  BY <1>1, <1>3, <1>4, <1>6, BodyLonger
<1>8. \A t \in Streams : t # s => (Has(cmd', t, "Send") <=> Has(cmd, t, "Send"))
  <2>1. ASSUME NEW t \in Streams, t # s PROVE Has(Append(cmd, c), t, "Send") <=> Has(cmd, t, "Send")
    BY <1>2, <2>1, CmdAppend
  <2> QED BY <1>2, <2>1
<1>9. CASE ~ingress
  <2>1. ~Live(s)
    BY <1>1, <1>9 DEF Stage, Live, Entry
  <2>2. ~Live(s)'
    BY <1>3, <2>1 DEF Live
  <2>3. Body(s)'
    BY <1>7, <2>2 DEF Body
  <2> QED BY <1>3, <1>4, <1>8, <2>3, BodyOf
<1>10. CASE ingress
  <2>1. Live(s)' => Live(s) /\ Carried(s)
    BY <1>1, <1>3 DEF Live, Body
  <2>2. /\ Len(submitted'[s]) = g + 1 /\ \A n \in 1..g : submitted'[s][n] = submitted[s][n]
    BY <1>1, <1>4
  <2>3. \A n \in 1..g + 1 : n # g + 1 => n \in 1..g
    BY <1>1
  <2>4. ASSUME Carried(s) PROVE Carried(s)'
    <3>1. /\ \A n \in 1..g : n # h.n => Count(wire[s], n) = submitted[s][n]
          /\ h # NoHeld =>
               /\ h.n \in 1..g /\ h.rem > 0 /\ Count(wire[s], h.n) + h.rem = submitted[s][h.n]
               /\ \A i \in DOMAIN wire[s] : wire[s][i] <= h.n
      BY <1>5, <2>4 DEF Carried
    <3>2. h.n # g + 1 /\ (h # NoHeld => h.n \in 1..g + 1)
      <4>1. CASE h # NoHeld
        BY <1>1, <3>1, <4>1
      <4>2. CASE h = NoHeld
        BY <1>1, <4>2 DEF NoHeld
      <4> QED BY <4>1, <4>2
    <3> HIDE DEF h
    <3>3. \A n \in 1..g + 1 : n # h.n /\ ~(n = g + 1 /\ Writing(s)') => Count(wire[s], n) = submitted'[s][n]
      <4>1. Writing(s)'
        <5>1. Has(Append(cmd, c), s, "Send")
          BY <1>2, CmdAppend
        <5>2. Has(cmd', s, "Send")
          BY <1>2, <1>10, <5>1
        <5> QED BY <5>2 DEF Writing
      <4> QED BY <2>2, <2>3, <3>1, <4>1
    <3>4. ~HasOp(OpsOf(s)', "write")
      BY <1>3, <1>5 DEF Writing
    <3>5. Owes(OpsOf(s)', Count(wire'[s], g + 1), submitted'[s][g + 1])
      BY <3>4, OwesNone
    <3>6. h # NoHeld => Count(wire[s], h.n) + h.rem = submitted'[s][h.n]
      BY <2>2, <3>1
    <3>7. Entry(s)'.held = h
      BY <1>3 DEF h
    <3> QED BY <1>3, <1>7, <2>2, <3>1, <3>2, <3>3, <3>5, <3>6, <3>7 DEF Carried
  <2>5. Body(s)'
    BY <1>7, <2>1, <2>4 DEF Body
  <2> QED BY <1>3, <1>4, <1>8, <2>5, BodyOf
<1> QED BY <1>9, <1>10

LEMMA FrontEndBody ==
  ASSUME IInv, BodyInv, NEW s \in Streams,
         \/ Polls(s) \/ StartFinish(s) \/ CallReset(s) \/ DropHandle(s)
         \/ \E k \in Sizes : StartWrite(s, k)
  PROVE  BodyInv'
<1>0. cmd \in Seq(Commands)
  BY Known DEF TypeShared
<1>1. ASSUME UNCHANGED workerVars, submitted' = submitted,
             cmd' = cmd \/ \E c \in Commands : c.op # "Send" /\ cmd' = Append(cmd, c)
      PROVE  BodyInv'
  <2>1. send' = send /\ wire' = wire /\ \A t \in Streams : SameEntry(t)
    BY <1>1, EntryStays DEF workerVars, regVars, quicheVars
  <2>2. \A t \in Streams : Has(cmd', t, "Send") <=> Has(cmd, t, "Send")
    <3>1. CASE cmd' = cmd
      BY <3>1
    <3>2. ASSUME NEW c \in Commands, c.op # "Send", cmd' = Append(cmd, c)
          PROVE  \A t \in Streams : Has(cmd', t, "Send") <=> Has(cmd, t, "Send")
      BY <1>0, <3>2, CmdAppend
    <3> QED BY <1>1, <3>1, <3>2
  <2>3. \A t \in Streams : Body(t)'
    BY <1>1, <2>1, <2>2, BodySame DEF BodyInv
  <2> QED BY <2>3 DEF BodyInv
<1>2. CASE PollWrite(s) \/ PollFinish(s) \/ StartFinish(s) \/ \E k \in Sizes : StartWrite(s, k)
  <2>1. UNCHANGED workerVars /\ cmd' = cmd /\ submitted' = submitted
    BY <1>2 DEF PollWrite, PollFinish, StartFinish, StartWrite, sharedVars
  <2> QED BY <1>1, <2>1
<1>3. CASE CallReset(s)
  <2>1. UNCHANGED workerVars /\ (cmd' = cmd \/ cmd' = Append(cmd, Reset(s))) /\ submitted' = submitted
    BY <1>3 DEF CallReset
  <2> QED BY <1>1, <2>1, CmdMakers
<1>4. CASE FlushFinish(s) \/ DropHandle(s)
  <2>1. UNCHANGED workerVars /\ (cmd' = cmd \/ cmd' = Append(cmd, Finish(s))) /\ submitted' = submitted
    BY <1>4 DEF FlushFinish, DropHandle
  <2> QED BY <1>1, <2>1, CmdMakers
<1>5. CASE FlushWrite(s)
  BY <1>5, FlushWriteBody
<1> QED BY <1>2, <1>3, <1>4, <1>5 DEF Polls

\* The worker's loop, the packets and the streams that quiche refuses leave
\* the bytes alone.
LEMMA LoopBody ==
  ASSUME BodyInv, \/ NoPacketIteration \/ EndApply \/ EndWritable \/ EndSend \/ BeginTurn
                  \/ FlushQuiescent \/ GrantCredit \/ ConnectionClosing
                  \/ \E s \in Streams : PeerStops(s) \/ Collect(s)
  PROVE  BodyInv'
<1>1. send' = send /\ cmd' = cmd /\ wire' = wire /\ submitted' = submitted
  BY DEF NoPacketIteration, EndApply, EndWritable, EndSend, BeginTurn, FlushQuiescent, GrantCredit,
         ConnectionClosing, PeerStops, Collect, packetUnchanged, frontVars, sharedVars, regVars, quicheVars
<1> QED BY <1>1, BodyQuiet

LEMMA RecvDoneBody ==
  ASSUME IInv, BodyInv, NEW s \in Streams, mark_recv_done(s)
  PROVE  BodyInv'
<1>1. /\ cmd' = cmd /\ wire' = wire /\ submitted' = submitted
      /\ send' = Remove(send, s) \/ send' = send
  BY DEF mark_recv_done, frontVars, sharedVars, quicheVars
<1>2. CASE send' = send
  BY <1>1, <1>2, BodyQuiet
<1>3. CASE send' = Remove(send, s)
  <2>1. TypeWorker /\ Body(s)
    BY Known DEF BodyInv
  <2>2. Removed(s)
    BY <1>3, <2>1, RemoveEntry
  <2>3. ~Live(s)' /\ \A t \in Streams : t # s => SameEntry(t)
    BY <2>2 DEF Removed, Live
  <2>4. wire'[s] = wire[s] /\ submitted'[s] = submitted[s]
    BY <1>1
  <2>5. Body(s)'
    BY <2>1, <2>3, <2>4, BodySame
  <2> QED BY <1>1, <2>3, <2>5, BodyOf
<1> QED BY <1>1, <1>2, <1>3

\* The entry of s ends, and its wire stays.
LEMMA EndedBody ==
  ASSUME IInv, BodyInv, NEW s \in Streams, NEW e, Updated(s, e), e.terminal # "none",
         wire' = wire, submitted' = submitted,
         \A t \in Streams : t # s => (Has(cmd', t, "Send") <=> Has(cmd, t, "Send"))
  PROVE  BodyInv'
<1>1. ~Live(s)' /\ \A t \in Streams : t # s => SameEntry(t)
  BY DEF Updated, Live
<1>2. Body(s) /\ wire'[s] = wire[s] /\ submitted'[s] = submitted[s]
  BY DEF BodyInv
<1>3. Body(s)'
  BY <1>1, <1>2, BodySame
<1> QED BY <1>1, <1>3, BodyOf

LEMMA StoppedBody ==
  ASSUME IInv, BodyInv, NEW s \in DOMAIN send, Entry(s).terminal = "none", SendTerminal(s, "stopped"),
         cmd' = cmd, wire' = wire, submitted' = submitted
  PROVE  BodyInv'
<1> DEFINE e == Stopped(Entry(s))
<1>0. s \in Streams
  BY DEF IInv, TypeOK, TypeWorker
<1>1. TypeWorker /\ Entry(s) \in Entries
  BY <1>0, Known
<1>2. send' = [send EXCEPT ![s] = e]
  BY StopIs
<1>3. e \in Entries /\ e.terminal # "none"
  <2>1. "stopped" \in Ends /\ NoHeld \in [n : Nat, rem : Nat] /\ <<>> \in Seq(Ops)
    BY DEF Ends, NoHeld
  <2> QED BY <1>1, <2>1 DEF Entries, Stopped
<1> HIDE DEF e
<1>4. Updated(s, e)
  BY <1>1, <1>2, <1>3, SetEntry
<1> QED BY <1>0, <1>3, <1>4, EndedBody

LEMMA RefusedBody ==
  ASSUME IInv, BodyInv, TurnError \/ \E s \in Streams : stage_writable(s)
  PROVE  BodyInv'
<1>1. /\ cmd' = cmd /\ wire' = wire /\ submitted' = submitted
      /\ \/ send' = send
         \/ \E s \in DOMAIN send : Entry(s).terminal = "none" /\ SendTerminal(s, "stopped")
  <2>1. CASE TurnError
    BY <2>1 DEF TurnError, Working, Entry, regVars, quicheVars, frontVars
  <2>2. ASSUME NEW s \in Streams, stage_writable(s)
        PROVE  /\ cmd' = cmd /\ wire' = wire /\ submitted' = submitted
               /\ \/ send' = send
                  \/ s \in DOMAIN send /\ Entry(s).terminal = "none" /\ SendTerminal(s, "stopped")
    BY <2>2 DEF stage_writable, AlreadyEnding, regVars, frontVars
  <2> QED BY <2>1, <2>2
<1>2. CASE send' = send
  BY <1>1, <1>2, BodyQuiet
<1> QED BY <1>1, <1>2, StoppedBody

\* The inbox: the write moves from the channel to the queue, whole.
LEMMA InboxBody ==
  ASSUME IInv, BodyInv, apply_inbox
  PROVE  BodyInv'
<1>1. PICK s \in Streams :
        cmd # <<>> /\ Head(cmd).id = s /\ cmd' = Tail(cmd) /\ InboxRest /\ InboxCase(s)
  BY InboxCases
<1>2. wire' = wire /\ submitted' = submitted
  BY <1>1, InboxRestIs
<1>3. /\ \A t \in Streams : t # s => SameCmds(t)
      /\ Has(cmd, s, Head(cmd).op) /\ ~Has(cmd', s, "Send")
      /\ Head(cmd).op # "Send" => \A o : Has(cmd, s, o) => o = Head(cmd).op
      /\ Head(cmd).op = "Send" => Head(cmd).n = Len(submitted[s])
  BY <1>1, CommandTaken
<1>4. \A t \in Streams : t # s => (Has(cmd', t, "Send") <=> Has(cmd, t, "Send"))
  BY <1>3 DEF SameCmds
<1>5. /\ TypeShared /\ TypeWorker /\ Queues(s) /\ EntryState(s) /\ Entry(s) \in Entries /\ OpsOf(s) \in Seq(Ops)
      /\ cmd \in Seq(Commands) /\ Body(s)
  BY Known DEF TypeShared, BodyInv
<1>6. CASE Entry(s).terminal # "none" /\ send' = send
  <2>1. ~Live(s)' /\ \A t \in Streams : SameEntry(t)
    BY <1>6, EntryStays DEF Live, SameEntry
  <2>2. Body(s)'
    BY <1>2, <1>5, <2>1, BodySame
  <2> QED BY <1>2, <1>4, <2>1, <2>2, BodyOf
<1>7. CASE (Entry(s).pending_reset \/ Entry(s).terminal # "none") /\ send' = Put(send, s, Entry(s))
  <2>1. Updated(s, Entry(s))
    BY <1>5, <1>7, PutEntry
  <2>2. Entry(s).terminal # "none"
    BY <1>5, <1>7 DEF EntryState
  <2> QED BY <1>2, <1>4, <2>1, <2>2, EndedBody
<1>8. CASE send' = Put(send, s, Aborted(Entry(s)))
  <2> DEFINE e == Aborted(Entry(s))
  <2>1. "reset" \in Ends /\ NoHeld \in [n : Nat, rem : Nat] /\ <<>> \in Seq(Ops)
    BY DEF Ends, NoHeld
  <2>2. e \in Entries /\ e.terminal # "none"
    BY <1>5, <2>1 DEF Aborted, Entries
  <2>3. send' = Put(send, s, e)
    BY <1>8
  <2> HIDE DEF e
  <2>4. Updated(s, e)
    BY <1>5, <2>2, <2>3, PutEntry
  <2> QED BY <1>2, <1>4, <2>2, <2>4, EndedBody
<1>9. CASE /\ Head(cmd).op # "Reset" /\ Entry(s).terminal = "none"
           /\ send' = Put(send, s, Queued(Entry(s), OpOf(Head(cmd))))
  <2> DEFINE op == OpOf(Head(cmd))
             e == Queued(Entry(s), op)
             g == Len(submitted[s])
             k == submitted[s][g]
  <2>1. Head(cmd) \in Commands
    BY <1>1, <1>5, CmdTail
  <2>2. op \in Ops /\ Head(cmd).op \in {"Send", "Finish"}
    BY <1>9, <2>1, OpOfType DEF Commands
  <2>3. /\ Head(cmd).op = "Send" => op.kind = "write" /\ op.rem = Head(cmd).size
        /\ Head(cmd).op = "Finish" => op.kind # "write"
    BY DEF OpOf, WriteOp, FinishOp
  <2>4. Head(cmd).op = "Send" => Head(cmd).size = k
    <3>1. 1 \in DOMAIN cmd /\ Head(cmd) = cmd[1]
      BY <1>1, <1>5
    <3>2. SendsAre(cmd, s, g, k)
      BY <1>5 DEF Queues
    <3> QED BY <1>1, <3>1, <3>2 DEF SendsAre
  <2>5. Append(OpsOf(s), op) \in Seq(Ops) /\ \A x : HasOp(Append(OpsOf(s), op), x) <=> HasOp(OpsOf(s), x) \/ op.kind = x
    BY <1>5, <2>2, OpAppend DEF Queues
  <2>6. send' = Put(send, s, e)
    BY <1>9
  <2> HIDE DEF op
  <2>7. /\ e \in Entries /\ e.send_ops = Append(OpsOf(s), op) /\ e.held = Entry(s).held
        /\ e.finished = Entry(s).finished /\ e.shared = Entry(s).shared /\ e.terminal = "none"
    BY <1>5, <1>9, <2>5 DEF Queued, Entries, OpsOf
  <2> HIDE DEF e
  <2>8. Updated(s, e)
    BY <1>5, <2>6, <2>7, PutEntry
  <2>9. /\ OpsOf(s)' = Append(OpsOf(s), op) /\ Entry(s)'.held = Entry(s).held /\ (Live(s)' => Live(s))
        /\ \A t \in Streams : t # s => SameEntry(t)
    <3>1. Entry(s)' = e /\ \A t \in Streams : t # s => SameEntry(t)
      BY <2>8 DEF Updated
    <3>2. e.shared => s \in DOMAIN send
      BY <2>7 DEF Entry, NewState
    <3> QED BY <1>9, <2>7, <3>1, <3>2 DEF OpsOf, Live
  <2>10. Writing(s)' <=> Writing(s)
    <3>1. Writing(s)' <=> HasOp(OpsOf(s), "write") \/ op.kind = "write"
      BY <1>3, <2>5, <2>9 DEF Writing
    <3>2. Has(cmd, s, "Send") <=> op.kind = "write"
      BY <1>3, <2>2, <2>3
    <3> QED BY <3>1, <3>2 DEF Writing
  <2>11. ASSUME Carried(s) PROVE Carried(s)'
    <3>1. Owes(OpsOf(s), Count(wire[s], g), k)
      BY <2>11 DEF Carried
    <3>2. op.kind = "write" => Count(wire[s], g) + op.rem = k
      <4>1. ASSUME op.kind = "write" PROVE Count(wire[s], g) = 0 /\ op.rem = k
        BY <1>3, <2>2, <2>3, <2>4, <2>11, <4>1 DEF Carried
      <4>2. ASSUME op.kind = "write" PROVE 0 + op.rem = k
        BY <2>2, <4>1, <4>2 DEF Ops
      <4> QED BY <4>1, <4>2
    <3>3. Owes(OpsOf(s)', Count(wire[s], g), k)
      BY <1>5, <2>2, <2>9, <3>1, <3>2, OwesAppend
    <3> QED BY <1>2, <1>3, <2>9, <2>10, <2>11, <3>3 DEF Carried
  <2>12. Body(s)'
    BY <1>2, <1>5, <2>9, <2>11 DEF Body
  <2> QED BY <1>2, <1>4, <2>9, <2>12, BodyOf
<1> QED BY <1>1, <1>6, <1>7, <1>8, <1>9 DEF InboxCase

\* RESET_STREAM.
LEMMA TurnResetBody ==
  ASSUME IInv, Turns, BodyInv, TurnReset
  PROVE  BodyInv'
<1>1. PICK s \in Streams : cur = s
  BY TurnIs DEF TurnReset
<1>2. /\ Entry(s).pending_reset /\ cmd' = cmd /\ submitted' = submitted
      /\ send' = [send EXCEPT ![s].pending_reset = FALSE, ![s].finished = TRUE]
      /\ wire' = [wire EXCEPT ![s] = IF qsend[s] = "gone" THEN @ ELSE Append(@, RESET)]
  BY <1>1 DEF TurnReset, sharedVars, frontVars
<1>3. /\ TypeWorker /\ TypeQuiche /\ Entry(s) \in Entries /\ EntryState(s) /\ Handle(s) /\ Half(s) /\ Body(s)
      /\ s \in DOMAIN send /\ wire[s] \in Seq(Units) /\ submitted[s] \in Seq(Nat)
  BY <1>2, Known DEF Turns, BodyInv, Entry, NewState
<1> DEFINE e == [Entry(s) EXCEPT !.pending_reset = FALSE, !.finished = TRUE]
<1>4. send' = [send EXCEPT ![s] = e] /\ e \in Entries
  <2>1. send[s] = Entry(s)
    BY <1>3 DEF Entry
  <2> QED BY <1>2, <1>3, <2>1 DEF Entries
<1>5. e.finished
  BY <1>3 DEF Entries
<1> HIDE DEF e
<1>6. Updated(s, e)
  BY <1>3, <1>4, SetEntry
<1>7. ~Live(s)' /\ \A t \in Streams : t # s => SameEntry(t)
  BY <1>5, <1>6 DEF Updated, Live
<1>8. /\ wire'[s] = wire[s] \/ wire'[s] = Append(wire[s], RESET)
      /\ \A t \in Streams : t # s => wire'[t] = wire[t]
  BY <1>2, <1>3 DEF TypeQuiche
<1>9. IsBody(wire'[s], submitted'[s])
  <2>1. FIN \notin Elems(wire[s]) /\ RESET \notin Elems(wire[s]) /\ IsBody(wire[s], submitted[s])
    BY <1>2, <1>3 DEF Handle, Finishing, Resetting, Half, Wrote, Body
  <2>2. IsBody(Append(wire[s], RESET), submitted[s])
    BY <1>3, <2>1, BodyReset
  <2> QED BY <1>2, <1>8, <2>1, <2>2
<1>10. Body(s)'
  BY <1>7, <1>9 DEF Body
<1> QED BY <1>2, <1>7, <1>8, <1>10, BodyOf

\* The close ends every entry.
LEMMA CloseBody ==
  ASSUME IInv, BodyInv, ClosePublish \/ CloseIngress
  PROVE  BodyInv'
<1>1. wire' = wire /\ submitted' = submitted
  BY DEF ClosePublish, CloseIngress, quicheVars, frontVars
<1>2. ASSUME NEW t \in Streams PROVE ~Live(t)'
  <2>1. CASE ClosePublish
    <3>1. Closes(t) /\ Entry(t) \in Entries
      BY <2>1, PublishIs, Known
    <3>2. t \in DOMAIN send' => Entry(t)'.terminal # "none"
      BY <3>1, ClosedFields DEF Closes
    <3> QED BY <3>2 DEF Live
  <2>2. CASE CloseIngress
    <3>1. wpc = "close" /\ send' = send /\ Stage
      BY <2>2 DEF CloseIngress, regVars, IInv
    <3>2. ~Live(t)
      BY <3>1 DEF Stage, Live, Entry
    <3>3. SameEntry(t)
      BY <3>1, EntryStays
    <3> QED BY <3>2, <3>3 DEF Live, SameEntry
  <2> QED BY <2>1, <2>2
<1>3. \A t \in Streams : Body(t)'
  BY <1>1, <1>2, BodySame DEF BodyInv
<1> QED BY <1>3 DEF BodyInv

\* The stream of a turn that quiche answers is live, and its wire is open.
LEMMA TurnLive ==
  ASSUME IInv, BodyInv, NEW s \in Streams, TurnFrame(s)
  PROVE  /\ Live(s) /\ Carried(s) /\ IsBody(wire[s], submitted[s])
         /\ FIN \notin Elems(wire[s]) /\ RESET \notin Elems(wire[s])
<1>1. EntryState(s) /\ Body(s) /\ Entry(s) \in Entries
  BY Known DEF BodyInv
<1>2. s \in DOMAIN send /\ Entry(s).terminal = "none" /\ qsend[s] = "open"
  BY DEF TurnFrame
<1>3. ~Wrote(s, FIN) /\ ~Wrote(s, RESET) /\ ~Entry(s).finished /\ Entry(s).shared
  BY <1>1, <1>2 DEF EntryState
<1>4. Live(s)
  BY <1>2, <1>3 DEF Live
<1> QED BY <1>1, <1>3, <1>4 DEF Body, Wrote

\* A turn of s moves nothing of the other streams.
LEMMA TurnBody ==
  ASSUME BodyInv, NEW s \in Streams, TurnFrame(s), Body(s)'
  PROVE  BodyInv'
<1>1. cmd' = cmd /\ submitted' = submitted /\ \A t \in Streams : t # s => SameEntry(t) /\ wire'[t] = wire[t]
  BY DEF TurnFrame, SameQuiche
<1> QED BY <1>1, BodyOf

\* What a stream_send that was accepted does to the wire of s.
LEMMA Appended ==
  ASSUME IInv, BodyInv, NEW s \in Streams, TurnFrame(s), NEW w \in Nat, NEW n \in Nat,
         NEW f \in {<<>>, <<FIN>>}, wire' = [wire EXCEPT ![s] = Grown(wire[s], w, n, f)],
         n = 0 \/ Fits(wire[s], submitted[s], w, n),
         f = <<FIN>> => \A m \in 1..Len(submitted[s]) :
           (IF m = w THEN Count(wire[s], m) + n ELSE Count(wire[s], m)) = submitted[s][m]
  PROVE  /\ IsBody(wire'[s], submitted[s])
         /\ \A m \in Nat \ {0} : /\ m = w => Count(wire'[s], m) = Count(wire[s], m) + n
                                 /\ m # w => Count(wire'[s], m) = Count(wire[s], m)
         /\ n # 0 /\ f = <<>> => \A i \in DOMAIN wire'[s] : wire'[s][i] <= w
<1> DEFINE b == Grown(wire[s], w, n, f)
<1>1. /\ wire[s] \in Seq(Units) /\ submitted[s] \in Seq(Nat) /\ TypeQuiche /\ f \in Seq({FIN})
      /\ Len(f) \in {0, 1} /\ (Len(f) = 1 <=> f = <<FIN>>) /\ (f = <<>> => Len(f) = 0)
  <2>1. wire[s] \in Seq(Units) /\ submitted[s] \in Seq(Nat) /\ TypeQuiche
    BY Known
  <2>2. /\ <<>> \in Seq({FIN}) /\ Len(<<>>) = 0 /\ <<FIN>> \in Seq({FIN}) /\ Len(<<FIN>>) = 1
    OBVIOUS
  <2>3. CASE f = <<>>
    BY <2>1, <2>2, <2>3
  <2>4. CASE f = <<FIN>>
    BY <2>1, <2>2, <2>4
  <2> QED BY <2>3, <2>4
<1>2. wire'[s] = b
  BY <1>1 DEF TypeQuiche
<1>3. IsGrown(b, wire[s], w, n, f)
  BY <1>1, WireGrows
<1> HIDE DEF b
<1>4. ASSUME NEW m \in Nat \ {0}
      PROVE  Count(b, m) = IF m = w THEN Count(wire[s], m) + n ELSE Count(wire[s], m)
  <2> DEFINE a == wire[s]
  <2>1. a \in Seq(Units) /\ f \in Seq({FIN}) /\ Len(f) \in {0, 1} /\ IsGrown(b, a, w, n, f)
    BY <1>1, <1>3
  <2> HIDE DEF a
  <2>2. Count(b, m) = IF m = w THEN Count(a, m) + n ELSE Count(a, m)
    BY <2>1, CountGrows
  <2> QED BY <2>2 DEF a
<1>5. \A m \in 1..Len(submitted[s]) : m \in Nat \ {0}
  OBVIOUS
<1>6. Len(f) = 1 => \A m \in 1..Len(submitted[s]) : Count(b, m) = submitted[s][m]
  BY <1>1, <1>4, <1>5
<1>7. IsBody(wire[s], submitted[s]) /\ FIN \notin Elems(wire[s]) /\ RESET \notin Elems(wire[s])
  BY TurnLive
<1>8. IsBody(b, submitted[s])
  BY <1>1, <1>3, <1>6, <1>7, BodyGrows
<1>9. ASSUME n # 0, f = <<>>, NEW i \in DOMAIN b PROVE b[i] <= w
  <2>0. Len(wire[s]) \in Nat /\ Len(f) = 0
    BY <1>1, <1>9
  <2>a. /\ Len(b) = Len(wire[s]) + n + Len(f) /\ b \in Seq(Units)
        /\ \A j \in 1..Len(wire[s]) : b[j] = wire[s][j]
        /\ \A j \in Len(wire[s]) + 1..Len(wire[s]) + n : b[j] = w
    BY <1>3, Zenon DEF IsGrown
  <2>1. /\ Len(b) = Len(wire[s]) + n /\ b \in Seq(Units) /\ Len(wire[s]) \in Nat
        /\ \A j \in 1..Len(wire[s]) : b[j] = wire[s][j]
        /\ \A j \in Len(wire[s]) + 1..Len(wire[s]) + n : b[j] = w
    BY <2>0, <2>a
  <2>2. i \in 1..Len(wire[s]) \/ i \in Len(wire[s]) + 1..Len(wire[s]) + n
    BY <2>1
  <2>3. \A j \in 1..Len(wire[s]) : wire[s][j] <= w
    BY <1>1, <1>9 DEF Fits
  <2>4. w <= w
    OBVIOUS
  <2> QED BY <2>1, <2>2, <2>3, <2>4
<1> QED BY <1>2, <1>4, <1>8, <1>9

\* The same for units without a FIN behind them.
LEMMA AppendedPlain ==
  ASSUME IInv, BodyInv, NEW s \in Streams, TurnFrame(s), NEW w \in Nat, NEW n \in Nat,
         wire' = [wire EXCEPT ![s] = Grown(wire[s], w, n, <<>>)],
         n = 0 \/ Fits(wire[s], submitted[s], w, n)
  PROVE  /\ IsBody(wire'[s], submitted[s])
         /\ \A m \in Nat \ {0} : /\ m = w => Count(wire'[s], m) = Count(wire[s], m) + n
                                 /\ m # w => Count(wire'[s], m) = Count(wire[s], m)
         /\ n # 0 => \A i \in DOMAIN wire'[s] : wire'[s][i] <= w
<1> DEFINE f == <<>>
<1>1. f \in {<<>>, <<FIN>>} /\ f # <<FIN>> /\ f = <<>> /\ wire' = [wire EXCEPT ![s] = Grown(wire[s], w, n, f)]
  OBVIOUS
<1> HIDE DEF f
<1> QED BY <1>1, Appended

\* A held write is complete for the application and whole for the wire.
LEMMA HoldBody ==
  ASSUME IInv, BodyInv, HoldWrite
  PROVE  BodyInv'
<1>1. PICK s \in Streams : TurnFrame(s) /\ StillLive(s) /\ Held(s)
  BY HoldIs
<1> DEFINE g == Len(submitted[s])
           op == Head(OpsOf(s))
           ops == Tail(OpsOf(s))
<1>2. /\ Entry(s).held = NoHeld /\ OpsOf(s) # <<>> /\ op.kind = "write"
      /\ OpsOf(s)' = ops /\ op.rem > 0 /\ Entry(s)'.held = [n |-> op.n, rem |-> op.rem]
      /\ wire' = wire /\ cmd' = cmd /\ submitted' = submitted
  BY <1>1 DEF Held, TurnFrame
<1>3. Carried(s) /\ IsBody(wire[s], submitted[s])
  BY <1>1, TurnLive
<1>4. /\ op.n = g /\ g \in Nat /\ g > 0 /\ op.rem \in Nat /\ HasOp(OpsOf(s), "write") /\ ~HasOp(ops, "write")
      /\ OpsOf(s) \in Seq(Ops) /\ Queues(s)
  BY <1>2, HeadWrite, Known
<1>5. Count(wire[s], g) + op.rem = submitted[s][g]
  BY <1>2, <1>3, <1>4, OwesHead DEF Carried
<1>6. ~Has(cmd, s, "Send")
  BY <1>4 DEF Queues
<1> HIDE DEF ops, op
<1>7. ~Writing(s)' /\ Owes(OpsOf(s)', Count(wire[s], g), submitted[s][g])
  BY <1>2, <1>4, <1>6, OwesNone DEF Writing
<1>8. Entry(s)'.held.n = g /\ Entry(s)'.held.rem = op.rem
  BY <1>2, <1>4
<1>9. \A n \in 1..g : n # g => Count(wire[s], n) = submitted[s][n]
  <2>1. \A n \in 1..g : n # Entry(s).held.n
    BY <1>2 DEF NoHeld
  <2> QED BY <1>3, <2>1 DEF Carried
<1>10. g \in 1..g /\ \A i \in DOMAIN wire[s] : wire[s][i] <= g
  BY <1>3, <1>4 DEF IsBody
<1>11. Carried(s)'
  BY <1>2, <1>5, <1>6, <1>7, <1>8, <1>9, <1>10 DEF Carried
<1>12. Body(s)'
  BY <1>2, <1>3, <1>11 DEF Body
<1> QED BY <1>1, <1>12, TurnBody

\* A partial write.
LEMMA PartialBody ==
  ASSUME IInv, BodyInv, PartialWrite
  PROVE  BodyInv'
<1>1. PICK s \in Streams : TurnFrame(s) /\ StillLive(s) /\ \E n \in Nat : Written(s, n)
  BY PartialIs
<1>2. PICK n \in Nat : Written(s, n)
  BY <1>1
<1> DEFINE g == Len(submitted[s])
           op == Head(OpsOf(s))
           k == submitted[s][g]
<1>3. /\ Entry(s).held = NoHeld /\ Entry(s)'.held = NoHeld /\ OpsOf(s) # <<>> /\ op.kind = "write"
      /\ wire' = [wire EXCEPT ![s] = Grown(wire[s], op.n, n, <<>>)] /\ cmd' = cmd /\ submitted' = submitted
      /\ \/ op.rem = n /\ OpsOf(s)' = Tail(OpsOf(s))
         \/ op.rem > n /\ OpsOf(s)' = [OpsOf(s) EXCEPT ![1].rem = op.rem - n]
  BY <1>1, <1>2 DEF Written, TurnFrame
<1>4. Carried(s) /\ IsBody(wire[s], submitted[s])
  BY <1>1, TurnLive
<1>5. /\ op.n = g /\ g \in Nat /\ g > 0 /\ op.rem \in Nat /\ HasOp(OpsOf(s), "write")
      /\ ~HasOp(Tail(OpsOf(s)), "write") /\ OpsOf(s) \in Seq(Ops) /\ Queues(s) /\ submitted[s] \in Seq(Nat)
      /\ wire[s] \in Seq(Units)
  BY <1>3, HeadWrite, Known
<1>6. Count(wire[s], g) + op.rem = k
  BY <1>3, <1>4, <1>5, OwesHead DEF Carried
<1>7. ~Has(cmd, s, "Send") /\ OpsInOrder(OpsOf(s))
  BY <1>5 DEF Queues
<1>8. \A m \in 1..g : m # g => Count(wire[s], m) = submitted[s][m]
  <2>1. \A m \in 1..g : m # Entry(s).held.n
    BY <1>3 DEF NoHeld
  <2> QED BY <1>4, <2>1 DEF Carried
<1>9. g \in 1..g /\ (\A i \in DOMAIN wire[s] : wire[s][i] <= g) /\ \A m \in 1..g - 1 : m \in 1..g /\ m # g
  BY <1>4, <1>5 DEF IsBody
<1>10. Count(wire[s], g) \in Nat
  BY <1>5, Counted
<1>11. op.rem = n \/ op.rem > n
  BY <1>3
<1> HIDE DEF op
<1>12. Count(wire[s], g) + n <= k
  BY <1>5, <1>6, <1>10, <1>11
<1>13. Fits(wire[s], submitted[s], g, n)
  BY <1>8, <1>9, <1>12 DEF Fits
<1>14. /\ IsBody(wire'[s], submitted[s])
       /\ \A m \in Nat \ {0} : /\ m = g => Count(wire'[s], m) = Count(wire[s], m) + n
                               /\ m # g => Count(wire'[s], m) = Count(wire[s], m)
  <2>1. g \in Nat /\ n \in Nat /\ wire' = [wire EXCEPT ![s] = Grown(wire[s], g, n, <<>>)]
    BY <1>1, <1>3, <1>5
  <2> HIDE DEF g
  <2> QED BY <1>1, <1>13, <2>1, AppendedPlain
<1>15. Count(wire'[s], g) = Count(wire[s], g) + n /\ \A m \in 1..g : m # g => Count(wire'[s], m) = submitted[s][m]
  BY <1>5, <1>8, <1>14
<1>16. CASE op.rem = n /\ OpsOf(s)' = Tail(OpsOf(s))
  <2>1. ~Writing(s)' /\ Owes(OpsOf(s)', Count(wire'[s], g), k)
    BY <1>3, <1>5, <1>7, <1>16, OwesNone DEF Writing
  <2>2. Count(wire'[s], g) = k
    BY <1>6, <1>15, <1>16
  <2>3. \A m \in 1..g : Count(wire'[s], m) = submitted[s][m]
    BY <1>15, <2>2
  <2>4. Carried(s)'
    BY <1>3, <1>7, <2>1, <2>3 DEF Carried
  <2>5. Body(s)'
    BY <1>3, <1>14, <2>4 DEF Body
  <2> QED BY <1>1, <2>5, TurnBody
<1>17. CASE op.rem > n /\ OpsOf(s)' = [OpsOf(s) EXCEPT ![1].rem = op.rem - n]
  <2> DEFINE q == OpsOf(s)
             r == op.rem - n
             c == Count(wire'[s], g)
  <2>0. \A a, x \in Nat : x > n => x - n \in Nat /\ (a + n) + (x - n) = a + x
    OBVIOUS
  <2>1. r \in Nat /\ c + r = k
    BY <1>5, <1>6, <1>10, <1>15, <1>17, <2>0
  <2>a. OpsOf(s)' = [q EXCEPT ![1].rem = r] /\ q \in Seq(Ops) /\ q # <<>> /\ OpsInOrder(q) /\ HasOp(q, "write")
    BY <1>3, <1>5, <1>7, <1>17
  <2> HIDE DEF q, r, c, k
  <2>2. Owes(OpsOf(s)', c, k)
    <3>1. Owes([q EXCEPT ![1].rem = r], c, k)
      BY <2>1, <2>a, OwesShorten
    <3> QED BY <2>a, <3>1
  <2>3. Writing(s)'
    <3>1. HasOp([q EXCEPT ![1].rem = r], "write")
      BY <2>1, <2>a, OpShorten
    <3>2. HasOp(OpsOf(s)', "write")
      BY <2>a, <3>1
    <3> QED BY <3>2 DEF Writing
  <2>4. Entry(s)'.held.n # g
    BY <1>3, <1>5 DEF NoHeld
  <2>5. Carried(s)'
    BY <1>3, <1>7, <1>15, <2>2, <2>3, <2>4 DEF Carried, c, k
  <2>6. Body(s)'
    BY <1>3, <1>14, <2>5 DEF Body
  <2> QED BY <1>1, <2>6, TurnBody
<1> QED BY <1>3, <1>16, <1>17

\* The FIN goes out behind the whole body.
LEMMA FinBody ==
  ASSUME IInv, BodyInv, NEW s \in Streams, TurnFrame(s), FinDone(s), OpsOf(s) # <<>>,
         Head(OpsOf(s)).kind = "finish", NEW w \in Nat, NEW n \in Nat,
         wire' = [wire EXCEPT ![s] = Grown(wire[s], w, n, <<FIN>>)],
         \/ Entry(s).held = NoHeld /\ w = 0 /\ n = 0
         \/ Entry(s).held # NoHeld /\ w = Entry(s).held.n /\ n = Entry(s).held.rem
  PROVE  BodyInv'
<1> DEFINE g == Len(submitted[s])
           h == Entry(s).held
<1>1. Carried(s) /\ wire[s] \in Seq(Units) /\ Queues(s) /\ OpsOf(s) \in Seq(Ops) /\ Entry(s) \in Entries /\ g \in Nat
  BY TurnLive, Known
<1>2. ~Writing(s)
  <2>1. OpsInOrder(OpsOf(s)) /\ Len(OpsOf(s)) \in Nat /\ 1 \in DOMAIN OpsOf(s) /\ Head(OpsOf(s)) = OpsOf(s)[1]
    BY <1>1 DEF Queues
  <2>2. HasOp(OpsOf(s), "finish") /\ ~HasOp(OpsOf(s), "write")
    BY <2>1 DEF OpsInOrder, HasOp
  <2> QED BY <1>1, <2>2 DEF Queues, Writing
<1>3. /\ \A m \in 1..g : m # h.n => Count(wire[s], m) = submitted[s][m]
      /\ h # NoHeld =>
           /\ h.n \in 1..g /\ Count(wire[s], h.n) + h.rem = submitted[s][h.n]
           /\ \A i \in DOMAIN wire[s] : wire[s][i] <= h.n
  BY <1>1, <1>2 DEF Carried
<1>4. \A m \in 1..g : (IF m = w THEN Count(wire[s], m) + n ELSE Count(wire[s], m)) = submitted[s][m]
  <2>1. CASE h = NoHeld /\ w = 0 /\ n = 0
    <3>1. \A m \in 1..g : m # w /\ m # h.n
      BY <2>1 DEF NoHeld
    <3> QED BY <1>3, <3>1
  <2>2. CASE h # NoHeld /\ w = h.n /\ n = h.rem
    BY <1>3, <2>2
  <2> QED BY <2>1, <2>2
<1>5. n = 0 \/ Fits(wire[s], submitted[s], w, n)
  <2>1. CASE h = NoHeld /\ w = 0 /\ n = 0
    BY <2>1
  <2>2. CASE h # NoHeld /\ w = h.n /\ n = h.rem
    <3>0. \A x, y \in Nat : x <= y => \A m \in 1..x - 1 : m \in 1..y /\ m # x
      OBVIOUS
    <3>1. w \in 1..g /\ \A m \in 1..w - 1 : m \in 1..g /\ m # h.n
      <4>1. w \in 1..g /\ w = h.n
        BY <1>3, <2>2
      <4>2. w <= g
        BY <1>1, <4>1
      <4> QED BY <1>1, <3>0, <4>1, <4>2
    <3>2. Count(wire[s], w) + n <= submitted[s][w]
      <4>1. Count(wire[s], w) + n = submitted[s][w] /\ Count(wire[s], w) \in Nat
        BY <1>1, <1>3, <2>2, Counted
      <4>2. Count(wire[s], w) + n \in Nat
        BY <4>1
      <4> QED BY <4>1, <4>2
    <3> QED BY <1>3, <2>2, <3>1, <3>2 DEF Fits
  <2> QED BY <2>1, <2>2
<1>6. IsBody(wire'[s], submitted[s])
  <2> DEFINE f == <<FIN>>
  <2>1. f \in {<<>>, <<FIN>>} /\ wire' = [wire EXCEPT ![s] = Grown(wire[s], w, n, f)]
    OBVIOUS
  <2> HIDE DEF f
  <2> QED BY <1>4, <1>5, <2>1, Appended
<1>7. ~Live(s)'
  <2>1. CASE Removed(s)
    BY <2>1 DEF Removed, Live
  <2>2. CASE Updated(s, Done(Entry(s)))
    <3>1. Entry(s)'.finished
      BY <1>1, <2>2 DEF Updated, Done, Entries
    <3> QED BY <3>1 DEF Live
  <2> QED BY <2>1, <2>2 DEF FinDone
<1>8. submitted' = submitted
  BY DEF TurnFrame
<1>9. Body(s)'
  BY <1>6, <1>7, <1>8 DEF Body
<1> QED BY <1>9, TurnBody

\* Units of the held write.
LEMMA FlushBody ==
  ASSUME IInv, BodyInv, NEW s \in Streams, TurnFrame(s), NEW n \in Nat,
         Entry(s).held # NoHeld, n <= Entry(s).held.rem, StillLive(s), OpsOf(s)' = OpsOf(s),
         wire' = [wire EXCEPT ![s] = Grown(wire[s], Entry(s).held.n, n, <<>>)],
         \/ n = Entry(s).held.rem /\ Entry(s)'.held = NoHeld
         \/ /\ n < Entry(s).held.rem
            /\ Entry(s)'.held = [n |-> Entry(s).held.n, rem |-> Entry(s).held.rem - n]
  PROVE  BodyInv'
<1> DEFINE g == Len(submitted[s])
           h == Entry(s).held
           w == h.n
           k == submitted[s][w]
<1>1. /\ Carried(s) /\ IsBody(wire[s], submitted[s]) /\ wire[s] \in Seq(Units) /\ Queues(s)
      /\ Entry(s) \in Entries /\ g \in Nat /\ submitted[s] \in Seq(Nat)
  BY TurnLive, Known
<1>2. cmd' = cmd /\ submitted' = submitted
  BY DEF TurnFrame
<1>3. h.rem \in Nat /\ w \in 1..g /\ w \in Nat \ {0}
  <2>1. w \in 1..g
    BY <1>1 DEF Carried
  <2> QED BY <1>1, <2>1 DEF Entries
<1>4. /\ \A m \in 1..g : m # w /\ ~(m = g /\ Writing(s)) => Count(wire[s], m) = submitted[s][m]
      /\ h.rem > 0 /\ Count(wire[s], w) + h.rem = k /\ \A i \in DOMAIN wire[s] : wire[s][i] <= w
      /\ Writing(s) => w # g
      /\ Has(cmd, s, "Send") => Count(wire[s], g) = 0
      /\ Owes(OpsOf(s), Count(wire[s], g), submitted[s][g])
  BY <1>1 DEF Carried
<1>5. Count(wire[s], w) \in Nat /\ Count(wire[s], w) + n <= k
  <2>1. Count(wire[s], w) \in Nat
    BY <1>1, Counted
  <2>2. \A a, x \in Nat : n <= x => a + n <= a + x
    OBVIOUS
  <2> QED BY <1>3, <1>4, <2>1, <2>2
<1>6. Fits(wire[s], submitted[s], w, n)
  <2>0. \A x, y \in Nat : x <= y => \A m \in 1..x - 1 : m \in 1..y /\ m # x /\ m # y
    OBVIOUS
  <2>1. \A m \in 1..w - 1 : m \in 1..g /\ m # w /\ m # g
    <3>1. w \in Nat /\ w <= g
      BY <1>1, <1>3
    <3> HIDE DEF w
    <3> QED BY <1>1, <2>0, <3>1
  <2> QED BY <1>3, <1>4, <1>5, <2>1 DEF Fits
<1>7. /\ IsBody(wire'[s], submitted[s])
      /\ \A m \in Nat \ {0} : /\ m = w => Count(wire'[s], m) = Count(wire[s], m) + n
                              /\ m # w => Count(wire'[s], m) = Count(wire[s], m)
      /\ n # 0 => \A i \in DOMAIN wire'[s] : wire'[s][i] <= w
  <2>1. w \in Nat /\ wire' = [wire EXCEPT ![s] = Grown(wire[s], w, n, <<>>)]
    BY <1>3
  <2> HIDE DEF w
  <2> QED BY <1>6, <2>1, AppendedPlain
<1>8. \A i \in DOMAIN wire'[s] : wire'[s][i] <= w
  <2>1. CASE n # 0
    BY <1>7, <2>1
  <2>2. CASE n = 0
    <3>1. 1..n = {}
      BY <2>2
    <3> DEFINE b == wire'[s]
    <3>2. b = Grown(wire[s], w, n, <<>>)
      BY Known DEF TypeQuiche
    <3> HIDE DEF b
    <3>3. IsGrown(b, wire[s], w, n, <<>>)
      <4>1. <<>> \in Seq({FIN}) /\ Len(<<>>) \in {0, 1}
        OBVIOUS
      <4> QED BY <1>1, <1>3, <3>2, <4>1, WireGrows
    <3>4. /\ Len(b) = Len(wire[s]) + n + Len(<<>>) /\ b \in Seq(Units)
          /\ \A j \in 1..Len(wire[s]) : b[j] = wire[s][j]
      BY <3>3, Zenon DEF IsGrown
    <3>5. DOMAIN b = DOMAIN wire[s] /\ DOMAIN wire[s] = 1..Len(wire[s])
      BY <1>1, <2>2, <3>4
    <3>6. \A i \in DOMAIN b : b[i] <= w
      BY <1>4, <3>4, <3>5
    <3> QED BY <3>6 DEF b
  <2> QED BY <2>1, <2>2
<1>9. \A m \in 1..g : m \in Nat \ {0}
  OBVIOUS
<1>10. \A m \in 1..g : m # w /\ ~(m = g /\ Writing(s)) => Count(wire'[s], m) = submitted[s][m]
  BY <1>4, <1>7, <1>9
<1>11. Count(wire'[s], w) = Count(wire[s], w) + n
  BY <1>3, <1>7
<1>12. Writing(s)' <=> Writing(s)
  BY <1>2 DEF Writing
<1>13. Writing(s) => Count(wire'[s], g) = Count(wire[s], g) /\ g # 0
  <2>1. Writing(s) => w # g /\ g \in Nat \ {0}
    BY <1>1, <1>3, <1>4
  <2> QED BY <1>7, <2>1
<1>14. Owes(OpsOf(s)', Count(wire'[s], g), submitted[s][g]) /\ (Has(cmd', s, "Send") => Count(wire'[s], g) = 0)
  <2>1. CASE Writing(s)
    BY <1>2, <1>4, <1>13, <2>1
  <2>2. CASE ~Writing(s)
    BY <1>2, <2>2, OwesNone DEF Writing
  <2> QED BY <2>1, <2>2
<1>15. CASE n = h.rem /\ Entry(s)'.held = NoHeld
  <2>1. Count(wire'[s], w) = k
    BY <1>4, <1>11, <1>15
  <2>2. \A m \in 1..g : ~(m = g /\ Writing(s)) => Count(wire'[s], m) = submitted[s][m]
    BY <1>10, <2>1
  <2>3. Entry(s)'.held.n = 0
    BY <1>15 DEF NoHeld
  <2>4. Carried(s)'
    BY <1>2, <1>12, <1>13, <1>14, <1>15, <2>2, <2>3 DEF Carried
  <2>5. Body(s)'
    BY <1>2, <1>7, <2>4 DEF Body
  <2> QED BY <2>5, TurnBody
<1>16. CASE n < h.rem /\ Entry(s)'.held = [n |-> h.n, rem |-> h.rem - n]
  <2>1. Entry(s)'.held.n = w /\ Entry(s)'.held.rem = h.rem - n
    BY <1>16
  <2>2. h.rem - n > 0 /\ Count(wire'[s], w) + (h.rem - n) = k
    <3>1. \A a, x \in Nat : n < x => x - n > 0 /\ (a + n) + (x - n) = a + x
      OBVIOUS
    <3> QED BY <1>3, <1>4, <1>5, <1>11, <1>16, <3>1
  <2>3. Carried(s)'
    BY <1>2, <1>3, <1>4, <1>8, <1>10, <1>12, <1>14, <2>1, <2>2 DEF Carried
  <2>4. Body(s)'
    BY <1>2, <1>7, <2>3 DEF Body
  <2> QED BY <2>4, TurnBody
<1> QED BY <1>15, <1>16

LEMMA AcceptedBody ==
  ASSUME IInv, BodyInv, HoldWrite \/ PartialWrite \/ LoneFin \/ FlushHeld
  PROVE  BodyInv'
<1>1. CASE HoldWrite \/ PartialWrite
  BY <1>1, HoldBody, PartialBody
<1>2. CASE LoneFin
  <2>1. PICK s \in Streams : TurnFrame(s) /\ Alone(s)
    BY <1>2, LoneFinIs
  <2>2. /\ Entry(s).held = NoHeld /\ OpsOf(s) # <<>> /\ Head(OpsOf(s)).kind = "finish" /\ FinDone(s)
        /\ wire' = [wire EXCEPT ![s] = Grown(wire[s], 0, 0, <<FIN>>)] /\ 0 \in Nat
    BY <2>1 DEF Alone, FIN
  <2> QED BY <2>1, <2>2, FinBody
<1>3. CASE FlushHeld
  <2>1. PICK s \in Streams : TurnFrame(s) /\ \E n \in Nat : Flushed(s, n)
    BY <1>3, FlushIs
  <2>2. PICK n \in Nat : Flushed(s, n)
    BY <2>1
  <2>3. Entry(s).held # NoHeld /\ n <= Entry(s).held.rem /\ Entry(s).held.n \in Nat
    BY <2>1, <2>2, Known DEF Flushed, Entries
  <2>4. CASE /\ n = Entry(s).held.rem /\ OpsOf(s) # <<>> /\ Head(OpsOf(s)).kind = "finish"
             /\ wire' = [wire EXCEPT ![s] = Grown(wire[s], Entry(s).held.n, n, <<FIN>>)] /\ FinDone(s)
    BY <2>1, <2>3, <2>4, FinBody
  <2>5. CASE /\ StillLive(s) /\ OpsOf(s)' = OpsOf(s)
             /\ wire' = [wire EXCEPT ![s] = Grown(wire[s], Entry(s).held.n, n, <<>>)]
             /\ \/ n = Entry(s).held.rem /\ Entry(s)'.held = NoHeld
                \/ /\ n < Entry(s).held.rem
                   /\ Entry(s)'.held = [n |-> Entry(s).held.n, rem |-> Entry(s).held.rem - n]
    BY <2>1, <2>3, <2>5, FlushBody
  <2> QED BY <2>2, <2>4, <2>5 DEF Flushed
<1> QED BY <1>1, <1>2, <1>3

LEMMA StepBody == IInv /\ Turns /\ BodyInv /\ [Next]_vars => BodyInv'
<1> SUFFICES ASSUME IInv, Turns, BodyInv, [Next]_vars PROVE BodyInv'
  OBVIOUS
<1>1. CASE UNCHANGED vars
  <2>1. send' = send /\ cmd' = cmd /\ wire' = wire /\ submitted' = submitted
    BY <1>1 DEF vars, frontVars, sharedVars, regVars, quicheVars
  <2> QED BY <2>1, BodyQuiet
<1>2. CASE Worker
  <2>1. CASE \/ NoPacketIteration \/ EndApply \/ EndWritable \/ EndSend \/ BeginTurn \/ FlushQuiescent
    BY <2>1, LoopBody
  <2>2. CASE apply_inbox
    BY <2>2, InboxBody
  <2>3. CASE TurnError \/ \E s \in Streams : stage_writable(s)
    BY <2>3, RefusedBody
  <2>4. CASE TurnReset
    BY <2>4, TurnResetBody
  <2>5. CASE HoldWrite \/ PartialWrite \/ LoneFin \/ FlushHeld
    BY <2>5, AcceptedBody
  <2>6. CASE ClosePublish \/ CloseIngress
    BY <2>6, CloseBody
  <2> QED BY <1>2, <2>1, <2>2, <2>3, <2>4, <2>5, <2>6 DEF Worker, Turn
<1>3. CASE Peer
  BY <1>3, LoopBody, RecvDoneBody DEF Peer
<1>4. CASE \E s \in Streams : \/ Polls(s) \/ StartFinish(s) \/ CallReset(s) \/ DropHandle(s)
                              \/ \E k \in Sizes : StartWrite(s, k)
  BY <1>4, FrontEndBody
<1> QED BY <1>1, <1>2, <1>3, <1>4 DEF Next

\* What quiche accepted on a stream is a prefix of its body: the units of the
\* writes in order, none too many, nothing behind a FIN or a RESET_STREAM, and
\* a FIN only behind the whole body (flush_held_once, service_write_turn and
\* service_finish_turn over any sequence of holds, partial writes and
\* requeues, on any number of streams).
THEOREM WireBody == Spec => []WireIsBody
<1>1. Init => IInv /\ Turns /\ BodyInv
  BY InitInvariant, InitTurns, InitBody
<1>2. IInv /\ Turns /\ BodyInv /\ [Next]_vars => (IInv /\ Turns /\ BodyInv)'
  BY StepInvariant, StepTurns, StepBody
<1>3. IInv /\ Turns /\ BodyInv => WireIsBody
  BY BodyAre
<1> QED BY <1>1, <1>2, <1>3, PTL DEF Spec
=============================================================================
