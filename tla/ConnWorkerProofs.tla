-------------------------- MODULE ConnWorkerProofs --------------------------
(***************************************************************************)
(* The life of a connection, for every number of openers, streams, close   *)
(* calls and every budget.  The inductive invariant has these parts:       *)
(*   - Front: what the state of an opener says of its slots and requests;  *)
(*   - Once: a request is in one place only, so it is answered once;       *)
(*   - Orphan: after the end of the command channel nobody has a handle;   *)
(*   - Closes: how far the first Close has got;                            *)
(*   - Cause: the terminal cell has the cause of the end;                  *)
(*   - Dense, Owners: the ids given to quiche, and one owner for each;     *)
(*   - Halves: why a half is in the registry.                              *)
(***************************************************************************)
EXTENDS ConnWorker, FiniteSetTheorems, TLAPS

Reqs == Openers \X Classes

Cmds == [op : {"Open"}, req : Reqs] \cup [op : {"Close"}, code : Nat]
          \cup [op : {"Finish", "StopSending"}, id : Nat]

Errors == {"none", "ApplicationClose", "Undefined", "Timeout", "InternalError"}

Terminals == [kind : {"none", "Internal", "AppClose", "Transport", "Timeout"},
              origin : {"none", "Peer", "Local"}, code : Nat \cup {None}]

Slots == [st : {"none", "send", "queued", "ok", "err"}, id : Nat \cup {None}, err : Errors]

TypeQuiche ==
  /\ credit \in [Classes -> Nat]
  /\ peer_error \in {"none", "app", "transport"}
  /\ local_error \in {"none", "app", "transport"}
  /\ timed_out \in BOOLEAN

TypeWorker ==
  /\ wpc \in {"handshake", "wait", "apply", "open_bidi", "open_uni", "reply", "finish",
              "ended", "drain", "exited"}
  /\ left \in Nat /\ est \in {"none", "ok", "err"} /\ cmd \in Seq(Cmds)
  /\ open \in [Classes -> Seq(Reqs)] /\ next_id \in [Classes -> Nat]
  /\ registry \subseteq Nat \X {"send", "recv"} /\ finishing \subseteq Nat
  /\ cur \in (Reqs \X Nat) \cup {<<>>}
  /\ last_handle_teardown \in BOOLEAN /\ needs_iteration \in BOOLEAN
  /\ conn_terminal \in Terminals

TypeClose ==
  /\ pending_close \in Nat \cup {None} /\ local_close \in Nat \cup {None}
  /\ explicit_close_attempted \in BOOLEAN /\ close_bug \in BOOLEAN
  /\ graceful_close_issued \in BOOLEAN /\ calls \in Nat

TypeFront ==
  /\ setup \in {"waiting", "connected", "failed"}
  /\ opener \in [Openers -> {"none", "live", "tx_gone", "gone"}]
  /\ slot \in [Openers -> [Classes -> Slots]]
  /\ held \subseteq Nat /\ materialized \subseteq Nat /\ told \subseteq Errors
  /\ closes \in Nat

\* The variables keep their types.
TypeOK == TypeQuiche /\ TypeWorker /\ TypeClose /\ TypeFront

Opened(s) == {r \in Reqs : \E m \in Range(s) : m.op = "Open" /\ m.req = r}

\* Where a request is until it is answered.
Outstanding == Opened(cmd) \cup Range(open["bidi"]) \cup Range(open["uni"])
                 \cup (IF cur = <<>> THEN {} ELSE {cur[1]})

\* Only a live opener is in a poll, and only the slot of one that is not gone
\* holds something; nobody is live without an established connection.
GoodSlot(x, w, outstanding) ==
  /\ x.st = "none" => x = Idle
  /\ x.st # "ok" => x.id = None
  /\ x.st = "ok" => x.id # None
  /\ x.st = "send" => w = "live"
  /\ x.st # "none" => w \in {"live", "tx_gone"}
  /\ outstanding => x.st = "queued" \/ w = "gone"

Front ==
  /\ \A o \in Openers, c \in Classes :
       GoodSlot(slot[o][c], opener[o], <<o, c>> \in Outstanding)
  /\ setup = "waiting" => \A o \in Openers : opener[o] = "none"
  /\ (\E o \in Openers : opener[o] # "none") => est = "ok"
  /\ wpc = "handshake" => est = "none"
  /\ wpc \notin {"handshake", "exited"} => est = "ok"

\* Members of S are in the sequence at most once.
Distinct(s, S) == \A i, j \in DOMAIN s : s[i] \in S /\ s[j] = s[i] => i = j

OpenCmds == [op : {"Open"}, req : Reqs]

\* A request is in one place, once.
Once ==
  /\ Distinct(cmd, OpenCmds)
  /\ \A c \in Classes : Distinct(open[c], Reqs)
  /\ \A c \in Classes : \A r \in Range(open[c]) : r[2] = c /\ r \notin Opened(cmd)
  /\ wpc = "reply" <=> cur # <<>>
  /\ cur # <<>> => cur[1] \notin Opened(cmd) /\ cur[1] \notin Range(open[cur[1][2]])

\* The end of the command channel is final.
Orphan ==
  last_handle_teardown =>
    ~HasHandles /\ wpc # "reply" /\ \A m \in Range(cmd) : m.op # "Close"

\* The first Close has been attempted, is staged, or is in the channel before
\* all others.
Seen == explicit_close_attempted \/ pending_close = 1

FirstIsOne(s) ==
  \A i \in DOMAIN s : s[i].op = "Close" => \E j \in 1..i : s[j].op = "Close" /\ s[j].code = 1

Closes ==
  /\ calls = IF explicit_close_attempted THEN 1 ELSE 0
  /\ pending_close \in {None, 1}
  /\ pending_close = 1 => closes > 0
  /\ local_close # None => explicit_close_attempted
  /\ local_close # None => \/ local_close = 1 /\ closes > 0
                           \/ local_close = H3_NO_ERROR /\ closes = 0 /\ last_handle_teardown
  /\ \A m \in Range(cmd) : m.op = "Close" => closes > 0
  /\ ~Seen => FirstIsOne(cmd)
  /\ ~Seen /\ closes > 0 /\ wpc # "exited" =>
       \E m \in Range(cmd) : m.op = "Close"

\* The terminal is the cause of the end, and what openers are told.
Cause ==
  /\ wpc = "ended" => timed_out \/ close_bug
  /\ wpc = "drain" => conn_terminal.kind # "none"
  /\ wpc = "exited" => est = "err" \/ conn_terminal.kind # "none"
  /\ conn_terminal.kind # "none" =>
       /\ wpc \in {"drain", "exited"}
       /\ conn_terminal = classify_conn_terminal
       /\ Closing \/ close_bug
  /\ told # {} => conn_terminal.kind # "none"
  /\ told \subseteq {to_h3(conn_terminal)}
  /\ \A o \in Openers, c \in Classes :
       slot[o][c].st = "err" /\ opener[o] = "live" =>
         conn_terminal.kind # "none" /\ slot[o][c].err = to_h3(conn_terminal)

\* Ids are given to quiche one after the other.
Dense ==
  \A c \in Classes :
    /\ IsFiniteSet(MaterializedIn(c))
    /\ next_id[c] = Seed[c] + 4 * Cardinality(MaterializedIn(c))
    /\ MaterializedIn(c) = {Seed[c] + 4 * k : k \in 0..(Cardinality(MaterializedIn(c)) - 1)}

\* A stream that was handed over has one owner: the application, a slot or,
\* until the reply is sent, the worker.
InSlot(id) == \E o \in Openers, c \in Classes : slot[o][c].st = "ok" /\ slot[o][c].id = id

Owners ==
  /\ held \subseteq materialized
  /\ \A o \in Openers, c \in Classes :
       slot[o][c].st = "ok" => slot[o][c].id \in materialized \ held
  /\ \A o, p \in Openers, c, d \in Classes :
       slot[o][c].st = "ok" /\ slot[p][d].st = "ok" /\ slot[o][c].id = slot[p][d].id
         => o = p /\ c = d
  /\ cur # <<>> => /\ cur[2] \in materialized \ held /\ ~InSlot(cur[2])
                   /\ ClassOf(cur[2]) = cur[1][2]

Owned == {id \in materialized : id \in held \/ InSlot(id) \/ (cur # <<>> /\ id = cur[2])}

\* The streams that a Finish or a StopSending in the channel is for.
Cleaning(s, op) == {m.id : m \in {n \in Range(s) : n.op = op}}

\* An owned stream has all its halves and no cleanup on its way; a half that
\* is not owned has one.
Kept(owned, reg, fin, finish, stop) ==
  /\ \A id \in owned : /\ Entries(id) \subseteq reg /\ id \notin fin
                       /\ id \notin finish /\ id \notin stop
  /\ \A e \in reg :
       \/ e[1] \in owned /\ e[2] \in Dirs(ClassOf(e[1]))
       \/ e[2] = "recv" /\ e[1] \in stop
       \/ e[2] = "send" /\ (e[1] \in finish \/ e[1] \in fin)

Halves ==
  /\ finishing \subseteq materialized
  /\ Cleaning(cmd, "Finish") \subseteq materialized
  /\ Cleaning(cmd, "StopSending") \subseteq materialized
  /\ wpc # "exited" => Kept(Owned, registry, finishing, Cleaning(cmd, "Finish"),
                            Cleaning(cmd, "StopSending"))
  /\ wpc \in {"handshake", "wait"} => \A id \in finishing : <<id, "recv">> \in registry

IInv == /\ TypeOK /\ Front /\ Once /\ Orphan /\ Closes /\ Cause /\ Dense
        /\ Owners /\ Halves

-----------------------------------------------------------------------------
\* The two classes of streams, and what a command can be.
LEMMA CmdShape ==
  /\ \A m \in Cmds : m.op \in {"Open", "Close", "Finish", "StopSending"}
  /\ \A m \in Cmds : m.op = "Open" => m.req \in Reqs /\ m = [op |-> "Open", req |-> m.req]
  /\ \A m \in Cmds : m.op = "Close" => m.code \in Nat
  /\ \A m \in Cmds : m.op \in {"Finish", "StopSending"} => m.id \in Nat
BY DEF Cmds

\* The commands that are made.
LEMMA CmdMakers ==
  /\ \A o \in Openers, c \in Classes :
       OpenCmd(o, c) \in Cmds /\ OpenCmd(o, c).op = "Open" /\ OpenCmd(o, c).req = <<o, c>>
  /\ \A k \in Nat : CloseCmd(k) \in Cmds /\ CloseCmd(k).op = "Close" /\ CloseCmd(k).code = k
  /\ \A id \in Nat : /\ Finish(id) \in Cmds /\ Finish(id).op = "Finish" /\ Finish(id).id = id
                     /\ StopSending(id) \in Cmds /\ StopSending(id).op = "StopSending"
                     /\ StopSending(id).id = id
BY DEF Cmds, OpenCmd, CloseCmd, Finish, StopSending, Reqs

\* What the elements of a sequence become.
LEMMA AppendElems ==
  ASSUME NEW S, NEW s \in Seq(S), NEW x \in S
  PROVE  Append(s, x) \in Seq(S) /\ Range(Append(s, x)) = Range(s) \cup {x}
<1>1. Append(s, x) \in Seq(S) /\ Len(Append(s, x)) = Len(s) + 1 /\ Len(s) \in Nat
  OBVIOUS
<1>2. \A i \in 1..Len(s) : Append(s, x)[i] = s[i] /\ i \in 1..(Len(s) + 1)
  OBVIOUS
<1>3. Append(s, x)[Len(s) + 1] = x /\ Len(s) + 1 \in 1..(Len(s) + 1)
  OBVIOUS
<1>4. \A i \in 1..(Len(s) + 1) : i \in 1..Len(s) \/ i = Len(s) + 1
  BY <1>1
<1>5. DOMAIN s = 1..Len(s) /\ DOMAIN Append(s, x) = 1..(Len(s) + 1)
  BY <1>1
<1>6. Range(Append(s, x)) \subseteq Range(s) \cup {x}
  BY <1>2, <1>3, <1>4, <1>5 DEF Range
<1>7. Range(s) \subseteq Range(Append(s, x))
  BY <1>2, <1>5 DEF Range
<1>8. x \in Range(Append(s, x))
  BY <1>3, <1>5 DEF Range
<1> QED BY <1>1, <1>6, <1>7, <1>8

\* The same for a concatenation.
LEMMA ConcatElems ==
  ASSUME NEW S, NEW s \in Seq(S), NEW t \in Seq(S)
  PROVE  s \o t \in Seq(S) /\ Range(s \o t) = Range(s) \cup Range(t)
<1>1. s \o t \in Seq(S) /\ Len(s \o t) = Len(s) + Len(t)
  OBVIOUS
<1>2. \A i \in 1..Len(s) : (s \o t)[i] = s[i]
  OBVIOUS
<1>3. \A i \in 1..Len(t) : (s \o t)[i + Len(s)] = t[i]
  OBVIOUS
<1>4. \A i \in 1..(Len(s) + Len(t)) : i \in 1..Len(s) \/ (i - Len(s) \in 1..Len(t) /\ i = (i - Len(s)) + Len(s))
  OBVIOUS
<1>5. Range(s \o t) \subseteq Range(s) \cup Range(t)
  BY <1>1, <1>2, <1>3, <1>4 DEF Range
<1>6. Range(s) \subseteq Range(s \o t)
  BY <1>1, <1>2 DEF Range
<1>7. Range(t) \subseteq Range(s \o t)
  <2>1. \A i \in DOMAIN t : i + Len(s) \in DOMAIN (s \o t)
    BY <1>1
  <2> QED BY <1>3, <2>1 DEF Range
<1> QED BY <1>1, <1>5, <1>6, <1>7

\* The same when the first element is taken.
LEMMA TailElems ==
  ASSUME NEW S, NEW s \in Seq(S), s # <<>>
  PROVE  /\ Head(s) \in S /\ Tail(s) \in Seq(S)
         /\ Head(s) \in Range(s) /\ Range(Tail(s)) \subseteq Range(s)
         /\ Range(s) = {Head(s)} \cup Range(Tail(s))
<1>1. Head(s) = s[1] /\ Head(s) \in S /\ Len(s) \in Nat \ {0} /\ 1 \in DOMAIN s
  OBVIOUS
<1>2. Tail(s) \in Seq(S) /\ Len(Tail(s)) = Len(s) - 1
  OBVIOUS
<1>3. \A i \in 1..(Len(s) - 1) : Tail(s)[i] = s[i + 1]
  OBVIOUS
<1>4. \A i \in 1..Len(s) : i = 1 \/ (i - 1 \in 1..(Len(s) - 1) /\ (i - 1) + 1 = i)
  BY <1>1
<1>5. \A i \in 1..(Len(s) - 1) : i + 1 \in 1..Len(s)
  BY <1>1
<1>6. Range(Tail(s)) \subseteq Range(s)
  BY <1>2, <1>3, <1>5 DEF Range
<1>7. Range(s) \subseteq {Head(s)} \cup Range(Tail(s))
  <2>1. \A i \in DOMAIN s : i = 1 \/ (i - 1 \in DOMAIN Tail(s) /\ Tail(s)[i - 1] = s[i])
    BY <1>1, <1>2, <1>3, <1>4
  <2> QED BY <1>1, <2>1 DEF Range
<1>8. Head(s) \in Range(s)
  BY <1>1 DEF Range
<1> QED BY <1>1, <1>2, <1>6, <1>7, <1>8

\* The commands of a cleanup: a Finish, and a StopSending for a bidi stream.
LEMMA Cleanups ==
  ASSUME NEW id \in Nat
  PROVE  /\ HandoffCleanup(id) \in Seq(Cmds)
         /\ Range(HandoffCleanup(id)) =
              {Finish(id)} \cup (IF ClassOf(id) = "bidi" THEN {StopSending(id)} ELSE {})
<1>1. Finish(id) \in Cmds /\ StopSending(id) \in Cmds
  BY CmdMakers
<1>2. CASE ClassOf(id) = "bidi"
  <2>1. HandoffCleanup(id) = <<Finish(id), StopSending(id)>>
    BY <1>2 DEF HandoffCleanup
  <2>2. Range(<<Finish(id), StopSending(id)>>) = {Finish(id), StopSending(id)}
    BY DEF Range
  <2> QED BY <1>1, <1>2, <2>1, <2>2
<1>3. CASE ClassOf(id) # "bidi"
  <2>1. HandoffCleanup(id) = <<Finish(id)>>
    BY <1>3 DEF HandoffCleanup
  <2>2. Range(<<Finish(id)>>) = {Finish(id)}
    BY DEF Range
  <2> QED BY <1>1, <1>3, <2>1, <2>2
<1> QED BY <1>2, <1>3

\* One slot changes.
LEMMA SlotChange ==
  ASSUME NEW s \in [Openers -> [Classes -> Slots]], NEW o \in Openers, NEW c \in Classes,
         NEW x \in Slots
  PROVE  /\ [s EXCEPT ![o][c] = x] \in [Openers -> [Classes -> Slots]]
         /\ \A p \in Openers, d \in Classes :
              [s EXCEPT ![o][c] = x][p][d] = IF p = o /\ d = c THEN x ELSE s[p][d]
OBVIOUS

\* The slots that are made.
LEMMA SlotMakers ==
  /\ Idle \in Slots /\ Idle.st = "none" /\ Idle.id = None
  /\ \A st \in {"none", "send", "queued", "ok", "err"}, id \in Nat \cup {None}, err \in Errors :
       /\ Slot(st, id, err) \in Slots
       /\ Slot(st, id, err).st = st /\ Slot(st, id, err).id = id /\ Slot(st, id, err).err = err
BY DEF Idle, Slot, Slots, Errors

\* The slots of the steps of an open that has not failed.
LEMMA SlotKinds ==
  /\ Slot("send", None, "none") \in Slots /\ Slot("queued", None, "none") \in Slots
  /\ \A id \in Nat : Slot("ok", id, "none") \in Slots
  /\ Idle \in Slots
BY DEF Idle, Slot, Slots, Errors

-----------------------------------------------------------------------------
(* The steps, taken apart.                                                 *)

\* apply_inbox with nothing left, or with a command of each kind.
ApplyNothing ==
  /\ cmd = <<>> /\ GoTo(Classes, open)
  /\ UNCHANGED <<cmd, open, pending_close, registry, finishing>>

ApplyOpen(m) ==
  /\ m.op = "Open"
  /\ open' = [open EXCEPT ![m.req[2]] = Append(@, m.req)]
  /\ UNCHANGED <<pending_close, registry, finishing>>

ApplyClose(m) ==
  /\ m.op = "Close" /\ StageClose(m.code)
  /\ UNCHANGED <<open, registry, finishing>>

ApplyFinish(m) ==
  /\ m.op = "Finish"
  /\ finishing' = finishing \cup {m.id}
  /\ registry' = registry \cup {<<m.id, "send">>}
  /\ UNCHANGED <<open, pending_close>>

ApplyStop(m) ==
  /\ m.op = "StopSending"
  /\ registry' = registry \ {<<m.id, "recv">>}
  /\ UNCHANGED <<open, pending_close, finishing>>

ApplyRest ==
  UNCHANGED <<quicheVars, est, next_id, cur, materialized,
              explicit_close_attempted, local_close, close_bug,
              graceful_close_issued, last_handle_teardown, needs_iteration,
              conn_terminal, frontVars, calls>>

\* stage_open(c): it ends, skips a cancelled request, declines one, or
\* materializes its stream.
StageStops(c) ==
  /\ wpc' \in {"open_uni", "finish"} /\ left' \in Nat
  /\ needs_iteration' \in BOOLEAN
  /\ UNCHANGED <<credit, slot, openVars>>

StageTakes(c) ==
  /\ open[c] # <<>> /\ left > 0 /\ left' = left - 1
  /\ open' = [open EXCEPT ![c] = Tail(@)]
  /\ UNCHANGED <<finishing, needs_iteration>>

StageSkips(c) ==
  /\ StageTakes(c) /\ Cancelled(Head(open[c]))
  /\ UNCHANGED <<wpc, credit, slot, next_id, cur, registry, materialized>>

StageDeclines(c) ==
  /\ StageTakes(c) /\ ~Cancelled(Head(open[c])) /\ ~HasHandles
  /\ Answer({Head(open[c])}, published_terminal)
  /\ UNCHANGED <<wpc, credit, next_id, cur, registry, materialized>>

StageOpens(c) ==
  /\ StageTakes(c) /\ ~Cancelled(Head(open[c])) /\ HasHandles /\ credit[c] > 0
  /\ next_id' = [next_id EXCEPT ![c] = @ + 4]
  /\ materialized' = materialized \cup {next_id[c]}
  /\ credit' = [credit EXCEPT ![c] = @ - 1]
  /\ registry' = registry \cup Entries(next_id[c])
  /\ cur' = <<Head(open[c]), next_id[c]>>
  /\ wpc' = "reply"
  /\ UNCHANGED slot

StageRest ==
  UNCHANGED <<peer_error, local_error, timed_out, est, cmd, closeVars,
              last_handle_teardown, conn_terminal, setup, opener, held, told,
              closes, calls>>

\* Where the worker goes on.
LEMMA GoToSome ==
  ASSUME NEW q, NEW stages \in SUBSET Classes, GoTo(stages, q)
  PROVE  wpc' \in {"open_bidi", "open_uni", "finish"} /\ left' \in Nat
         /\ ("bidi" \notin stages => wpc' # "open_bidi")
BY ConnWorkerAssumption DEF GoTo, Stage, Classes

\* What apply_inbox does, case by case.
LEMMA ApplyCases ==
  ASSUME TypeOK, apply_inbox
  PROVE  /\ wpc = "apply" /\ ApplyRest
         /\ wpc' \in {"apply", "open_bidi", "open_uni", "finish"} /\ left' \in Nat
         /\ \/ ApplyNothing
            \/ /\ cmd # <<>> /\ cmd' = Tail(cmd)
               /\ \/ ApplyOpen(Head(cmd)) \/ ApplyClose(Head(cmd))
                  \/ ApplyFinish(Head(cmd)) \/ ApplyStop(Head(cmd))
<1>1. wpc = "apply" /\ ApplyRest
  BY DEF apply_inbox, ApplyRest
<1>2. CASE cmd = <<>>
  <2>1. ApplyNothing
    BY <1>2 DEF apply_inbox, ApplyNothing
  <2>2. GoTo(Classes, open)
    BY <2>1 DEF ApplyNothing
  <2>3. wpc' \in {"open_bidi", "open_uni", "finish"} /\ left' \in Nat
    BY <2>2, GoToSome
  <2> QED BY <1>1, <2>1, <2>3
<1>3. CASE cmd # <<>>
  <2>1. /\ cmd' = Tail(cmd)
        /\ \/ ApplyOpen(Head(cmd)) \/ ApplyClose(Head(cmd))
           \/ ApplyFinish(Head(cmd)) \/ ApplyStop(Head(cmd))
    BY <1>3 DEF apply_inbox, ApplyOpen, ApplyClose, ApplyFinish, ApplyStop
  <2>2. CASE left > 1
    <3>1. left' = left - 1 /\ wpc' = wpc
      BY <1>3, <2>2 DEF apply_inbox
    <3> QED BY <1>1, <1>3, <2>1, <2>2, <3>1 DEF TypeOK, TypeWorker
  <2>3. CASE ~(left > 1)
    <3>1. GoTo(Classes, open')
      BY <1>3, <2>3 DEF apply_inbox
    <3>2. wpc' \in {"open_bidi", "open_uni", "finish"} /\ left' \in Nat
      BY <3>1, GoToSome
    <3> QED BY <1>1, <1>3, <2>1, <3>2, Zenon
  <2> QED BY <2>2, <2>3
<1> QED BY <1>2, <1>3

\* What stage_open does, case by case.
LEMMA StageCases ==
  ASSUME TypeOK, NEW c \in Classes, stage_open(c)
  PROVE  /\ wpc = Stage[c] /\ StageRest
         /\ \/ StageStops(c) \/ StageSkips(c) \/ StageDeclines(c) \/ StageOpens(c)
<1>1. wpc = Stage[c] /\ StageRest
  BY DEF stage_open, StageRest
<1>2. StageEnds(c) => wpc' \in {"open_uni", "finish"} /\ left' \in Nat
  <2>1. SUFFICES ASSUME StageEnds(c) PROVE wpc' \in {"open_uni", "finish"} /\ left' \in Nat
    OBVIOUS
  <2>2. PICK st \in SUBSET Classes : "bidi" \notin st /\ GoTo(st, open)
    BY <2>1 DEF StageEnds, Classes
  <2> QED BY <2>2, GoToSome
<1>3. CASE left = 0 \/ open[c] = <<>>
  <2>0. ~(left > 0 /\ open[c] # <<>>)
    BY <1>3
  <2>1. StageEnds(c) /\ UNCHANGED <<credit, slot, openVars>>
    BY <2>0, ZenonT(30) DEF stage_open
  <2>2. needs_iteration' = (needs_iteration \/ Backlog(c))
    BY <2>0, ZenonT(30) DEF stage_open
  <2>3. needs_iteration' \in BOOLEAN
    BY <2>2
  <2> QED BY <1>1, <1>2, <2>1, <2>3 DEF StageStops
<1>4. CASE left > 0 /\ open[c] # <<>>
  <2>1. CASE ~Cancelled(Head(open[c])) /\ credit[c] = 0 /\ StageEnds(c)
             /\ UNCHANGED <<credit, slot, openVars, needs_iteration>>
    <3>1. needs_iteration' \in BOOLEAN
      BY <2>1 DEF TypeOK, TypeWorker
    <3> QED BY <1>1, <1>2, <2>1, <3>1 DEF StageStops
  <2>2. CASE StageTakes(c) /\ Cancelled(Head(open[c])) /\ Advance(c, FALSE)
             /\ UNCHANGED <<wpc, credit, slot, cur, registry, materialized>>
    BY <1>1, <2>2 DEF StageSkips, Advance
  <2>3. CASE StageTakes(c) /\ ~Cancelled(Head(open[c])) /\ ~HasHandles
             /\ Answer({Head(open[c])}, published_terminal) /\ Advance(c, FALSE)
             /\ UNCHANGED <<wpc, credit, cur, registry, materialized>>
    BY <1>1, <2>3 DEF StageDeclines, Advance
  <2>4. CASE StageTakes(c) /\ ~Cancelled(Head(open[c])) /\ HasHandles /\ Advance(c, TRUE)
             /\ credit[c] > 0
             /\ materialized' = materialized \cup {next_id[c]}
             /\ credit' = [credit EXCEPT ![c] = @ - 1]
             /\ registry' = registry \cup Entries(next_id[c])
             /\ cur' = <<Head(open[c]), next_id[c]>> /\ wpc' = "reply" /\ UNCHANGED slot
    BY <1>1, <2>4 DEF StageOpens, Advance
  <2>5. ~(left = 0 \/ open[c] = <<>>)
    BY <1>4 DEF TypeOK, TypeWorker
  <2> QED BY <1>4, <2>1, <2>2, <2>3, <2>4, <2>5 DEF stage_open, StageTakes
<1>5. left = 0 \/ left > 0
  BY DEF TypeOK, TypeWorker
<1> QED BY <1>3, <1>4, <1>5

\* The initial state has the types.
LEMMA InitTypes == Init => TypeOK
<1> SUFFICES ASSUME Init PROVE TypeOK
  OBVIOUS
<1> USE ConnWorkerAssumption DEF Init
<1>1. TypeQuiche
  BY DEF TypeQuiche
<1>2. TypeWorker
  <2>1. Seed \in [Classes -> Nat]
    BY DEF Seed
  <2>2. conn_terminal \in Terminals
    BY DEF Terminals
  <2>3. cmd \in Seq(Cmds) /\ open \in [Classes -> Seq(Reqs)] /\ left \in Nat /\ cur = <<>>
    OBVIOUS
  <2> QED BY <2>1, <2>2, <2>3 DEF TypeWorker
<1>3. TypeClose
  BY DEF TypeClose
<1>4. TypeFront
  <2>1. slot \in [Openers -> [Classes -> Slots]]
    BY SlotMakers
  <2>2. held \subseteq Nat /\ materialized \subseteq Nat /\ told \subseteq Errors /\ closes \in Nat
    OBVIOUS
  <2> QED BY <2>1, <2>2 DEF TypeFront
<1> QED BY <1>1, <1>2, <1>3, <1>4 DEF TypeOK

\* Errors, answers and messages have their types.
LEMMA ErrorTypes ==
  /\ \A t : to_h3(t) \in Errors
  /\ TypeOK => published_terminal \in Terminals /\ classify_conn_terminal \in Terminals
  /\ \A t \in Terminals : t.kind # "none" => to_h3(t) # "none"
<1>1. \A t : to_h3(t) \in Errors
  BY DEF to_h3, Errors
<1>2. Internal \in Terminals
  BY DEF Internal, Terminal, Terminals
<1>3. TypeOK => published_terminal \in Terminals
  BY <1>2 DEF published_terminal, TypeOK, TypeWorker
<1>4. \A e, o : o \in {"Peer", "Local"} => conn_terminal_from_error(o, e) \in Terminals
  BY DEF conn_terminal_from_error, Terminal, Terminals
<1>5. Terminal("Timeout", "none", None) \in Terminals
  BY DEF Terminal, Terminals
<1>6. TypeOK => Terminal("AppClose", "Local", local_close) \in Terminals
  BY DEF Terminal, Terminals, TypeOK, TypeClose
<1>7. TypeOK => classify_conn_terminal \in Terminals
  BY <1>2, <1>4, <1>5, <1>6 DEF classify_conn_terminal
<1>8. \A t \in Terminals : t.kind # "none" => to_h3(t) # "none"
  BY DEF to_h3, Terminals
<1> QED BY <1>1, <1>3, <1>7, <1>8

\* The slots after the answer to a set of requests.
LEMMA AnswerSlots ==
  ASSUME TypeOK, NEW reqs, NEW t, Answer(reqs, t)
  PROVE  /\ slot' \in [Openers -> [Classes -> Slots]]
         /\ \A o \in Openers, c \in Classes :
              slot'[o][c] = IF <<o, c>> \in reqs /\ opener[o] # "gone"
                              THEN Slot("err", None, to_h3(t)) ELSE slot[o][c]
<1>1. Slot("err", None, to_h3(t)) \in Slots
  BY SlotMakers, ErrorTypes
<1>2. \A o \in Openers, c \in Classes : slot[o][c] \in Slots
  BY DEF TypeOK, TypeFront
<1>3. \A o, c : Cancelled(<<o, c>>) <=> opener[o] = "gone"
  BY DEF Cancelled
<1> HIDE DEF Slot, Cancelled
<1> QED BY <1>1, <1>2, <1>3 DEF Answer

LEMMA AnswerSlot ==
  ASSUME TypeOK, NEW reqs, NEW t, Answer(reqs, t), NEW o \in Openers, NEW c \in Classes
  PROVE  /\ <<o, c>> \in reqs /\ opener[o] # "gone" => slot'[o][c] = Slot("err", None, to_h3(t))
         /\ ~(<<o, c>> \in reqs /\ opener[o] # "gone") => slot'[o][c] = slot[o][c]
<1> HIDE DEF Slot, Answer
<1> QED BY AnswerSlots

\* The channel after a send: a closed one stays as it is.
LEMMA SendElems ==
  ASSUME TypeOK, NEW cs \in Seq(Cmds), Send(cs)
  PROVE  /\ cmd' \in Seq(Cmds)
         /\ Range(cmd) \subseteq Range(cmd')
         /\ Range(cmd') \subseteq Range(cmd) \cup Range(cs)
         /\ wpc # "exited" => Range(cmd') = Range(cmd) \cup Range(cs)
<1>1. cmd \in Seq(Cmds)
  BY DEF TypeOK, TypeWorker
<1>2. cmd \o cs \in Seq(Cmds) /\ Range(cmd \o cs) = Range(cmd) \cup Range(cs)
  BY <1>1, ConcatElems
<1>3. CASE IngressOpen
  BY <1>2, <1>3 DEF Send
<1>4. CASE ~IngressOpen
  BY <1>1, <1>4 DEF Send, IngressOpen
<1> QED BY <1>3, <1>4

\* The streams nobody polled for that go with an opener.
Unpolled(o) == {slot[o][c].id : c \in {d \in Classes : slot[o][d].st = "ok"}}

\* DropSlots sends the cleanup of the handoffs nobody polled.
LEMMA DropSlotsCase ==
  ASSUME TypeOK, Front, NEW o \in Openers, DropSlots(o)
  PROVE  \E cs \in Seq(Cmds) :
           /\ Send(cs)
           /\ Range(cs) = UNION {Range(HandoffCleanup(id)) : id \in Unpolled(o)}
<1> DEFINE cleanup(c) == IF slot[o][c].st = "ok" THEN HandoffCleanup(slot[o][c].id) ELSE <<>>
<1>1. \A c \in Classes : slot[o][c] \in Slots
  BY DEF TypeOK, TypeFront
<1>2. \A c \in Classes : slot[o][c].st = "ok" => slot[o][c].id \in Nat
  BY <1>1 DEF Front, GoodSlot, Slots
<1>3. \A c \in Classes : cleanup(c) \in Seq(Cmds)
  BY <1>2, Cleanups
<1>4. Send(cleanup("bidi") \o cleanup("uni"))
  BY DEF DropSlots
<1>5. Range(<<>>) = {}
  BY DEF Range
<1>6. \A c \in Classes :
        Range(cleanup(c)) = UNION {Range(HandoffCleanup(slot[o][d].id)) :
                                     d \in {e \in {c} : slot[o][e].st = "ok"}}
  BY <1>5
<1> "bidi" \in Classes /\ "uni" \in Classes /\ Classes = {"bidi", "uni"}
  BY DEF Classes
<1> HIDE DEF cleanup
<1>7. /\ cleanup("bidi") \o cleanup("uni") \in Seq(Cmds)
      /\ Range(cleanup("bidi") \o cleanup("uni")) = Range(cleanup("bidi")) \cup Range(cleanup("uni"))
  BY <1>3, ConcatElems
<1>8. UNION {Range(HandoffCleanup(id)) : id \in Unpolled(o)}
        = Range(cleanup("bidi")) \cup Range(cleanup("uni"))
  BY <1>6 DEF Unpolled
<1> QED BY <1>4, <1>7, <1>8

-----------------------------------------------------------------------------
(* Types.                                                                  *)

\* What a request in the queue of a class, and the current one, look like.
LEMMA ReqTypes ==
  ASSUME TypeOK, Once
  PROVE  /\ \A c \in Classes : open[c] \in Seq(Reqs)
         /\ \A c \in Classes : open[c] # <<>> =>
              /\ Head(open[c]) \in Reqs /\ Head(open[c])[1] \in Openers
              /\ Head(open[c]) = <<Head(open[c])[1], c>>
         /\ wpc = "reply" => /\ cur \in Reqs \X Nat /\ cur[1][1] \in Openers
                             /\ cur[1][2] \in Classes /\ cur[1] = <<cur[1][1], cur[1][2]>>
                             /\ cur[1] \in Reqs /\ cur[2] \in Nat
<1>1. \A c \in Classes : open[c] \in Seq(Reqs)
  BY DEF TypeOK, TypeWorker
<1>2. ASSUME NEW c \in Classes, open[c] # <<>>
      PROVE /\ Head(open[c]) \in Reqs /\ Head(open[c])[1] \in Openers
            /\ Head(open[c]) = <<Head(open[c])[1], c>>
  <2>1. Head(open[c]) \in Reqs /\ Head(open[c]) \in Range(open[c])
    BY <1>1, <1>2, TailElems
  <2>2. Head(open[c])[2] = c
    BY <2>1 DEF Once
  <2> QED BY <2>1, <2>2 DEF Reqs
<1>3. wpc = "reply" => cur \in Reqs \X Nat
  BY DEF Once, TypeOK, TypeWorker
<1> QED BY <1>1, <1>2, <1>3 DEF Reqs

\* apply_inbox keeps the types.
LEMMA ApplyTypes ==
  ASSUME TypeOK, apply_inbox
  PROVE  TypeOK'
<1>1. /\ ApplyRest
      /\ wpc' \in {"apply", "open_bidi", "open_uni", "finish"} /\ left' \in Nat
  BY ApplyCases
<1>2. /\ cmd' \in Seq(Cmds) /\ open' \in [Classes -> Seq(Reqs)]
      /\ pending_close' \in Nat \cup {None}
      /\ registry' \subseteq Nat \X {"send", "recv"} /\ finishing' \subseteq Nat
  <2> DEFINE m == Head(cmd)
  <2>1. CASE ApplyNothing
    BY <2>1 DEF ApplyNothing, TypeOK, TypeWorker, TypeClose
  <2>2. ASSUME cmd # <<>>, cmd' = Tail(cmd)
        PROVE  m \in Cmds /\ cmd' \in Seq(Cmds)
    BY <2>2, TailElems DEF TypeOK, TypeWorker
  <2>3. CASE cmd # <<>> /\ cmd' = Tail(cmd) /\ ApplyOpen(m)
    <3>1. m.req \in Reqs /\ m.req[2] \in Classes
      BY <2>2, <2>3, CmdShape DEF ApplyOpen, Reqs
    <3>2. open' = [open EXCEPT ![m.req[2]] = Append(open[m.req[2]], m.req)]
      BY <2>3 DEF ApplyOpen
    <3>3. Append(open[m.req[2]], m.req) \in Seq(Reqs)
      BY <3>1 DEF TypeOK, TypeWorker
    <3>4. open' \in [Classes -> Seq(Reqs)]
      BY <3>1, <3>2, <3>3 DEF TypeOK, TypeWorker
    <3> QED BY <2>2, <2>3, <3>4 DEF ApplyOpen, TypeOK, TypeWorker, TypeClose
  <2>4. CASE cmd # <<>> /\ cmd' = Tail(cmd) /\ ApplyClose(m)
    <3>1. m.code \in Nat
      BY <2>2, <2>4, CmdShape DEF ApplyClose
    <3> QED BY <2>2, <2>4, <3>1 DEF ApplyClose, StageClose, TypeOK, TypeWorker, TypeClose
  <2>5. CASE cmd # <<>> /\ cmd' = Tail(cmd) /\ ApplyFinish(m)
    <3>1. m.id \in Nat
      BY <2>2, <2>5, CmdShape DEF ApplyFinish
    <3>2. finishing' \subseteq Nat
      BY <2>5, <3>1 DEF ApplyFinish, TypeOK, TypeWorker
    <3>3. registry' \subseteq Nat \X {"send", "recv"}
      BY <2>5, <3>1 DEF ApplyFinish, TypeOK, TypeWorker
    <3> QED BY <2>2, <2>5, <3>2, <3>3 DEF ApplyFinish, TypeOK, TypeWorker, TypeClose
  <2>6. CASE cmd # <<>> /\ cmd' = Tail(cmd) /\ ApplyStop(m)
    BY <2>2, <2>6 DEF ApplyStop, TypeOK, TypeWorker, TypeClose
  <2> QED BY <2>1, <2>3, <2>4, <2>5, <2>6, ApplyCases
<1>3. TypeQuiche' /\ TypeFront'
  BY <1>1 DEF ApplyRest, quicheVars, frontVars, TypeOK, TypeQuiche, TypeFront
<1>4. TypeWorker'
  BY <1>1, <1>2 DEF ApplyRest, TypeOK, TypeWorker
<1>5. TypeClose'
  BY <1>1, <1>2 DEF ApplyRest, TypeOK, TypeClose
<1> QED BY <1>3, <1>4, <1>5 DEF TypeOK

\* The entries of a stream are its halves.
LEMMA EntryTypes ==
  \A id \in Nat : Entries(id) \subseteq Nat \X {"send", "recv"}
BY DEF Entries, Dirs

\* stage_open keeps the types.
LEMMA StageTypes ==
  ASSUME TypeOK, Once, NEW c \in Classes, stage_open(c)
  PROVE  TypeOK'
<1>1. wpc = Stage[c] /\ StageRest
  BY StageCases
<1>2. /\ wpc' \in {"open_bidi", "open_uni", "finish", "reply"} /\ left' \in Nat
      /\ needs_iteration' \in BOOLEAN /\ credit' \in [Classes -> Nat]
      /\ slot' \in [Openers -> [Classes -> Slots]] /\ finishing' = finishing
      /\ open' \in [Classes -> Seq(Reqs)] /\ next_id' \in [Classes -> Nat]
      /\ registry' \subseteq Nat \X {"send", "recv"} /\ materialized' \subseteq Nat
      /\ cur' \in (Reqs \X Nat) \cup {<<>>}
  <2> wpc \in {"open_bidi", "open_uni"}
    BY <1>1 DEF Stage, Classes
  <2> USE DEF TypeOK, TypeQuiche, TypeWorker, TypeFront
  <2>1. CASE StageStops(c)
    BY <2>1 DEF StageStops, openVars
  <2>2. ASSUME StageTakes(c)
        PROVE  /\ open' \in [Classes -> Seq(Reqs)] /\ left' \in Nat
               /\ needs_iteration' \in BOOLEAN /\ finishing' = finishing
    <3>1. open[c] \in Seq(Reqs) /\ open[c] # <<>>
      BY <2>2 DEF StageTakes
    <3>2. Tail(open[c]) \in Seq(Reqs)
      BY <3>1, TailElems
    <3> QED BY <2>2, <3>2 DEF StageTakes
  <2>3. CASE StageSkips(c)
    BY <2>2, <2>3 DEF StageSkips
  <2>4. CASE StageDeclines(c)
    <3>1. slot' \in [Openers -> [Classes -> Slots]]
      BY <2>4, AnswerSlots DEF StageDeclines
    <3> QED BY <2>2, <2>4, <3>1 DEF StageDeclines
  <2>5. CASE StageOpens(c)
    <3>1. Head(open[c]) \in Reqs
      BY <2>5, ReqTypes DEF StageOpens, StageTakes
    <3>2. next_id[c] \in Nat /\ credit[c] \in Nat /\ credit[c] > 0
      BY <2>5 DEF StageOpens
    <3>3. Entries(next_id[c]) \subseteq Nat \X {"send", "recv"}
      BY <3>2, EntryTypes
    <3>4. credit' \in [Classes -> Nat] /\ next_id' \in [Classes -> Nat]
      BY <2>5, <3>2 DEF StageOpens
    <3> QED BY <2>2, <2>5, <3>1, <3>2, <3>3, <3>4 DEF StageOpens
  <2> QED BY <2>1, <2>3, <2>4, <2>5, StageCases
<1>3. TypeQuiche'
  BY <1>1, <1>2 DEF StageRest, TypeOK, TypeQuiche
<1>4. TypeWorker'
  BY <1>1, <1>2 DEF StageRest, TypeOK, TypeWorker
<1>5. TypeClose'
  BY <1>1 DEF StageRest, closeVars, TypeOK, TypeClose
<1>6. TypeFront'
  BY <1>1, <1>2 DEF StageRest, TypeOK, TypeFront
<1> QED BY <1>3, <1>4, <1>5, <1>6 DEF TypeOK

\* The other steps of the worker keep the types.
LEMMA WorkerTypes ==
  ASSUME TypeOK, Once,
         Packet \/ TimesOut \/ on_conn_established \/ PreHandshakeWorkerExit \/ wait_for_data
           \/ deliver \/ finish_iteration \/ on_conn_close \/ drain_on_close
  PROVE  TypeOK'
<1> USE ConnWorkerAssumption
<1>1. CASE Packet
  <2>1. TypeQuiche'
    BY <1>1 DEF Packet, TypeOK, TypeQuiche
  <2>2. TypeWorker'
    BY <1>1 DEF Packet, WorkerRest, openVars, TypeOK, TypeWorker
  <2>3. TypeClose' /\ TypeFront'
    BY <1>1 DEF Packet, WorkerRest, openVars, closeVars, frontVars, TypeOK, TypeClose, TypeFront
  <2> QED BY <2>1, <2>2, <2>3 DEF TypeOK
<1>2. CASE TimesOut
  <2>1. TypeQuiche'
    BY <1>2 DEF TimesOut, TypeOK, TypeQuiche
  <2>2. TypeWorker'
    BY <1>2 DEF TimesOut, WorkerRest, openVars, TypeOK, TypeWorker
  <2>3. TypeClose' /\ TypeFront'
    BY <1>2 DEF TimesOut, WorkerRest, openVars, closeVars, frontVars, TypeOK, TypeClose, TypeFront
  <2> QED BY <2>1, <2>2, <2>3 DEF TypeOK
<1>3. CASE on_conn_established \/ PreHandshakeWorkerExit
  <2>1. UNCHANGED <<quicheVars, openVars, closeVars, frontVars, calls>>
    BY <1>3 DEF on_conn_established, PreHandshakeWorkerExit
  <2>2. TypeQuiche' /\ TypeClose'
    BY <2>1 DEF quicheVars, closeVars, TypeOK, TypeQuiche, TypeClose
  <2>3. TypeFront'
    BY <2>1 DEF openVars, frontVars, TypeOK, TypeFront
  <2>4. TypeWorker'
    BY <1>3 DEF on_conn_established, PreHandshakeWorkerExit, openVars, TypeOK, TypeWorker
  <2> QED BY <2>2, <2>3, <2>4 DEF TypeOK
<1>4. CASE wait_for_data
  <2>1. TypeQuiche' /\ TypeClose' /\ TypeFront'
    BY <1>4 DEF wait_for_data, WorkerRest, quicheVars, openVars, closeVars,
                frontVars, TypeOK, TypeQuiche, TypeClose, TypeFront
  <2>2. last_handle_teardown' \in BOOLEAN
    BY <1>4 DEF wait_for_data, TypeOK, TypeWorker
  <2>3. TypeWorker'
    BY <1>4, <2>2 DEF wait_for_data, WorkerRest, openVars, TypeOK, TypeWorker
  <2> QED BY <2>1, <2>3 DEF TypeOK
<1>5. CASE deliver
  <2> DEFINE req == cur[1]
  <2> DEFINE id == cur[2]
  <2>1. /\ req[1] \in Openers /\ req[2] \in Classes /\ id \in Nat
    BY <1>5, ReqTypes DEF deliver
  <2>2. cmd' \in Seq(Cmds)
    <3>1. CASE UNCHANGED cmd
      BY <3>1 DEF TypeOK, TypeWorker
    <3>2. CASE Send(HandoffCleanup(id))
      BY <2>1, <3>2, Cleanups, SendElems
    <3> QED BY <1>5, <3>1, <3>2 DEF deliver
  <2>3. slot' \in [Openers -> [Classes -> Slots]]
    <3>1. CASE UNCHANGED slot
      BY <3>1 DEF TypeOK, TypeFront
    <3>2. CASE slot' = [slot EXCEPT ![req[1]][req[2]] = Slot("ok", id, "none")]
      <4>1. Slot("ok", id, "none") \in Slots
        BY <2>1, SlotKinds
      <4> QED BY <2>1, <3>2, <4>1, SlotChange DEF TypeOK, TypeFront
    <3> QED BY <1>5, <3>1, <3>2 DEF deliver
  <2>4. wpc' \in {"open_bidi", "open_uni"} /\ registry' \subseteq registry /\ cur' = <<>>
    <3>1. wpc' = Stage[req[2]] /\ cur' = <<>>
      BY <1>5 DEF deliver
    <3>2. registry' \subseteq registry
      BY <1>5 DEF deliver
    <3> QED BY <2>1, <3>1, <3>2 DEF Stage, Classes
  <2>5. TypeQuiche' /\ TypeClose' /\ TypeFront'
    BY <1>5, <2>3 DEF deliver, quicheVars, closeVars, TypeOK, TypeQuiche, TypeClose, TypeFront
  <2>6. TypeWorker'
    BY <1>5, <2>2, <2>4 DEF deliver, TypeOK, TypeWorker
  <2> QED BY <2>5, <2>6 DEF TypeOK
<1>6. CASE finish_iteration
  <2>1. /\ finishing' \subseteq finishing /\ registry' \subseteq registry
    BY <1>6 DEF finish_iteration
  <2>2. /\ wpc' \in {"wait", "ended"} /\ local_error' \in {"none", "app", "transport"}
        /\ TypeClose'
    <3>1. CASE ~CloseDue
      BY <1>6, <3>1 DEF finish_iteration, apply_close_barrier, closeVars, TypeOK, TypeQuiche, TypeClose
    <3>2. CASE CloseDue
      <4>1. calls' \in Nat /\ pending_close' = None /\ explicit_close_attempted' = TRUE
        BY <1>6, <3>2 DEF finish_iteration, apply_close_barrier, TypeOK, TypeClose
      <4>2. /\ wpc' \in {"wait", "ended"} /\ local_error' \in {"none", "app", "transport"}
            /\ local_close' \in {local_close, pending_close, H3_NO_ERROR}
        BY <1>6, <3>2 DEF finish_iteration, apply_close_barrier, TypeOK, TypeQuiche
      <4>3. graceful_close_issued' \in BOOLEAN /\ close_bug' \in BOOLEAN
        BY <1>6, <3>2 DEF finish_iteration, apply_close_barrier, TypeOK, TypeClose
      <4> QED BY <4>1, <4>2, <4>3 DEF TypeOK, TypeClose, H3_NO_ERROR
    <3> QED BY <3>1, <3>2
  <2>3. TypeQuiche' /\ TypeFront'
    BY <1>6, <2>2 DEF finish_iteration, frontVars, TypeOK, TypeQuiche, TypeFront
  <2>4. TypeWorker'
    BY <1>6, <2>1, <2>2 DEF finish_iteration, TypeOK, TypeWorker
  <2> QED BY <2>2, <2>3, <2>4 DEF TypeOK
<1>7. CASE on_conn_close
  <2>1. classify_conn_terminal \in Terminals
    BY ErrorTypes
  <2>2. TypeQuiche' /\ TypeClose' /\ TypeFront'
    BY <1>7 DEF on_conn_close, quicheVars, openVars, closeVars, frontVars, TypeOK, TypeQuiche,
                TypeClose, TypeFront
  <2>3. TypeWorker'
    BY <1>7, <2>1 DEF on_conn_close, openVars, TypeOK, TypeWorker
  <2> QED BY <2>2, <2>3 DEF TypeOK
<1>8. CASE drain_on_close
  <2>1. PICK reqs : Answer(reqs, conn_terminal)
    BY <1>8 DEF drain_on_close
  <2>2. slot' \in [Openers -> [Classes -> Slots]]
    BY <2>1, AnswerSlots
  <2>3. TypeQuiche' /\ TypeClose' /\ TypeFront'
    BY <1>8, <2>2 DEF drain_on_close, quicheVars, closeVars, TypeOK, TypeQuiche, TypeClose, TypeFront
  <2>4. cmd' \in Seq(Cmds) /\ open' \in [Classes -> Seq(Reqs)]
    BY <1>8 DEF drain_on_close
  <2>5. TypeWorker'
    BY <1>8, <2>4 DEF drain_on_close, TypeOK, TypeWorker
  <2> QED BY <2>3, <2>5 DEF TypeOK
<1> QED BY <1>1, <1>2, <1>3, <1>4, <1>5, <1>6, <1>7, <1>8

\* The steps of the front end.
Frontend ==
  \/ into_established_connection \/ AbandonSetup
  \/ \E o \in Openers : \/ Clone(o) \/ DropSender(o) \/ DropSlots(o) \/ close(o)
                        \/ \E c \in Classes : poll_open(o, c) \/ Submit(o, c) \/ poll_reply(o, c)
  \/ \E id \in held : StreamDrop(id)

\* They change neither the worker nor quiche.
LEMMA FrontendFrame == Frontend => UNCHANGED workerVars
BY DEF Frontend, into_established_connection, AbandonSetup, Clone, DropSender, DropSlots, close,
       poll_open, Submit, poll_reply, StreamDrop

\* The steps of the front end keep the types.
LEMMA FrontendTypes ==
  ASSUME TypeOK, Front, Frontend
  PROVE  TypeOK'
<1>1. UNCHANGED workerVars
  BY FrontendFrame
<1>2. cmd' \in Seq(Cmds) /\ TypeFront'
  <2> cmd \in Seq(Cmds) /\ slot \in [Openers -> [Classes -> Slots]] /\ materialized' = materialized
    BY <1>1 DEF TypeOK, TypeWorker, TypeFront, workerVars, openVars
  <2> USE DEF TypeFront
  <2>1. CASE into_established_connection \/ AbandonSetup
    BY <2>1, ConnWorkerAssumption DEF into_established_connection, AbandonSetup, TypeOK
  <2>2. ASSUME NEW o \in Openers, Clone(o) \/ DropSender(o)
        PROVE  cmd' \in Seq(Cmds) /\ TypeFront'
    BY <2>2 DEF Clone, DropSender, TypeOK
  <2>3. ASSUME NEW o \in Openers, DropSlots(o)
        PROVE  cmd' \in Seq(Cmds) /\ TypeFront'
    <3>1. cmd' \in Seq(Cmds)
      BY <2>3, DropSlotsCase, SendElems
    <3>2. slot' \in [Openers -> [Classes -> Slots]]
      BY <2>3, SlotMakers DEF DropSlots
    <3> QED BY <2>3, <3>1, <3>2 DEF DropSlots, TypeOK
  <2>4. ASSUME NEW o \in Openers, close(o)
        PROVE  cmd' \in Seq(Cmds) /\ TypeFront'
    <3>1. closes \in Nat /\ CloseCmd(closes + 1) \in Cmds
      BY CmdMakers DEF TypeOK
    <3>2. cmd' \in Seq(Cmds)
      <4>1. <<CloseCmd(closes + 1)>> \in Seq(Cmds)
        BY <3>1
      <4> QED BY <2>4, <4>1, SendElems DEF close
    <3> QED BY <2>4, <3>1, <3>2 DEF close, TypeOK
  <2>5. ASSUME NEW o \in Openers, NEW c \in Classes, poll_open(o, c)
        PROVE  cmd' \in Seq(Cmds) /\ TypeFront'
    <3>1. Slot("send", None, "none") \in Slots
      BY SlotKinds
    <3>2. [slot EXCEPT ![o][c] = Slot("send", None, "none")] \in [Openers -> [Classes -> Slots]]
      BY <3>1, SlotChange
    <3>3. slot' \in [Openers -> [Classes -> Slots]]
      BY <2>5, <3>2 DEF poll_open
    <3>4. told' \subseteq Errors
      <4>1. to_h3(conn_terminal) \in Errors
        BY ErrorTypes
      <4> QED BY <2>5, <4>1 DEF poll_open, TypeOK
    <3> QED BY <2>5, <3>3, <3>4 DEF poll_open, TypeOK
  <2>6. ASSUME NEW o \in Openers, NEW c \in Classes, Submit(o, c)
        PROVE  cmd' \in Seq(Cmds) /\ TypeFront'
    <3>1. Slot("queued", None, "none") \in Slots /\ Idle \in Slots
      BY SlotKinds
    <3>2. /\ [slot EXCEPT ![o][c] = Slot("queued", None, "none")] \in [Openers -> [Classes -> Slots]]
          /\ [slot EXCEPT ![o][c] = Idle] \in [Openers -> [Classes -> Slots]]
      BY <3>1, SlotChange
    <3>3. Append(cmd, OpenCmd(o, c)) \in Seq(Cmds)
      BY CmdMakers, AppendElems
    <3>4. slot' \in [Openers -> [Classes -> Slots]]
      BY <2>6, <3>2 DEF Submit
    <3>5. told' \subseteq Errors
      <4>1. to_h3(published_terminal) \in Errors
        BY ErrorTypes
      <4> QED BY <2>6, <4>1 DEF Submit, TypeOK
    <3>6. cmd' \in Seq(Cmds)
      BY <2>6, <3>3 DEF Submit
    <3> QED BY <2>6, <3>4, <3>5, <3>6 DEF Submit, TypeOK
  <2>7. ASSUME NEW o \in Openers, NEW c \in Classes, poll_reply(o, c)
        PROVE  cmd' \in Seq(Cmds) /\ TypeFront'
    <3>1. [slot EXCEPT ![o][c] = Idle] \in [Openers -> [Classes -> Slots]]
      BY SlotMakers, SlotChange
    <3>2. slot[o][c] \in Slots
      OBVIOUS
    <3>3. slot[o][c].st = "ok" => slot[o][c].id \in Nat
      BY <3>2 DEF Front, GoodSlot, Slots
    <3>4. slot[o][c].err \in Errors
      BY <3>2 DEF Slots
    <3> QED BY <2>7, <3>1, <3>3, <3>4 DEF poll_reply, TypeOK
  <2>8. ASSUME NEW id \in held, StreamDrop(id)
        PROVE  cmd' \in Seq(Cmds) /\ TypeFront'
    <3>1. id \in Nat
      BY DEF TypeOK
    <3>2. cmd' \in Seq(Cmds)
      BY <2>8, <3>1, Cleanups, SendElems DEF StreamDrop
    <3> QED BY <2>8, <3>2 DEF StreamDrop, TypeOK
  <2> QED BY <2>1, <2>2, <2>3, <2>4, <2>5, <2>6, <2>7, <2>8 DEF Frontend
<1>3. TypeQuiche' /\ TypeClose'
  BY <1>1 DEF workerVars, quicheVars, closeVars, TypeOK, TypeQuiche, TypeClose
<1>4. TypeWorker'
  BY <1>1, <1>2 DEF workerVars, openVars, TypeOK, TypeWorker
<1> QED BY <1>2, <1>3, <1>4 DEF TypeOK

\* Every step keeps the types.
LEMMA StepTypes ==
  ASSUME TypeOK, Front, Once, Next
  PROVE  TypeOK'
BY ApplyTypes, StageTypes, WorkerTypes, FrontendTypes DEF Next, Worker, Frontend

-----------------------------------------------------------------------------
(* The end of the command channel, and the first Close.                    *)

\* A destructor sends a Finish or a StopSending, and nothing else.
QuietSend ==
  \E cs \in Seq(Cmds) : Send(cs) /\ \A m \in Range(cs) : m.op \in {"Finish", "StopSending"}

\* A cleanup consists of Finish and StopSending commands.
LEMMA CleanupOps ==
  ASSUME NEW id \in Nat, NEW m \in Range(HandoffCleanup(id))
  PROVE  m \in Cmds /\ m.op \in {"Finish", "StopSending"} /\ m.id = id
BY Cleanups, CmdMakers

\* The steps that send nothing but cleanup.
LEMMA QuietSteps ==
  ASSUME TypeOK, Front, Once,
         deliver \/ (\E o \in Openers : DropSlots(o)) \/ (\E id \in held : StreamDrop(id))
  PROVE  UNCHANGED cmd \/ QuietSend
<1>1. ASSUME NEW id \in Nat, Send(HandoffCleanup(id))
      PROVE  QuietSend
  <2>1. HandoffCleanup(id) \in Seq(Cmds)
    BY Cleanups
  <2>2. \A m \in Range(HandoffCleanup(id)) : m.op \in {"Finish", "StopSending"}
    BY CleanupOps
  <2> QED BY <1>1, <2>1, <2>2 DEF QuietSend
<1>2. CASE deliver
  <2>1. cur[2] \in Nat
    BY <1>2, ReqTypes DEF deliver
  <2>2. UNCHANGED cmd \/ Send(HandoffCleanup(cur[2]))
    BY <1>2 DEF deliver
  <2> QED BY <1>1, <2>1, <2>2
<1>3. ASSUME NEW o \in Openers, DropSlots(o)
      PROVE  QuietSend
  <2>1. PICK cs \in Seq(Cmds) :
          Send(cs) /\ Range(cs) = UNION {Range(HandoffCleanup(id)) : id \in Unpolled(o)}
    BY <1>3, DropSlotsCase
  <2>2. Unpolled(o) \subseteq Nat
    <3>1. \A c \in Classes : slot[o][c] \in Slots
      BY DEF TypeOK, TypeFront
    <3>2. \A c \in Classes : slot[o][c].st = "ok" => slot[o][c].id \in Nat
      BY <3>1 DEF Front, GoodSlot, Slots
    <3> QED BY <3>2 DEF Unpolled
  <2>3. \A m \in Range(cs) : m.op \in {"Finish", "StopSending"}
    <3>1. SUFFICES ASSUME NEW m \in Range(cs) PROVE m.op \in {"Finish", "StopSending"}
      OBVIOUS
    <3>2. PICK id \in Unpolled(o) : m \in Range(HandoffCleanup(id))
      BY <2>1
    <3> QED BY <2>2, <3>2, CleanupOps
  <2> QED BY <2>1, <2>3 DEF QuietSend
<1>4. ASSUME NEW id \in held, StreamDrop(id)
      PROVE  QuietSend
  BY <1>1, <1>4 DEF StreamDrop, TypeOK, TypeFront
<1> QED BY <1>2, <1>3, <1>4

\* Without handles there will be none, and no Close.
LEMMA StepOrphan ==
  ASSUME TypeOK, Front, Once, Orphan, Next
  PROVE  Orphan'
<1>1. CASE ~last_handle_teardown
  <2>1. CASE wait_for_data
    <3>1. ~HasHandles' \/ ~last_handle_teardown'
      BY <1>1, <2>1 DEF wait_for_data, WorkerRest, frontVars, HasHandles
    <3>2. wpc' # "reply" /\ cmd' = cmd
      BY <2>1 DEF wait_for_data
    <3>3. ~last_handle_teardown' \/ cmd = <<>>
      BY <1>1, <2>1 DEF wait_for_data
    <3>4. Range(<<>>) = {}
      BY DEF Range
    <3> QED BY <3>1, <3>2, <3>3, <3>4 DEF Orphan
  <2>2. CASE ~wait_for_data
    <3>1. ~last_handle_teardown'
      <4>1. CASE Packet \/ TimesOut \/ on_conn_established \/ PreHandshakeWorkerExit \/ deliver
                   \/ finish_iteration \/ on_conn_close \/ drain_on_close
        BY <1>1, <4>1 DEF Packet, TimesOut, on_conn_established, PreHandshakeWorkerExit, deliver,
                          finish_iteration, on_conn_close, drain_on_close
      <4>2. CASE apply_inbox
        BY <1>1, <4>2 DEF apply_inbox
      <4>3. CASE \E c \in Classes : stage_open(c)
        BY <1>1, <4>3 DEF stage_open
      <4>4. CASE Frontend
        BY <1>1, <4>4, FrontendFrame DEF workerVars
      <4> QED BY <2>2, <4>1, <4>2, <4>3, <4>4 DEF Next, Worker, Frontend
    <3> QED BY <3>1 DEF Orphan
  <2> QED BY <2>1, <2>2
<1>2. CASE last_handle_teardown
  <2>1. /\ setup # "waiting" /\ (\A o \in Openers : opener[o] # "live") /\ held = {}
        /\ \A o \in Openers, c \in Classes : slot[o][c].st # "ok"
        /\ wpc # "reply" /\ \A m \in Range(cmd) : m.op # "Close"
    BY <1>2 DEF Orphan, HasHandles
  <2>2. SUFFICES /\ ~HasHandles' /\ wpc' # "reply"
                 /\ \A m \in Range(cmd') : m.op # "Close"
    BY DEF Orphan
  <2>3. ASSUME UNCHANGED frontVars
        PROVE  ~HasHandles'
    BY <2>1, <2>3 DEF HasHandles, frontVars
  <2>4. ASSUME NEW reqs, NEW t, Answer(reqs, t), UNCHANGED <<setup, opener, held>>
        PROVE  ~HasHandles'
    <3>1. \A o \in Openers, c \in Classes : slot'[o][c].st # "ok"
      <4>1. Slot("err", None, to_h3(t)).st = "err"
        BY DEF Slot
      <4>2. \A o \in Openers, c \in Classes :
              slot'[o][c] = Slot("err", None, to_h3(t)) \/ slot'[o][c] = slot[o][c]
        <5> SUFFICES ASSUME NEW o \in Openers, NEW c \in Classes
                     PROVE  slot'[o][c] = Slot("err", None, to_h3(t)) \/ slot'[o][c] = slot[o][c]
          OBVIOUS
        <5> HIDE DEF Slot
        <5> QED BY <2>4, AnswerSlot
      <4> QED BY <2>1, <4>1, <4>2
    <3> QED BY <2>1, <2>4, <3>1 DEF HasHandles
  <2>5. CASE Packet \/ TimesOut \/ on_conn_established \/ PreHandshakeWorkerExit \/ wait_for_data
               \/ finish_iteration \/ on_conn_close
    <3>1. UNCHANGED frontVars /\ cmd' = cmd
      BY <2>5 DEF Packet, TimesOut, on_conn_established, PreHandshakeWorkerExit, wait_for_data,
                  finish_iteration, on_conn_close, WorkerRest
    <3>2. wpc' # "reply"
      BY <2>5 DEF Packet, TimesOut, on_conn_established, PreHandshakeWorkerExit, wait_for_data,
                  finish_iteration, apply_close_barrier, on_conn_close
    <3> QED BY <2>1, <2>3, <3>1, <3>2
  <2>6. CASE apply_inbox
    <3>1. UNCHANGED frontVars /\ wpc' # "reply"
      BY <2>6, ApplyCases DEF ApplyRest
    <3>2. cmd' = cmd \/ (cmd # <<>> /\ cmd' = Tail(cmd))
      BY <2>6, ApplyCases DEF ApplyNothing
    <3>3. Range(cmd') \subseteq Range(cmd)
      BY <3>2, TailElems DEF TypeOK, TypeWorker
    <3> QED BY <2>1, <2>3, <3>1, <3>3
  <2>7. ASSUME NEW c \in Classes, stage_open(c)
        PROVE  /\ ~HasHandles' /\ wpc' # "reply"
               /\ \A m \in Range(cmd') : m.op # "Close"
    <3>1. ~StageOpens(c)
      BY <1>2 DEF StageOpens, Orphan
    <3>2. cmd' = cmd /\ UNCHANGED <<setup, opener, held, told, closes>>
      BY <2>7, StageCases DEF StageRest
    <3>3. CASE StageStops(c) \/ StageSkips(c)
      BY <2>1, <2>3, <3>2, <3>3 DEF StageStops, StageSkips, frontVars
    <3>4. CASE StageDeclines(c)
      BY <2>1, <2>4, <3>2, <3>4 DEF StageDeclines
    <3> QED BY <2>7, <3>1, <3>3, <3>4, StageCases
  <2>8. CASE drain_on_close
    <3>1. ~HasHandles'
      BY <2>4, <2>8 DEF drain_on_close
    <3>2. wpc' # "reply" /\ cmd' = <<>>
      BY <2>8 DEF drain_on_close
    <3> QED BY <3>1, <3>2 DEF Range
  <2>9. ASSUME NEW o \in Openers, DropSlots(o)
        PROVE  /\ ~HasHandles' /\ wpc' # "reply"
               /\ \A m \in Range(cmd') : m.op # "Close"
    <3>1. \A p \in Openers, c \in Classes : slot'[p][c].st # "ok"
      BY <2>1, <2>9, SlotMakers DEF DropSlots, TypeOK, TypeFront
    <3>2. \A p \in Openers : opener'[p] # "live"
      BY <2>1, <2>9 DEF DropSlots, TypeOK, TypeFront
    <3>3. ~HasHandles' /\ wpc' # "reply"
      BY <2>1, <2>9, <3>1, <3>2 DEF DropSlots, HasHandles, workerVars
    <3>4. UNCHANGED cmd \/ QuietSend
      BY <2>9, QuietSteps
    <3>5. CASE QuietSend
      <4>1. PICK cs \in Seq(Cmds) : Send(cs) /\ \A m \in Range(cs) : m.op \in {"Finish", "StopSending"}
        BY <3>5 DEF QuietSend
      <4>2. Range(cmd') \subseteq Range(cmd) \cup Range(cs)
        BY <4>1, SendElems
      <4> QED BY <2>1, <3>3, <4>1, <4>2
    <3> QED BY <2>1, <3>3, <3>4, <3>5
  <2>10. ~into_established_connection /\ ~AbandonSetup /\ ~deliver
    BY <2>1 DEF into_established_connection, AbandonSetup, deliver
  <2>11. \A o \in Openers : ~Free(o)
    BY <2>1 DEF Free
  <2>12. \A o \in Openers : ~Clone(o) /\ ~DropSender(o) /\ ~close(o)
    BY <2>1, <2>11 DEF Clone, DropSender, close
  <2>13. \A o \in Openers, c \in Classes : ~poll_open(o, c) /\ ~poll_reply(o, c) /\ ~Submit(o, c)
    BY <2>1, <2>11 DEF poll_open, poll_reply, Submit, Front, GoodSlot
  <2>14. ~\E id \in held : StreamDrop(id)
    BY <2>1
  <2> QED BY <2>5, <2>6, <2>7, <2>8, <2>9, <2>10, <2>12, <2>13, <2>14 DEF Next, Worker
<1> QED BY <1>1, <1>2

\* The first Close in the channel, when a command is added or taken.
LEMMA FirstAdded ==
  ASSUME NEW s \in Seq(Cmds), NEW t \in Seq(Cmds), FirstIsOne(s),
         \A i \in DOMAIN t : t[i].op = "Close" =>
           i = 1 /\ (t[i].code = 1 \/ \E m \in Range(s) : m.op = "Close")
  PROVE  FirstIsOne(s \o t)
<1> SUFFICES ASSUME NEW i \in DOMAIN (s \o t), (s \o t)[i].op = "Close"
             PROVE  \E j \in 1..i : (s \o t)[j].op = "Close" /\ (s \o t)[j].code = 1
  BY DEF FirstIsOne
<1>1. /\ Len(s) \in Nat /\ Len(t) \in Nat /\ DOMAIN s = 1..Len(s) /\ DOMAIN t = 1..Len(t)
      /\ i \in 1..(Len(s) + Len(t))
  OBVIOUS
<1>2. \A k \in 1..Len(s) : (s \o t)[k] = s[k]
  OBVIOUS
<1>3. ASSUME NEW k \in 1..Len(s), s[k].op = "Close", k <= i
      PROVE  \E j \in 1..i : (s \o t)[j].op = "Close" /\ (s \o t)[j].code = 1
  <2>1. PICK j \in 1..k : s[j].op = "Close" /\ s[j].code = 1
    BY <1>1, <1>3 DEF FirstIsOne
  <2>2. j \in 1..Len(s) /\ j \in 1..i
    BY <1>1, <1>3
  <2> QED BY <1>2, <2>1, <2>2
<1>4. CASE i <= Len(s)
  BY <1>1, <1>2, <1>3, <1>4
<1>5. CASE i > Len(s)
  <2>1. i - Len(s) \in 1..Len(t) /\ (s \o t)[i] = t[i - Len(s)]
    BY <1>1, <1>5
  <2>2. CASE t[i - Len(s)].code = 1
    BY <1>1, <2>1, <2>2
  <2>3. CASE \E m \in Range(s) : m.op = "Close"
    <3>1. PICK k \in 1..Len(s) : s[k].op = "Close"
      BY <1>1, <2>3 DEF Range
    <3> QED BY <1>1, <1>3, <1>5, <3>1
  <2> QED BY <1>1, <2>1, <2>2, <2>3
<1> QED BY <1>1, <1>4, <1>5

\* The first Close in the channel, when a command is taken.
LEMMA FirstTaken ==
  ASSUME NEW s \in Seq(Cmds), s # <<>>, FirstIsOne(s)
  PROVE  /\ Head(s).op = "Close" => Head(s).code = 1
         /\ Head(s).op # "Close" => FirstIsOne(Tail(s))
<1>1. /\ Len(s) \in Nat \ {0} /\ DOMAIN s = 1..Len(s) /\ Head(s) = s[1]
      /\ Tail(s) \in Seq(Cmds) /\ DOMAIN Tail(s) = 1..(Len(s) - 1)
  OBVIOUS
<1>2. \A k \in 1..(Len(s) - 1) : Tail(s)[k] = s[k + 1]
  OBVIOUS
<1>3. ASSUME Head(s).op = "Close"
      PROVE  Head(s).code = 1
  <2>1. PICK j \in 1..1 : s[j].op = "Close" /\ s[j].code = 1
    BY <1>1, <1>3 DEF FirstIsOne
  <2> QED BY <1>1, <2>1
<1>4. ASSUME Head(s).op # "Close", NEW i \in DOMAIN Tail(s), Tail(s)[i].op = "Close"
      PROVE  \E j \in 1..i : Tail(s)[j].op = "Close" /\ Tail(s)[j].code = 1
  <2>1. i + 1 \in DOMAIN s /\ s[i + 1].op = "Close" /\ i \in 1..(Len(s) - 1)
    BY <1>1, <1>2, <1>4
  <2>2. PICK j \in 1..(i + 1) : s[j].op = "Close" /\ s[j].code = 1
    BY <2>1 DEF FirstIsOne
  <2>3. j # 1
    BY <1>1, <1>4, <2>2
  <2>4. j - 1 \in 1..i /\ j - 1 \in 1..(Len(s) - 1) /\ (j - 1) + 1 = j
    BY <1>1, <2>1, <2>3
  <2>5. Tail(s)[j - 1] = s[j]
    BY <1>2, <2>4
  <2> QED BY <2>2, <2>4, <2>5
<1> QED BY <1>3, <1>4 DEF FirstIsOne

\* The first Close goes its way.
LEMMA StepCloses ==
  ASSUME TypeOK, Front, Once, Orphan, Closes, Next
  PROVE  Closes'
<1> cmd \in Seq(Cmds) /\ closes \in Nat /\ calls \in Nat
  BY DEF TypeOK, TypeWorker, TypeFront, TypeClose
<1>1. ASSUME UNCHANGED <<closeVars, closes, calls, cmd, last_handle_teardown>>, wpc # "exited"
      PROVE  Closes'
  BY <1>1 DEF Closes, closeVars, Seen
<1>2. ASSUME UNCHANGED <<closeVars, closes, calls, last_handle_teardown>>, QuietSend,
             wpc = "exited" => wpc' = "exited"
      PROVE  Closes'
  <2>1. PICK cs \in Seq(Cmds) : Send(cs) /\ \A m \in Range(cs) : m.op \in {"Finish", "StopSending"}
    BY <1>2 DEF QuietSend
  <2>2. Range(cmd) \subseteq Range(cmd') /\ Range(cmd') \subseteq Range(cmd) \cup Range(cs)
    BY <2>1, SendElems
  <2>3. FirstIsOne(cmd) => FirstIsOne(cmd')
    <3>1. \A i \in DOMAIN cs : cs[i].op # "Close"
      BY <2>1 DEF Range
    <3>2. FirstIsOne(cmd) => FirstIsOne(cmd \o cs)
      BY <3>1, FirstAdded
    <3> QED BY <2>1, <3>2 DEF Send
  <2>4. \A m \in Range(cmd') : m.op = "Close" => closes' > 0
    BY <1>2, <2>1, <2>2 DEF Closes
  <2>5. ~Seen' /\ closes' > 0 /\ wpc' # "exited" => \E m \in Range(cmd') : m.op = "Close"
    BY <1>2, <2>2 DEF Closes, Seen, closeVars
  <2>6. ~Seen' => FirstIsOne(cmd')
    BY <1>2, <2>3 DEF Closes, Seen, closeVars
  <2> QED BY <1>2, <2>4, <2>5, <2>6 DEF Closes, closeVars
<1>3. CASE Packet \/ TimesOut \/ on_conn_established \/ PreHandshakeWorkerExit
             \/ on_conn_close
  <2>1. /\ UNCHANGED <<closeVars, closes, calls, cmd, last_handle_teardown>>
        /\ wpc # "exited"
    BY <1>3 DEF Packet, TimesOut, on_conn_established, PreHandshakeWorkerExit, on_conn_close,
                WorkerRest, frontVars
  <2> QED BY <1>1, <2>1
<1>4. CASE wait_for_data
  <2>1. /\ UNCHANGED <<closeVars, closes, calls, cmd>> /\ wpc # "exited"
        /\ (last_handle_teardown => last_handle_teardown')
    BY <1>4 DEF wait_for_data, WorkerRest, frontVars
  <2> QED BY <2>1 DEF Closes, closeVars, Seen
<1>5. CASE apply_inbox
  <2>1. /\ UNCHANGED <<explicit_close_attempted, local_close, closes, calls, last_handle_teardown>>
        /\ wpc = "apply"
    BY <1>5, ApplyCases DEF ApplyRest, frontVars
  <2>2. CASE ApplyNothing
    BY <2>1, <2>2 DEF ApplyNothing, Closes, Seen
  <2>3. CASE /\ cmd # <<>> /\ cmd' = Tail(cmd)
             /\ ApplyOpen(Head(cmd)) \/ ApplyFinish(Head(cmd)) \/ ApplyStop(Head(cmd))
    <3>1. Head(cmd).op # "Close" /\ pending_close' = pending_close
      BY <2>3 DEF ApplyOpen, ApplyFinish, ApplyStop
    <3>2. Range(cmd) = {Head(cmd)} \cup Range(cmd') /\ Range(cmd') \subseteq Range(cmd)
      BY <2>3, TailElems
    <3>3. FirstIsOne(cmd) => FirstIsOne(cmd')
      BY <2>3, <3>1, FirstTaken
    <3> QED BY <2>1, <3>1, <3>2, <3>3 DEF Closes, Seen
  <2>4. CASE cmd # <<>> /\ cmd' = Tail(cmd) /\ ApplyClose(Head(cmd))
    <3>1. Head(cmd) \in Range(cmd) /\ Range(cmd') \subseteq Range(cmd) /\ Head(cmd).op = "Close"
      BY <2>4, TailElems DEF ApplyClose
    <3>2. closes > 0
      BY <3>1 DEF Closes
    <3>3. Seen => Seen' /\ pending_close' = pending_close
      BY <2>1, <2>4 DEF Seen, ApplyClose, StageClose, None, Closes
    <3>4. ~Seen => Seen' /\ pending_close' = 1
      <4>1. ASSUME ~Seen PROVE Head(cmd).code = 1
        BY <2>4, <3>1, <4>1, FirstTaken DEF Closes
      <4> QED BY <2>1, <2>4, <4>1 DEF Seen, ApplyClose, StageClose, None, Closes
    <3> QED BY <2>1, <3>1, <3>2, <3>3, <3>4 DEF Closes
  <2> QED BY <1>5, <2>2, <2>3, <2>4, ApplyCases
<1>6. ASSUME NEW c \in Classes, stage_open(c)
      PROVE  Closes'
  <2>1. /\ UNCHANGED <<closeVars, closes, calls, cmd, last_handle_teardown>>
        /\ wpc # "exited"
    BY <1>6, StageCases DEF StageRest, Stage, Classes
  <2> QED BY <1>1, <2>1
<1>7. CASE deliver
  <2>1. UNCHANGED <<closeVars, closes, calls, last_handle_teardown>> /\ wpc = "reply"
    BY <1>7 DEF deliver
  <2>2. CASE UNCHANGED cmd
    BY <1>1, <2>1, <2>2
  <2>3. CASE QuietSend
    BY <1>2, <2>1, <2>3
  <2> QED BY <1>7, <2>2, <2>3, QuietSteps
<1>8. CASE finish_iteration
  <2>1. UNCHANGED <<closes, cmd, last_handle_teardown>> /\ wpc = "finish"
    BY <1>8 DEF finish_iteration, frontVars
  <2>2. CASE ~CloseDue
    <3>1. UNCHANGED <<closeVars, calls>>
      BY <1>8, <2>2 DEF finish_iteration, apply_close_barrier
    <3> QED BY <1>1, <2>1, <3>1
  <2>3. CASE CloseDue
    <3>1. /\ ~explicit_close_attempted /\ explicit_close_attempted' = TRUE
          /\ calls' = calls + 1 /\ pending_close' = None
          /\ local_close' \in {local_close, IF pending_close # None THEN pending_close ELSE H3_NO_ERROR}
      BY <1>8, <2>3 DEF finish_iteration, apply_close_barrier, CloseDue
    <3>2. local_close = None
      BY <3>1 DEF Closes
    <3>3. CASE pending_close # None
      <4>1. pending_close = 1 /\ closes > 0
        BY <3>3 DEF Closes
      <4> QED BY <2>1, <3>1, <3>2, <4>1 DEF Closes, Seen, None
    <3>4. CASE pending_close = None
      <4>1. last_handle_teardown /\ ~Seen
        BY <2>3, <3>1, <3>4 DEF CloseDue, Seen, None
      <4>2. closes = 0
        BY <2>1, <4>1 DEF Closes, Orphan
      <4> QED BY <2>1, <3>1, <3>2, <3>4, <4>1, <4>2 DEF Closes, Seen, None
    <3> QED BY <3>3, <3>4
  <2> QED BY <2>2, <2>3
<1>9. CASE drain_on_close
  <2>1. /\ UNCHANGED <<closeVars, closes, calls, last_handle_teardown>>
        /\ cmd' = <<>> /\ wpc' = "exited"
    BY <1>9 DEF drain_on_close
  <2>2. Range(<<>>) = {} /\ FirstIsOne(<<>>)
    BY DEF Range, FirstIsOne
  <2> QED BY <2>1, <2>2 DEF Closes, Seen, closeVars
<1>10. ASSUME NEW o \in Openers, close(o)
       PROVE  Closes'
  <2>1. /\ closes' = closes + 1 /\ cmd' = cmd \o <<CloseCmd(closes + 1)>> /\ wpc # "exited"
        /\ UNCHANGED <<closeVars, calls, last_handle_teardown, wpc>>
    BY <1>10 DEF close, Send, IngressOpen, workerVars
  <2>2. /\ CloseCmd(closes + 1) \in Cmds /\ CloseCmd(closes + 1).op = "Close"
        /\ CloseCmd(closes + 1).code = closes + 1
    BY CmdMakers
  <2>3. ~last_handle_teardown
    BY <1>10 DEF close, Free, Orphan, HasHandles
  <2>4. Range(cmd') = Range(cmd) \cup {CloseCmd(closes + 1)}
    <3>0. cmd \in Seq(Cmds)
      BY DEF TypeOK, TypeWorker
    <3>1. <<CloseCmd(closes + 1)>> \in Seq(Cmds) /\ Range(<<CloseCmd(closes + 1)>>) = {CloseCmd(closes + 1)}
      BY <2>2 DEF Range
    <3> DEFINE x == <<CloseCmd(closes + 1)>>
    <3>2. x \in Seq(Cmds) /\ cmd' = cmd \o x
      BY <2>1, <3>1
    <3> HIDE DEF x
    <3>3. Range(cmd') = Range(cmd) \cup Range(x)
      BY <3>0, <3>2, ConcatElems
    <3> QED BY <3>1, <3>3 DEF x
  <2>5. ~Seen => FirstIsOne(cmd')
    <3>1. ASSUME ~Seen, NEW i \in DOMAIN <<CloseCmd(closes + 1)>>
          PROVE  i = 1 /\ (CloseCmd(closes + 1).code = 1 \/ \E m \in Range(cmd) : m.op = "Close")
      BY <2>1, <2>2, <3>1 DEF Closes
    <3>2. <<CloseCmd(closes + 1)>> \in Seq(Cmds) /\ <<CloseCmd(closes + 1)>>[1] = CloseCmd(closes + 1)
      BY <2>2
    <3> QED BY <2>1, <3>1, <3>2, FirstAdded DEF Closes
  <2> QED BY <2>1, <2>2, <2>3, <2>4, <2>5 DEF Closes, Seen, closeVars
<1>11. ASSUME NEW o \in Openers, NEW c \in Classes, Submit(o, c)
       PROVE  Closes'
  <2>1. UNCHANGED <<closeVars, closes, calls, last_handle_teardown, wpc>>
    BY <1>11 DEF Submit, workerVars
  <2>2. CASE ~IngressOpen
    BY <1>11, <2>1, <2>2 DEF Submit, Closes, Seen, closeVars
  <2>3. CASE IngressOpen
    <3>1. cmd' = Append(cmd, OpenCmd(o, c))
      BY <1>11, <2>3 DEF Submit
    <3>2. OpenCmd(o, c) \in Cmds /\ OpenCmd(o, c).op = "Open"
      BY CmdMakers
    <3>3. Range(cmd') = Range(cmd) \cup {OpenCmd(o, c)}
      BY <3>1, <3>2, AppendElems
    <3>4. FirstIsOne(cmd) => FirstIsOne(cmd')
      <4>1. cmd' = cmd \o <<OpenCmd(o, c)>> /\ <<OpenCmd(o, c)>> \in Seq(Cmds)
        BY <3>1, <3>2
      <4>2. \A i \in DOMAIN <<OpenCmd(o, c)>> : <<OpenCmd(o, c)>>[i].op # "Close"
        BY <3>2
      <4> QED BY <4>1, <4>2, FirstAdded
    <3> QED BY <2>1, <3>2, <3>3, <3>4 DEF Closes, Seen, closeVars
  <2> QED BY <2>2, <2>3
<1>12. CASE (\E o \in Openers : DropSlots(o)) \/ (\E id \in held : StreamDrop(id))
  <2>1. UNCHANGED <<closeVars, closes, calls, last_handle_teardown, wpc>>
    BY <1>12 DEF DropSlots, StreamDrop, workerVars
  <2>2. CASE UNCHANGED cmd
    BY <2>1, <2>2 DEF Closes, Seen, closeVars
  <2> QED BY <1>2, <1>12, <2>1, <2>2, QuietSteps
<1>13. CASE into_established_connection \/ AbandonSetup
              \/ \E o \in Openers : Clone(o) \/ DropSender(o)
                   \/ \E c \in Classes : poll_open(o, c) \/ poll_reply(o, c)
  <2>1. UNCHANGED <<closeVars, closes, calls, cmd, last_handle_teardown, wpc>>
    BY <1>13 DEF into_established_connection, AbandonSetup, Clone, DropSender, poll_open,
                 poll_reply, workerVars
  <2> QED BY <2>1 DEF Closes, Seen, closeVars
<1> QED BY <1>3, <1>4, <1>5, <1>6, <1>7, <1>8, <1>9, <1>10, <1>11, <1>12, <1>13 DEF Next, Worker

-----------------------------------------------------------------------------
(* Requests.                                                               *)

\* A sequence without duplicates, when something is added or taken.
LEMMA DistinctAdded ==
  ASSUME NEW T, NEW S, NEW s \in Seq(T), NEW t \in Seq(T), Distinct(s, S),
         \A i \in DOMAIN t : t[i] \notin S
  PROVE  Distinct(s \o t, S)
<1> SUFFICES ASSUME NEW i \in DOMAIN (s \o t), NEW j \in DOMAIN (s \o t),
                    (s \o t)[i] \in S, (s \o t)[j] = (s \o t)[i]
             PROVE  i = j
  BY DEF Distinct
<1>1. ASSUME NEW k \in DOMAIN (s \o t), (s \o t)[k] \in S
      PROVE  k \in DOMAIN s /\ (s \o t)[k] = s[k]
  <2>1. CASE k <= Len(s)
    BY <2>1
  <2>2. CASE k > Len(s)
    <3>1. k - Len(s) \in DOMAIN t /\ (s \o t)[k] = t[k - Len(s)]
      BY <2>2
    <3> QED BY <1>1, <3>1
  <2> QED BY <2>1, <2>2
<1> QED BY <1>1 DEF Distinct

\* The same for one element that is new.
LEMMA DistinctAppend ==
  ASSUME NEW T, NEW S, NEW s \in Seq(T), NEW x \in T, Distinct(s, S), x \notin Range(s)
  PROVE  Distinct(Append(s, x), S)
<1> SUFFICES ASSUME NEW i \in DOMAIN Append(s, x), NEW j \in DOMAIN Append(s, x),
                    Append(s, x)[i] \in S, Append(s, x)[j] = Append(s, x)[i]
             PROVE  i = j
  BY DEF Distinct
<1>1. ASSUME NEW k \in DOMAIN Append(s, x)
      PROVE  \/ k \in DOMAIN s /\ Append(s, x)[k] = s[k]
             \/ k = Len(s) + 1 /\ Append(s, x)[k] = x
  OBVIOUS
<1>2. \A k \in DOMAIN s : s[k] # x
  BY DEF Range
<1> QED BY <1>1, <1>2 DEF Distinct

\* The same when the first element is taken.
LEMMA DistinctTail ==
  ASSUME NEW T, NEW S, NEW s \in Seq(T), s # <<>>, Distinct(s, S)
  PROVE  /\ Distinct(Tail(s), S)
         /\ Head(s) \in S => Head(s) \notin Range(Tail(s))
<1>1. /\ Len(s) \in Nat \ {0} /\ DOMAIN s = 1..Len(s) /\ Head(s) = s[1] /\ 1 \in DOMAIN s
      /\ DOMAIN Tail(s) = 1..(Len(s) - 1)
  OBVIOUS
<1>2. \A k \in DOMAIN Tail(s) : k + 1 \in DOMAIN s /\ Tail(s)[k] = s[k + 1] /\ k + 1 # 1
  OBVIOUS
<1>3. Distinct(Tail(s), S)
  <2>1. SUFFICES ASSUME NEW i \in DOMAIN Tail(s), NEW j \in DOMAIN Tail(s),
                        Tail(s)[i] \in S, Tail(s)[j] = Tail(s)[i]
                 PROVE  i = j
    BY DEF Distinct
  <2>2. i + 1 = j + 1
    BY <1>2, <2>1 DEF Distinct
  <2> QED BY <1>1, <2>2
<1>4. Head(s) \in S => Head(s) \notin Range(Tail(s))
  BY <1>1, <1>2 DEF Distinct, Range
<1> QED BY <1>3, <1>4

\* The requests in the channel.
LEMMA OpenedMembers ==
  ASSUME NEW s \in Seq(Cmds)
  PROVE  /\ \A r \in Reqs : r \in Opened(s) <=> [op |-> "Open", req |-> r] \in Range(s)
         /\ Opened(s) \subseteq Reqs
         /\ Range(s) \subseteq Cmds
<1>1. Range(s) \subseteq Cmds
  BY DEF Range
<1>2. ASSUME NEW r \in Reqs, r \in Opened(s)
      PROVE  [op |-> "Open", req |-> r] \in Range(s)
  <2>1. PICK m \in Range(s) : m.op = "Open" /\ m.req = r
    BY <1>2 DEF Opened
  <2>2. m = [op |-> "Open", req |-> r]
    BY <1>1, <2>1, CmdShape
  <2> QED BY <2>1, <2>2
<1>3. ASSUME NEW r \in Reqs, [op |-> "Open", req |-> r] \in Range(s)
      PROVE  r \in Opened(s)
  BY <1>3 DEF Opened
<1> QED BY <1>1, <1>2, <1>3 DEF Opened

\* A command without a reply opens nothing.
LEMMA QuietRequests ==
  ASSUME TypeOK, Once, QuietSend
  PROVE  Opened(cmd') = Opened(cmd) /\ Distinct(cmd', OpenCmds)
<1>1. PICK cs \in Seq(Cmds) : Send(cs) /\ \A m \in Range(cs) : m.op \in {"Finish", "StopSending"}
  BY DEF QuietSend
<1>2. cmd \in Seq(Cmds) /\ Distinct(cmd, OpenCmds)
  BY DEF TypeOK, TypeWorker, Once
<1>3. Range(cmd) \subseteq Range(cmd') /\ Range(cmd') \subseteq Range(cmd) \cup Range(cs)
  BY <1>1, SendElems
<1>4. Opened(cmd') = Opened(cmd)
  BY <1>1, <1>3 DEF Opened
<1>5. \A i \in DOMAIN cs : cs[i] \notin OpenCmds
  BY <1>1 DEF Range, OpenCmds
<1>6. Distinct(cmd \o cs, OpenCmds)
  BY <1>2, <1>5, DistinctAdded
<1> QED BY <1>1, <1>2, <1>4, <1>6 DEF Send

\* apply_inbox moves a request from the channel to the queue of its class.
LEMMA ApplyRequests ==
  ASSUME TypeOK, Once, apply_inbox
  PROVE  Once' /\ Outstanding' \subseteq Outstanding
<1>1. /\ cur = <<>> /\ cur' = <<>> /\ wpc' # "reply"
  BY ApplyCases DEF ApplyRest, Once
<1>2. cmd \in Seq(Cmds) /\ open \in [Classes -> Seq(Reqs)] /\ Distinct(cmd, OpenCmds)
  BY DEF TypeOK, TypeWorker, Once
<1>3. CASE ApplyNothing
  BY <1>1, <1>3 DEF ApplyNothing, Once, Outstanding
<1>4. ASSUME cmd # <<>>, cmd' = Tail(cmd)
      PROVE  /\ cmd' \in Seq(Cmds) /\ Distinct(cmd', OpenCmds)
             /\ Head(cmd) \in Cmds /\ Range(cmd) = {Head(cmd)} \cup Range(cmd')
             /\ Head(cmd) \in OpenCmds => Head(cmd) \notin Range(cmd')
  BY <1>2, <1>4, TailElems, DistinctTail
<1>5. CASE /\ cmd # <<>> /\ cmd' = Tail(cmd)
           /\ ApplyClose(Head(cmd)) \/ ApplyFinish(Head(cmd)) \/ ApplyStop(Head(cmd))
  <2>1. open' = open /\ Head(cmd).op # "Open"
    BY <1>5 DEF ApplyClose, ApplyFinish, ApplyStop
  <2>2. Opened(cmd') = Opened(cmd)
    BY <1>4, <1>5, <2>1 DEF Opened
  <2> QED BY <1>1, <1>4, <1>5, <2>1, <2>2 DEF Once, Outstanding
<1>6. CASE cmd # <<>> /\ cmd' = Tail(cmd) /\ ApplyOpen(Head(cmd))
  <2> DEFINE r == Head(cmd).req
  <2>1. r \in Reqs /\ r[2] \in Classes /\ Head(cmd) = [op |-> "Open", req |-> r]
    BY <1>4, <1>6, CmdShape DEF ApplyOpen, Reqs
  <2>2. Head(cmd) \in OpenCmds
    BY <2>1 DEF OpenCmds
  <2>3. open' = [open EXCEPT ![r[2]] = Append(open[r[2]], r)]
    BY <1>6 DEF ApplyOpen
  <2>4. r \in Opened(cmd) /\ r \notin Opened(cmd')
    BY <1>2, <1>4, <1>6, <2>1, <2>2, OpenedMembers
  <2>5. Opened(cmd') \subseteq Opened(cmd) \ {r} /\ Opened(cmd) \subseteq Reqs
    BY <1>4, <1>6, <2>4 DEF Opened
  <2> HIDE DEF r
  <2>6. \A d \in Classes : r \notin Range(open[d])
    BY <2>4 DEF Once
  <2>7. /\ Range(open'[r[2]]) = Range(open[r[2]]) \cup {r}
        /\ Distinct(open'[r[2]], Reqs)
    <3>1. /\ Range(Append(open[r[2]], r)) = Range(open[r[2]]) \cup {r}
      BY <1>2, <2>1, AppendElems
    <3>2. Distinct(Append(open[r[2]], r), Reqs)
      BY <1>2, <2>1, <2>6, DistinctAppend DEF Once
    <3> QED BY <1>2, <2>1, <2>3, <3>1, <3>2
  <2>8. \A d \in Classes : d # r[2] => open'[d] = open[d]
    BY <1>2, <2>1, <2>3
  <2>9. \A d \in Classes : Range(open'[d]) \subseteq Range(open[d]) \cup {r}
    BY <2>7, <2>8
  <2>10. \A d \in Classes : Distinct(open'[d], Reqs)
    BY <2>7, <2>8 DEF Once
  <2>11. \A d \in Classes : \A q \in Range(open'[d]) : q[2] = d /\ q \notin Opened(cmd')
    BY <2>4, <2>5, <2>7, <2>8 DEF Once
  <2>12. Once'
    BY <1>1, <1>4, <1>6, <2>10, <2>11 DEF Once
  <2>13. Outstanding' \subseteq Outstanding
    <3> "bidi" \in Classes /\ "uni" \in Classes
      BY DEF Classes
    <3> QED BY <1>1, <2>4, <2>5, <2>9 DEF Outstanding
  <2> QED BY <2>12, <2>13
<1> QED BY <1>3, <1>5, <1>6, ApplyCases

\* stage_open takes the first request of the class out of its queue.
LEMMA StageRequests ==
  ASSUME TypeOK, Once, NEW c \in Classes, stage_open(c)
  PROVE  /\ Once' /\ Outstanding' \subseteq Outstanding
         /\ StageSkips(c) \/ StageDeclines(c) => Head(open[c]) \notin Outstanding'
<1>1. /\ wpc = Stage[c] /\ cmd' = cmd
  BY StageCases DEF StageRest
<1>2. wpc # "reply" /\ cur = <<>>
  BY <1>1 DEF Once, Stage, Classes
<1>3. open \in [Classes -> Seq(Reqs)]
  BY DEF TypeOK, TypeWorker
<1>4. CASE StageStops(c)
  <2>1. UNCHANGED <<open, cur>> /\ wpc' # "reply"
    BY <1>4 DEF StageStops, openVars
  <2>2. Once' /\ Outstanding' = Outstanding
    BY <1>1, <1>2, <2>1 DEF Once, Outstanding
  <2>3. ~StageSkips(c) /\ ~StageDeclines(c)
    <3>1. ASSUME StageTakes(c) PROVE FALSE
      <4>1. open[c] \in Seq(Reqs) /\ open[c] # <<>> /\ open'[c] = Tail(open[c]) /\ open'[c] = open[c]
        BY <1>3, <2>1, <3>1 DEF StageTakes
      <4>2. Len(Tail(open[c])) = Len(open[c]) - 1 /\ Len(open[c]) \in Nat
        BY <4>1
      <4>3. Len(Tail(open[c])) = Len(open[c])
        BY <4>1
      <4> QED BY <4>2, <4>3
    <3> QED BY <3>1 DEF StageSkips, StageDeclines
  <2> QED BY <2>2, <2>3
<1>5. ASSUME StageTakes(c)
      PROVE  LET r == Head(open[c]) IN
             /\ r \in Reqs /\ r[2] = c /\ r \notin Opened(cmd')
             /\ \A d \in Classes : /\ Range(open'[d]) \subseteq Range(open[d]) /\ r \notin Range(open'[d])
                                   /\ Distinct(open'[d], Reqs)
             /\ r \in Range(open[c])
  <2> DEFINE r == Head(open[c])
  <2>1. open[c] \in Seq(Reqs) /\ open[c] # <<>> /\ Distinct(open[c], Reqs)
    BY <1>3, <1>5 DEF StageTakes, Once
  <2>2. r \in Reqs /\ r[2] = c /\ r \in Range(open[c]) /\ Range(Tail(open[c])) \subseteq Range(open[c])
    BY <2>1, TailElems, ReqTypes DEF Once
  <2>3. r \notin Range(Tail(open[c])) /\ Distinct(Tail(open[c]), Reqs)
    BY <2>1, <2>2, DistinctTail
  <2>4. open'[c] = Tail(open[c]) /\ \A d \in Classes : d # c => open'[d] = open[d]
    BY <1>3, <1>5 DEF StageTakes
  <2> HIDE DEF r
  <2>5. \A d \in Classes : d # c => r \notin Range(open[d])
    BY <2>2 DEF Once
  <2>6. r \notin Opened(cmd')
    BY <1>1, <2>2 DEF Once
  <2>7. \A d \in Classes : Distinct(open[d], Reqs)
    BY DEF Once
  <2>8. \A d \in Classes : /\ Range(open'[d]) \subseteq Range(open[d]) /\ r \notin Range(open'[d])
                           /\ Distinct(open'[d], Reqs)
    BY <2>2, <2>3, <2>4, <2>5, <2>7
  <2> QED BY <2>2, <2>6, <2>8 DEF r
<1>6. "bidi" \in Classes /\ "uni" \in Classes /\ (c = "bidi" \/ c = "uni")
  BY DEF Classes
<1> DEFINE r == Head(open[c])
<1> HIDE DEF r
<1>7. CASE StageSkips(c) \/ StageDeclines(c)
  <2>1. StageTakes(c) /\ cur' = <<>> /\ wpc' # "reply"
    BY <1>2, <1>7 DEF StageSkips, StageDeclines
  <2>2. Once'
    BY <1>1, <1>5, <2>1 DEF Once
  <2>3. Outstanding' \subseteq Outstanding /\ r \notin Outstanding'
    BY <1>1, <1>2, <1>5, <1>6, <2>1 DEF Outstanding, r
  <2> QED BY <2>2, <2>3 DEF r
<1>8. CASE StageOpens(c)
  <2>1. StageTakes(c) /\ cur' = <<r, next_id[c]>> /\ wpc' = "reply"
    BY <1>8 DEF StageOpens, r
  <2>2. cur' # <<>> /\ cur'[1] = r
    BY <2>1
  <2>3. cur'[1] \notin Opened(cmd') /\ cur'[1] \notin Range(open'[cur'[1][2]])
    BY <1>5, <2>1, <2>2 DEF r
  <2>4. Once'
    BY <1>1, <1>5, <2>1, <2>2, <2>3 DEF Once
  <2>5. Outstanding' \subseteq Outstanding
    BY <1>1, <1>2, <1>5, <1>6, <2>1, <2>2 DEF Outstanding, r
  <2>6. ~StageSkips(c) /\ ~StageDeclines(c)
    BY <1>2, <2>1 DEF StageSkips, StageDeclines
  <2> QED BY <2>4, <2>5, <2>6
<1> QED BY <1>4, <1>7, <1>8, StageCases

\* deliver answers the request it has taken.
LEMMA DeliverRequests ==
  ASSUME TypeOK, Front, Once, deliver
  PROVE  Once' /\ Outstanding' \subseteq Outstanding /\ cur[1] \notin Outstanding'
<1>1. /\ wpc = "reply" /\ cur # <<>> /\ cur' = <<>> /\ open' = open
      /\ cur[1] \in Reqs /\ cur[1][2] \in Classes
  BY ReqTypes DEF deliver, Once
<1>2. wpc' # "reply"
  <2>1. wpc' = Stage[cur[1][2]]
    BY DEF deliver
  <2> QED BY <1>1, <2>1 DEF Stage, Classes
<1>3. Opened(cmd') = Opened(cmd) /\ Distinct(cmd', OpenCmds)
  <2>1. UNCHANGED cmd \/ QuietSend
    BY QuietSteps
  <2> QED BY <2>1, QuietRequests DEF Once
<1>4. Once'
  BY <1>1, <1>2, <1>3 DEF Once
<1>5. \A d \in Classes : cur[1] \notin Range(open[d])
  BY <1>1 DEF Once
<1>6. cur[1] \notin Opened(cmd)
  BY <1>1 DEF Once
<1> QED BY <1>1, <1>3, <1>4, <1>5, <1>6 DEF Outstanding, Classes

\* Submit puts a request nobody has into the channel.
LEMMA SubmitRequests ==
  ASSUME TypeOK, Front, Once, NEW o \in Openers, NEW c \in Classes, Submit(o, c)
  PROVE  /\ Once'
         /\ IngressOpen => Outstanding' \subseteq Outstanding \cup {<<o, c>>}
         /\ ~IngressOpen => Outstanding' = Outstanding
<1>1. UNCHANGED <<open, cur, wpc>>
  BY DEF Submit, workerVars, openVars
<1>2. <<o, c>> \notin Outstanding
  BY DEF Submit, Front, GoodSlot
<1>3. CASE ~IngressOpen
  <2>1. cmd' = cmd
    BY <1>3 DEF Submit
  <2> QED BY <1>1, <1>3, <2>1 DEF Once, Outstanding
<1>4. CASE IngressOpen
  <2>1. cmd' = Append(cmd, OpenCmd(o, c)) /\ cmd \in Seq(Cmds)
    BY <1>4 DEF Submit, TypeOK, TypeWorker
  <2>2. OpenCmd(o, c) \in Cmds /\ OpenCmd(o, c) = [op |-> "Open", req |-> <<o, c>>] /\ <<o, c>> \in Reqs
    BY CmdMakers DEF OpenCmd, Reqs
  <2>3. OpenCmd(o, c) \notin Range(cmd)
    BY <1>2, <2>1, <2>2, OpenedMembers DEF Outstanding
  <2>4. Distinct(cmd', OpenCmds)
    BY <2>1, <2>2, <2>3, DistinctAppend DEF Once
  <2>5. Range(cmd') = Range(cmd) \cup {OpenCmd(o, c)}
    BY <2>1, <2>2, AppendElems
  <2>6. Opened(cmd') \subseteq Opened(cmd) \cup {<<o, c>>}
    BY <2>2, <2>5 DEF Opened
  <2>7. \A d \in Classes : <<o, c>> \notin Range(open[d])
    BY <1>2 DEF Outstanding, Classes
  <2>8. cur # <<>> => cur[1] # <<o, c>>
    BY <1>2 DEF Outstanding
  <2>9. \A d \in Classes : \A r \in Range(open[d]) : r[2] = d /\ r \notin Opened(cmd')
    BY <2>6, <2>7 DEF Once
  <2>10. cur # <<>> => cur[1] \notin Opened(cmd') /\ cur[1] \notin Range(open[cur[1][2]])
    BY <2>6, <2>8 DEF Once
  <2>11. (\A d \in Classes : Distinct(open[d], Reqs)) /\ (wpc = "reply" <=> cur # <<>>)
    BY DEF Once
  <2>12. Once'
    BY <1>1, <2>4, <2>9, <2>10, <2>11 DEF Once
  <2> QED BY <1>1, <1>4, <2>6, <2>12 DEF Outstanding
<1> QED BY <1>3, <1>4

\* The other steps move no request; on_conn_close's drain answers them all.
LEMMA WorkerRequests ==
  ASSUME TypeOK, Once,
         Packet \/ TimesOut \/ on_conn_established \/ PreHandshakeWorkerExit \/ wait_for_data
           \/ finish_iteration \/ on_conn_close \/ drain_on_close
  PROVE  /\ Once' /\ Outstanding' \subseteq Outstanding
         /\ drain_on_close => Outstanding' = {}
<1>2. CASE Packet \/ TimesOut \/ on_conn_established \/ PreHandshakeWorkerExit \/ wait_for_data
             \/ finish_iteration \/ on_conn_close
  <2>1. UNCHANGED <<open, cur, cmd>> /\ wpc # "reply"
    BY <1>2 DEF Packet, TimesOut, on_conn_established, PreHandshakeWorkerExit, wait_for_data,
                finish_iteration, on_conn_close, WorkerRest, openVars
  <2>2. wpc' # "reply" /\ wpc # "drain"
    BY <1>2 DEF Packet, TimesOut, on_conn_established, PreHandshakeWorkerExit, wait_for_data,
                finish_iteration, apply_close_barrier, on_conn_close
  <2>3. ~drain_on_close
    BY <2>2 DEF drain_on_close
  <2> QED BY <2>1, <2>2, <2>3 DEF Once, Outstanding
<1>3. CASE drain_on_close
  <2>1. /\ cmd' = <<>> /\ open' = [c \in Classes |-> <<>>] /\ cur' = <<>> /\ wpc' # "reply"
    BY <1>3 DEF drain_on_close, Once
  <2>2. Range(<<>>) = {} /\ Opened(<<>>) = {} /\ Distinct(<<>>, OpenCmds) /\ Distinct(<<>>, Reqs)
    BY DEF Range, Opened, Distinct
  <2>3. \A c \in Classes : open'[c] = <<>>
    BY <2>1
  <2>4. Once'
    BY <2>1, <2>2, <2>3 DEF Once
  <2>5. Outstanding' = {}
    BY <2>1, <2>2, <2>3 DEF Outstanding, Classes
  <2> QED BY <2>4, <2>5
<1> QED BY <1>2, <1>3

\* Apart from Submit, the front end moves no request.
LEMMA FrontendRequests ==
  ASSUME TypeOK, Front, Once,
         \/ into_established_connection \/ AbandonSetup
         \/ \E o \in Openers : \/ Clone(o) \/ DropSender(o) \/ DropSlots(o) \/ close(o)
                               \/ \E c \in Classes : poll_open(o, c) \/ poll_reply(o, c)
         \/ \E id \in held : StreamDrop(id)
  PROVE  Once' /\ Outstanding' = Outstanding
<1>1. UNCHANGED <<open, cur, wpc>>
  BY FrontendFrame DEF workerVars, openVars, Frontend
<1>2. Opened(cmd') = Opened(cmd) /\ Distinct(cmd', OpenCmds)
  <2>1. CASE cmd' = cmd
    BY <2>1 DEF Once
  <2>2. ASSUME NEW o \in Openers, close(o)
        PROVE  Opened(cmd') = Opened(cmd) /\ Distinct(cmd', OpenCmds)
    <3>1. cmd \in Seq(Cmds) /\ closes \in Nat
      BY DEF TypeOK, TypeWorker, TypeFront
    <3>2. CloseCmd(closes + 1) \in Cmds /\ CloseCmd(closes + 1).op = "Close"
      BY <3>1, CmdMakers
    <3> DEFINE cs == <<CloseCmd(closes + 1)>>
    <3>3. cs \in Seq(Cmds) /\ DOMAIN cs = {1} /\ cs[1] = CloseCmd(closes + 1)
      BY <3>2
    <3>4. Send(cs)
      BY <2>2 DEF close
    <3> HIDE DEF cs
    <3>5. \A i \in DOMAIN cs : cs[i].op = "Close" /\ cs[i] \notin OpenCmds
      BY <3>2, <3>3 DEF OpenCmds
    <3>6. Range(cmd) \subseteq Range(cmd') /\ Range(cmd') \subseteq Range(cmd) \cup Range(cs)
      BY <3>3, <3>4, SendElems
    <3>7. Opened(cmd') = Opened(cmd)
      BY <3>5, <3>6 DEF Opened, Range
    <3>8. Distinct(cmd \o cs, OpenCmds)
      BY <3>1, <3>3, <3>5, DistinctAdded DEF Once
    <3> QED BY <3>4, <3>7, <3>8 DEF Send, Once
  <2>3. CASE (\E o \in Openers : DropSlots(o)) \/ (\E id \in held : StreamDrop(id))
    BY <2>1, <2>3, QuietSteps, QuietRequests
  <2>4. CASE into_established_connection \/ AbandonSetup
               \/ \E o \in Openers : Clone(o) \/ DropSender(o)
                    \/ \E c \in Classes : poll_open(o, c) \/ poll_reply(o, c)
    BY <2>1, <2>4 DEF into_established_connection, AbandonSetup, Clone, DropSender,
                      poll_open, poll_reply
  <2> QED BY <2>2, <2>3, <2>4
<1> QED BY <1>1, <1>2 DEF Once, Outstanding

\* A request stays in one place.
LEMMA StepOnce ==
  ASSUME TypeOK, Front, Once, Next
  PROVE  Once'
BY ApplyRequests, StageRequests, DeliverRequests, SubmitRequests, WorkerRequests,
   FrontendRequests DEF Next, Worker

\* What the drain answers is all that is outstanding.
LEMMA DrainAnswers ==
  ASSUME TypeOK, Once, drain_on_close
  PROVE  Answer(Outstanding, conn_terminal)
<1> DEFINE inCmd == {m.req : m \in {n \in Range(cmd) : n.op = "Open"}}
<1>1. Answer(inCmd \cup Range(open["bidi"]) \cup Range(open["uni"]), conn_terminal)
  BY DEF drain_on_close
<1>2. cur = <<>>
  BY DEF drain_on_close, Once
<1>3. Range(cmd) \subseteq Cmds
  BY OpenedMembers DEF TypeOK, TypeWorker
<1>4. inCmd = Opened(cmd)
  BY <1>3, CmdShape DEF Opened
<1> HIDE DEF inCmd
<1>5. Outstanding = inCmd \cup Range(open["bidi"]) \cup Range(open["uni"])
  BY <1>2, <1>4 DEF Outstanding
<1> QED BY <1>1, <1>5

\* The slots and the openers agree.
LEMMA StepFront ==
  ASSUME TypeOK, Front, Once, Next
  PROVE  Front'
<1>1. /\ (\E o \in Openers : opener'[o] # "none") => est' = "ok"
      /\ setup' = "waiting" => \A o \in Openers : opener'[o] = "none"
      /\ wpc' = "handshake" => est' = "none"
      /\ wpc' \notin {"handshake", "exited"} => est' = "ok"
  <2>1. CASE Packet \/ TimesOut \/ wait_for_data \/ deliver \/ finish_iteration
               \/ on_conn_close \/ drain_on_close
    <3>1. UNCHANGED <<setup, opener, est>> /\ wpc \notin {"handshake", "exited"}
      BY <2>1 DEF Packet, TimesOut, wait_for_data, deliver, finish_iteration, on_conn_close,
                  drain_on_close, WorkerRest, frontVars
    <3>2. CASE deliver
      <4>1. wpc' = Stage[cur[1][2]] /\ cur[1][2] \in Classes
        BY <3>2, ReqTypes DEF deliver
      <4>2. wpc' # "handshake"
        BY <4>1 DEF Stage, Classes
      <4> QED BY <3>1, <4>2 DEF Front
    <3>3. CASE ~deliver
      <4>1. wpc' # "handshake"
        BY <2>1, <3>3 DEF Packet, TimesOut, wait_for_data, finish_iteration, apply_close_barrier,
                          on_conn_close, drain_on_close
      <4> QED BY <3>1, <4>1 DEF Front
    <3> QED BY <3>2, <3>3
  <2>2. CASE apply_inbox
    <3>1. UNCHANGED <<setup, opener, est>> /\ wpc \notin {"handshake", "exited"} /\ wpc' # "handshake"
      BY <2>2, ApplyCases DEF ApplyRest, frontVars
    <3> QED BY <3>1 DEF Front
  <2>3. CASE \E c \in Classes : stage_open(c)
    <3>1. UNCHANGED <<setup, opener, est>> /\ wpc \notin {"handshake", "exited"}
      BY <2>3, StageCases DEF StageRest, Stage, Classes
    <3>2. wpc' # "handshake"
      BY <2>3, <3>1, StageCases DEF StageStops, StageSkips, StageDeclines, StageOpens
    <3> QED BY <3>1, <3>2 DEF Front
  <2>4. CASE on_conn_established \/ PreHandshakeWorkerExit
    BY <2>4 DEF on_conn_established, PreHandshakeWorkerExit, frontVars, Front
  <2>5. CASE Frontend
    <3>1. UNCHANGED <<est, wpc>>
      BY <2>5, FrontendFrame DEF workerVars
    <3>2. CASE UNCHANGED <<setup, opener>>
      BY <3>1, <3>2 DEF Front
    <3>3. CASE into_established_connection \/ AbandonSetup
      BY <3>1, <3>3, ConnWorkerAssumption
         DEF into_established_connection, AbandonSetup, Front, TypeOK, TypeFront
    <3>4. ASSUME NEW o \in Openers, Clone(o) \/ DropSender(o) \/ DropSlots(o)
          PROVE  /\ (\E p \in Openers : opener'[p] # "none") => est' = "ok"
                 /\ setup' = "waiting" => \A p \in Openers : opener'[p] = "none"
      <4>1. setup' = setup /\ \E p \in Openers : opener[p] # "none"
        BY <3>4 DEF Clone, DropSender, DropSlots, Free
      <4> QED BY <3>1, <4>1 DEF Front
    <3>5. ASSUME NEW o \in Openers, close(o) \/ \E c \in Classes : poll_open(o, c) \/ Submit(o, c)
                                                  \/ poll_reply(o, c)
          PROVE  UNCHANGED <<setup, opener>>
      BY <3>5 DEF close, poll_open, Submit, poll_reply
    <3>6. ASSUME NEW id \in held, StreamDrop(id)
          PROVE  UNCHANGED <<setup, opener>>
      BY <3>6 DEF StreamDrop
    <3> QED BY <2>5, <3>1, <3>2, <3>3, <3>4, <3>5, <3>6 DEF Frontend, Front
  <2> QED BY <2>1, <2>2, <2>3, <2>4, <2>5 DEF Next, Worker, Frontend
<1>2. SUFFICES ASSUME NEW p \in Openers, NEW d \in Classes
               PROVE  GoodSlot(slot'[p][d], opener'[p], <<p, d>> \in Outstanding')
  BY <1>1 DEF Front
<1>3. /\ GoodSlot(slot[p][d], opener[p], <<p, d>> \in Outstanding)
      /\ slot[p][d] \in Slots
  BY DEF Front, TypeOK, TypeFront
<1>4. ASSUME slot'[p][d] = slot[p][d], opener'[p] = opener[p],
             <<p, d>> \in Outstanding' => <<p, d>> \in Outstanding
      PROVE  GoodSlot(slot'[p][d], opener'[p], <<p, d>> \in Outstanding')
  BY <1>3, <1>4 DEF GoodSlot
<1>5. ASSUME NEW reqs, NEW t, Answer(reqs, t), reqs \subseteq Outstanding, opener' = opener,
             Outstanding' \subseteq Outstanding, reqs \cap Outstanding' = {}
      PROVE  GoodSlot(slot'[p][d], opener'[p], <<p, d>> \in Outstanding')
  <2>1. /\ <<p, d>> \in reqs /\ opener[p] # "gone" => slot'[p][d] = Slot("err", None, to_h3(t))
        /\ ~(<<p, d>> \in reqs /\ opener[p] # "gone") => slot'[p][d] = slot[p][d]
    BY <1>5, AnswerSlot, Zenon
  <2>2. CASE <<p, d>> \in reqs /\ opener[p] # "gone"
    <3>1. slot'[p][d].st = "err" /\ slot'[p][d].id = None
      BY <2>1, <2>2 DEF Slot
    <3>2. opener[p] \in {"live", "tx_gone"} /\ <<p, d>> \notin Outstanding'
      BY <1>3, <1>5, <2>2 DEF GoodSlot
    <3> QED BY <1>5, <3>1, <3>2 DEF GoodSlot
  <2>3. CASE ~(<<p, d>> \in reqs /\ opener[p] # "gone")
    <3>1. slot'[p][d] = slot[p][d]
      BY <2>1, <2>3
    <3> QED BY <1>4, <1>5, <3>1
  <2> QED BY <2>2, <2>3
<1>6. ASSUME NEW c \in Classes, stage_open(c)
      PROVE  GoodSlot(slot'[p][d], opener'[p], <<p, d>> \in Outstanding')
  <2>1. Outstanding' \subseteq Outstanding /\ opener' = opener
    BY <1>6, StageRequests, StageCases DEF StageRest
  <2>2. CASE StageDeclines(c)
    <3>1. Answer({Head(open[c])}, published_terminal) /\ Head(open[c]) \notin Outstanding'
      BY <1>6, <2>2, StageRequests DEF StageDeclines
    <3>2. Head(open[c]) \in Range(open[c])
      BY <2>2, TailElems DEF StageDeclines, StageTakes, TypeOK, TypeWorker
    <3>3. Head(open[c]) \in Outstanding
      BY <3>2 DEF Outstanding, Classes
    <3> QED BY <1>5, <2>1, <3>1, <3>3
  <2>3. CASE StageStops(c) \/ StageSkips(c) \/ StageOpens(c)
    <3>1. slot' = slot
      BY <2>3 DEF StageStops, StageSkips, StageOpens
    <3> QED BY <1>4, <2>1, <3>1
  <2> QED BY <1>6, <2>2, <2>3, StageCases
<1>7. CASE deliver
  <2>1. Outstanding' \subseteq Outstanding /\ cur[1] \notin Outstanding' /\ opener' = opener
    BY <1>7, DeliverRequests DEF deliver
  <2>2. CASE UNCHANGED slot
    BY <1>4, <2>1, <2>2
  <2>3. CASE ~Cancelled(cur[1]) /\ slot' = [slot EXCEPT ![cur[1][1]][cur[1][2]] = Slot("ok", cur[2], "none")]
    <3>1. /\ cur[1][1] \in Openers /\ cur[1][2] \in Classes /\ cur[2] \in Nat /\ cur # <<>>
          /\ cur[1] = <<cur[1][1], cur[1][2]>>
      BY <1>7, ReqTypes DEF deliver, Once
    <3> DEFINE x == Slot("ok", cur[2], "none")
    <3>2. x \in Slots
      BY <3>1, SlotKinds
    <3>3. x.st = "ok" /\ x.id = cur[2]
      BY DEF Slot
    <3>6. slot' = [slot EXCEPT ![cur[1][1]][cur[1][2]] = x]
      BY <2>3
    <3> HIDE DEF x
    <3>7. slot'[p][d] = IF p = cur[1][1] /\ d = cur[1][2] THEN x ELSE slot[p][d]
      BY <3>1, <3>2, <3>6, SlotChange DEF TypeOK, TypeFront
    <3>4. CASE p = cur[1][1] /\ d = cur[1][2]
      <4>1. <<p, d>> = cur[1]
        BY <3>1, <3>4
      <4>2. <<p, d>> \in Outstanding /\ opener[p] # "gone"
        BY <2>3, <3>1, <3>4, <4>1 DEF Outstanding, Cancelled
      <4>3. opener[p] \in {"live", "tx_gone"}
        BY <1>3, <4>2 DEF GoodSlot
      <4>4. slot'[p][d].st = "ok" /\ slot'[p][d].id # None
        BY <3>1, <3>3, <3>4, <3>7 DEF None
      <4> QED BY <2>1, <4>1, <4>3, <4>4 DEF GoodSlot
    <3>5. CASE ~(p = cur[1][1] /\ d = cur[1][2])
      BY <1>4, <2>1, <3>5, <3>7
    <3> QED BY <3>4, <3>5
  <2> QED BY <1>7, <2>2, <2>3 DEF deliver
<1>8. CASE drain_on_close
  <2>1. Answer(Outstanding, conn_terminal) /\ opener' = opener
    BY <1>8, DrainAnswers DEF drain_on_close
  <2>2. Outstanding' = {}
    BY <1>8, WorkerRequests
  <2> QED BY <1>5, <2>1, <2>2
<1>9. CASE apply_inbox \/ Packet \/ TimesOut \/ on_conn_established \/ PreHandshakeWorkerExit
             \/ wait_for_data \/ finish_iteration \/ on_conn_close
  <2>1. UNCHANGED <<slot, opener>>
    BY <1>9 DEF apply_inbox, Packet, TimesOut, on_conn_established, PreHandshakeWorkerExit,
                wait_for_data, finish_iteration, on_conn_close, WorkerRest, frontVars
  <2>2. CASE apply_inbox
    BY <1>4, <2>1, <2>2, ApplyRequests
  <2>3. CASE ~apply_inbox
    <3>1. UNCHANGED <<open, cur, cmd>>
      BY <1>9, <2>3 DEF Packet, TimesOut, on_conn_established, PreHandshakeWorkerExit,
                wait_for_data, finish_iteration, on_conn_close, WorkerRest, openVars
    <3>2. Outstanding' = Outstanding
      BY <3>1 DEF Outstanding
    <3> QED BY <1>4, <2>1, <3>2
  <2> QED BY <2>2, <2>3
<1>10. CASE Frontend
  <2> DEFINE good == GoodSlot(slot'[p][d], opener'[p], <<p, d>> \in Outstanding')
  <2> HIDE DEF good
  <2> slot \in [Openers -> [Classes -> Slots]]
    BY DEF TypeOK, TypeFront
  <2>0. ASSUME NEW o \in Openers, NEW c \in Classes, NEW x \in Slots,
               slot' = [slot EXCEPT ![o][c] = x], opener' = opener, opener[o] = "live",
               <<p, d>> \in Outstanding' =>
                 <<p, d>> \in Outstanding \/ (x.st = "queued" /\ p = o /\ d = c),
               slot[o][c].st # "queued", x.id = None, x.st # "ok", x.st = "none" => x = Idle
        PROVE  good
    <3>1. slot'[p][d] = IF p = o /\ d = c THEN x ELSE slot[p][d]
      BY <2>0, SlotChange
    <3>2. CASE p = o /\ d = c
      <4>1. <<p, d>> \notin Outstanding
        BY <1>3, <2>0, <3>2 DEF GoodSlot
      <4>2. slot'[p][d] = x /\ opener'[p] = "live"
        BY <2>0, <3>1, <3>2
      <4> QED BY <2>0, <4>1, <4>2 DEF GoodSlot, good
    <3>3. CASE ~(p = o /\ d = c)
      BY <1>4, <2>0, <3>1, <3>3 DEF good
    <3> QED BY <3>2, <3>3
  <2>1. ASSUME NEW o \in Openers, opener[o] = "none", Outstanding' = Outstanding, slot' = slot,
               opener' = [opener EXCEPT ![o] = "live"]
        PROVE  good
    <3>1. CASE p = o
      <4>1. slot[p][d].st = "none" /\ <<p, d>> \notin Outstanding
        BY <1>3, <2>1, <3>1 DEF GoodSlot
      <4> QED BY <1>3, <2>1, <4>1 DEF GoodSlot, good
    <3>2. CASE p # o
      <4>1. opener'[p] = opener[p]
        BY <2>1, <3>2 DEF TypeOK, TypeFront
      <4> QED BY <1>4, <2>1, <4>1 DEF good
    <3> QED BY <3>1, <3>2
  <2>2. CASE into_established_connection
    <3>1. Outstanding' = Outstanding /\ slot' = slot
      BY <2>2, FrontendRequests DEF into_established_connection
    <3>2. First \in Openers /\ opener[First] = "none"
      BY <2>2, ConnWorkerAssumption DEF into_established_connection, Front
    <3>3. opener' = opener \/ opener' = [opener EXCEPT ![First] = "live"]
      BY <2>2, <3>2 DEF into_established_connection, TypeOK, TypeFront
    <3> QED BY <1>4, <2>1, <3>1, <3>2, <3>3 DEF good
  <2>3. CASE AbandonSetup \/ (\E id \in held : StreamDrop(id)) \/ (\E o \in Openers : close(o))
    <3>1. Outstanding' = Outstanding
      BY <2>3, FrontendRequests
    <3>2. slot' = slot /\ opener' = opener
      BY <2>3 DEF AbandonSetup, StreamDrop, close
    <3> QED BY <1>4, <3>1, <3>2 DEF good
  <2>4. ASSUME NEW o \in Openers, Clone(o)
        PROVE  good
    <3>1. Outstanding' = Outstanding
      BY <2>4, FrontendRequests
    <3> QED BY <2>1, <2>4, <3>1 DEF Clone
  <2>5. ASSUME NEW o \in Openers, DropSender(o)
        PROVE  good
    <3>1. Outstanding' = Outstanding /\ slot' = slot
      BY <2>5, FrontendRequests DEF DropSender
    <3>2. CASE p # o
      <4>1. opener'[p] = opener[p]
        BY <2>5, <3>2 DEF DropSender, TypeOK, TypeFront
      <4> QED BY <1>4, <3>1, <4>1 DEF good
    <3>3. CASE p = o
      <4>1. slot[p][d].st # "send"
        BY <2>5, <3>3 DEF DropSender, Free
      <4>2. opener'[p] = "tx_gone" \/ (opener'[p] = "gone" /\ slot[p][d] = Idle)
        BY <2>5, <3>3 DEF DropSender, TypeOK, TypeFront
      <4>3. Idle.st = "none" /\ opener[p] = "live"
        BY <2>5, <3>3, SlotMakers DEF DropSender, Free
      <4> QED BY <1>3, <3>1, <4>1, <4>2, <4>3 DEF GoodSlot, good
    <3> QED BY <3>2, <3>3
  <2>6. ASSUME NEW o \in Openers, DropSlots(o)
        PROVE  good
    <3>1. Outstanding' = Outstanding
      BY <2>6, FrontendRequests
    <3>2. CASE p # o
      <4>1. opener'[p] = opener[p] /\ slot'[p] = slot[p]
        BY <2>6, <3>2 DEF DropSlots, TypeOK, TypeFront
      <4> QED BY <1>4, <3>1, <4>1 DEF good
    <3>3. CASE p = o
      <4>1. slot'[p][d] = Idle /\ opener'[p] = "gone"
        BY <2>6, <3>3 DEF DropSlots, TypeOK, TypeFront
      <4> QED BY <4>1, SlotMakers DEF GoodSlot, good
    <3> QED BY <3>2, <3>3
  <2>7. ASSUME NEW o \in Openers, NEW c \in Classes, poll_open(o, c)
        PROVE  good
    <3>1. Outstanding' = Outstanding /\ opener' = opener /\ opener[o] = "live"
      BY <2>7, FrontendRequests DEF poll_open, Free
    <3>2. CASE slot' = slot
      BY <1>4, <3>1, <3>2 DEF good
    <3>3. CASE slot' = [slot EXCEPT ![o][c] = Slot("send", None, "none")]
      <4> DEFINE x == Slot("send", None, "none")
      <4>1. x \in Slots
        BY SlotKinds
      <4>2. x.st = "send" /\ x.id = None /\ slot[o][c].st = "none"
        BY <2>7, SlotMakers DEF Slot, poll_open
      <4>3. slot' = [slot EXCEPT ![o][c] = x]
        BY <3>3
      <4> HIDE DEF x
      <4> QED BY <2>0, <3>1, <4>1, <4>2, <4>3
    <3> QED BY <2>7, <3>2, <3>3 DEF poll_open
  <2>8. ASSUME NEW o \in Openers, NEW c \in Classes, poll_reply(o, c)
        PROVE  good
    <3>1. Outstanding' = Outstanding /\ opener' = opener /\ opener[o] = "live"
      BY <2>8, FrontendRequests DEF poll_reply, Free
    <3>2. slot' = [slot EXCEPT ![o][c] = Idle] /\ slot[o][c].st # "queued"
      BY <2>8 DEF poll_reply
    <3>3. Idle \in Slots /\ Idle.st = "none" /\ Idle.id = None
      BY SlotMakers
    <3> QED BY <2>0, <3>1, <3>2, <3>3
  <2>9. ASSUME NEW o \in Openers, NEW c \in Classes, Submit(o, c)
        PROVE  good
    <3>1. opener' = opener /\ slot[o][c].st = "send"
      BY <2>9 DEF Submit
    <3>2. opener[o] = "live"
      BY <3>1 DEF Front, GoodSlot
    <3>3. CASE ~IngressOpen
      <4>1. slot' = [slot EXCEPT ![o][c] = Idle] /\ Outstanding' = Outstanding
        BY <2>9, <3>3, SubmitRequests DEF Submit
      <4> QED BY <2>0, <3>1, <3>2, <4>1, SlotMakers
    <3>4. CASE IngressOpen
      <4> DEFINE x == Slot("queued", None, "none")
      <4>1. x \in Slots
        BY SlotKinds
      <4>2. x.st = "queued" /\ x.id = None
        BY DEF Slot
      <4>3. slot' = [slot EXCEPT ![o][c] = x]
        BY <2>9, <3>4 DEF Submit
      <4>4. Outstanding' \subseteq Outstanding \cup {<<o, c>>}
        BY <2>9, <3>4, SubmitRequests
      <4>5. <<p, d>> \in Outstanding' => <<p, d>> \in Outstanding \/ (p = o /\ d = c)
        BY <4>4
      <4> HIDE DEF x
      <4> QED BY <2>0, <3>1, <3>2, <4>1, <4>2, <4>3, <4>5
    <3> QED BY <3>3, <3>4
  <2> QED BY <1>10, <2>2, <2>3, <2>4, <2>5, <2>6, <2>7, <2>8, <2>9 DEF Frontend, good
<1> QED BY <1>6, <1>7, <1>8, <1>9, <1>10 DEF Next, Worker, Frontend

-----------------------------------------------------------------------------
(* The cause of the end.                                                   *)

\* What classify_conn_terminal makes of the causes.
LEMMA Classified ==
  ASSUME TypeOK
  PROVE  /\ classify_conn_terminal.kind # "none"
         /\ to_h3(classify_conn_terminal) = "ApplicationClose" <=> (~close_bug /\ peer_error = "app")
         /\ to_h3(classify_conn_terminal) = "InternalError" => close_bug \/ ~Closing
<1> USE DEF classify_conn_terminal, to_h3, Terminal, Internal, conn_terminal_from_error
<1>1. CASE close_bug
  BY <1>1
<1>2. CASE ~close_bug /\ peer_error # "none"
  BY <1>2
<1>3. CASE ~close_bug /\ peer_error = "none" /\ timed_out
  BY <1>3
<1>4. CASE ~close_bug /\ peer_error = "none" /\ ~timed_out /\ local_close # None
  BY <1>4
<1>5. CASE ~close_bug /\ peer_error = "none" /\ ~timed_out /\ local_close = None /\ local_error # "none"
  BY <1>5
<1>6. CASE ~close_bug /\ peer_error = "none" /\ ~timed_out /\ local_close = None /\ local_error = "none"
  BY <1>6 DEF Closing
<1> QED BY <1>1, <1>2, <1>3, <1>4, <1>5, <1>6

\* The terminal is published once and told to everyone.
LEMMA StepCause ==
  ASSUME TypeOK, Front, Once, Cause, Next
  PROVE  Cause'
<1>1. ASSUME UNCHANGED <<quicheVars, local_close, close_bug>>
      PROVE  classify_conn_terminal' = classify_conn_terminal /\ Closing' = Closing
  BY <1>1 DEF quicheVars, classify_conn_terminal, Closing
<1> HIDE DEF classify_conn_terminal, to_h3, Slot
<1>2. CASE Packet \/ TimesOut \/ wait_for_data \/ finish_iteration
  <2>1. UNCHANGED <<conn_terminal, frontVars>> /\ conn_terminal.kind = "none"
    BY <1>2 DEF Packet, TimesOut, wait_for_data, finish_iteration, WorkerRest, Cause
  <2>2. wpc' \notin {"drain", "exited"}
    BY <1>2 DEF Packet, TimesOut, wait_for_data, finish_iteration, apply_close_barrier
  <2>3. wpc' = "ended" => timed_out' \/ close_bug'
    BY <1>2 DEF Packet, TimesOut, wait_for_data, finish_iteration, apply_close_barrier
  <2> QED BY <2>1, <2>2, <2>3 DEF Cause, frontVars
<1>3. CASE on_conn_established \/ PreHandshakeWorkerExit
  <2>1. UNCHANGED <<conn_terminal, frontVars>> /\ conn_terminal.kind = "none"
    BY <1>3 DEF on_conn_established, PreHandshakeWorkerExit, Cause
  <2>2. (est' = "err" /\ wpc' = "exited") \/ wpc' = "wait"
    BY <1>3 DEF on_conn_established, PreHandshakeWorkerExit
  <2> QED BY <2>1, <2>2 DEF Cause, frontVars
<1>4. CASE apply_inbox
  <2>1. UNCHANGED <<conn_terminal, frontVars>> /\ wpc' \notin {"ended", "drain", "exited"}
        /\ conn_terminal.kind = "none"
    BY <1>4, ApplyCases DEF ApplyRest, Cause
  <2> QED BY <2>1 DEF Cause, frontVars
<1>5. ASSUME NEW c \in Classes, stage_open(c)
      PROVE  Cause'
  <2>1. UNCHANGED <<conn_terminal, told, opener>> /\ conn_terminal.kind = "none"
    BY <1>5, StageCases DEF StageRest, Cause, Stage, Classes
  <2>2. wpc' \notin {"ended", "drain", "exited"}
    BY <1>5, StageCases DEF StageStops, StageSkips, StageDeclines, StageOpens, Stage, Classes
  <2>3. ASSUME NEW p \in Openers, NEW d \in Classes, slot'[p][d].st = "err", opener[p] = "live"
        PROVE  FALSE
    <3>1. CASE StageDeclines(c)
      BY <2>3, <3>1 DEF StageDeclines, HasHandles
    <3>2. CASE ~StageDeclines(c)
      <4>1. slot' = slot
        BY <1>5, <3>2, StageCases DEF StageStops, StageSkips, StageOpens
      <4> QED BY <2>1, <2>3, <4>1 DEF Cause
    <3> QED BY <3>1, <3>2
  <2> QED BY <2>1, <2>2, <2>3 DEF Cause
<1>6. CASE deliver
  <2>1. UNCHANGED <<conn_terminal, told, opener>> /\ conn_terminal.kind = "none"
        /\ cur[1][1] \in Openers /\ cur[1][2] \in Classes /\ cur[2] \in Nat
    BY <1>6, ReqTypes DEF deliver, Cause
  <2>2. wpc' \notin {"ended", "drain", "exited"}
    <3>1. wpc' = Stage[cur[1][2]]
      BY <1>6 DEF deliver
    <3> QED BY <2>1, <3>1 DEF Stage, Classes
  <2>3. ASSUME NEW p \in Openers, NEW d \in Classes, slot'[p][d].st = "err"
        PROVE  slot[p][d].st = "err"
    <3> DEFINE x == Slot("ok", cur[2], "none")
    <3>1. x \in Slots
      BY <2>1, SlotKinds
    <3>2. x.st = "ok"
      BY DEF Slot
    <3>3. slot' = slot \/ slot' = [slot EXCEPT ![cur[1][1]][cur[1][2]] = x]
      BY <1>6 DEF deliver
    <3> HIDE DEF x
    <3>4. slot' = slot \/ slot'[p][d] = IF p = cur[1][1] /\ d = cur[1][2] THEN x ELSE slot[p][d]
      BY <2>1, <3>1, <3>3, SlotChange DEF TypeOK, TypeFront
    <3> QED BY <2>3, <3>2, <3>4
  <2> QED BY <2>1, <2>2, <2>3 DEF Cause
<1>7. CASE on_conn_close
  <2>1. /\ conn_terminal' = classify_conn_terminal /\ wpc' = "drain"
        /\ UNCHANGED <<quicheVars, local_close, close_bug, frontVars>> /\ conn_terminal.kind = "none"
        /\ Closing \/ close_bug
    BY <1>7 DEF on_conn_close, closeVars, Cause, Closing
  <2>2. classify_conn_terminal.kind # "none"
    BY Classified
  <2>3. /\ conn_terminal' = classify_conn_terminal' /\ (Closing' \/ close_bug')
    BY <1>1, <2>1
  <2>4. told' = {} /\ \A p \in Openers, d \in Classes : ~(slot'[p][d].st = "err" /\ opener'[p] = "live")
    BY <2>1 DEF Cause, frontVars
  <2> QED BY <2>1, <2>2, <2>3, <2>4 DEF Cause
<1>8. CASE drain_on_close
  <2>1. /\ UNCHANGED <<quicheVars, local_close, close_bug, conn_terminal, told, opener>>
        /\ conn_terminal.kind # "none" /\ wpc' = "exited" /\ wpc = "drain"
    BY <1>8 DEF drain_on_close, closeVars, Cause
  <2>2. classify_conn_terminal' = classify_conn_terminal /\ Closing' = Closing
    BY <1>1, <2>1
  <2>3. ASSUME NEW p \in Openers, NEW d \in Classes, slot'[p][d].st = "err", opener[p] = "live"
        PROVE  slot'[p][d].err = to_h3(conn_terminal)
    <3>1. Answer(Outstanding, conn_terminal)
      BY <1>8, DrainAnswers
    <3>2. slot'[p][d] = IF <<p, d>> \in Outstanding /\ opener[p] # "gone"
                          THEN Slot("err", None, to_h3(conn_terminal)) ELSE slot[p][d]
      BY <3>1, AnswerSlots, Zenon
    <3>3. Slot("err", None, to_h3(conn_terminal)).err = to_h3(conn_terminal)
      BY DEF Slot
    <3> QED BY <2>3, <3>2, <3>3 DEF Cause
  <2> QED BY <2>1, <2>2, <2>3 DEF Cause
<1>9. CASE Frontend
  <2>1. /\ UNCHANGED <<quicheVars, local_close, close_bug, conn_terminal, wpc, est, timed_out>>
    BY <1>9, FrontendFrame DEF workerVars, closeVars, quicheVars
  <2>2. classify_conn_terminal' = classify_conn_terminal /\ Closing' = Closing
    BY <1>1, <2>1
  <2>3. ASSUME /\ told' = told \/ (told' = told \cup {to_h3(conn_terminal)} /\ conn_terminal.kind # "none"),
               \A p \in Openers, d \in Classes :
                 slot'[p][d].st = "err" /\ opener'[p] = "live" =>
                   slot'[p][d] = slot[p][d] /\ opener[p] = "live"
        PROVE  Cause'
    BY <2>1, <2>2, <2>3 DEF Cause
  <2>4. CASE AbandonSetup \/ (\E id \in held : StreamDrop(id)) \/ (\E o \in Openers : close(o))
    <3>1. UNCHANGED <<told, slot, opener>>
      BY <2>4 DEF AbandonSetup, StreamDrop, close
    <3> QED BY <2>3, <3>1
  <2>5. ASSUME NEW o \in Openers, opener[o] = "none" \/ opener' = opener, UNCHANGED <<told, slot>>,
               opener' = [opener EXCEPT ![o] = "live"] \/ opener' = opener
        PROVE  Cause'
    <3>1. opener[o] = "none" => \A d \in Classes : slot[o][d].st = "none"
      BY DEF Front, GoodSlot
    <3>2. \A p \in Openers : opener'[p] = opener[p] \/ (p = o /\ opener[o] = "none")
      BY <2>5 DEF TypeOK, TypeFront
    <3> QED BY <2>3, <2>5, <3>1, <3>2
  <2>6. CASE into_established_connection
    <3>1. First \in Openers /\ opener[First] = "none" /\ UNCHANGED <<told, slot>>
      BY <2>6, ConnWorkerAssumption DEF into_established_connection, Front
    <3>2. opener' = opener \/ opener' = [opener EXCEPT ![First] = "live"]
      BY <2>6, <3>1 DEF into_established_connection, TypeOK, TypeFront
    <3> QED BY <2>5, <3>1, <3>2
  <2>7. ASSUME NEW o \in Openers, Clone(o)
        PROVE  Cause'
    BY <2>5, <2>7 DEF Clone
  <2>8. ASSUME NEW o \in Openers, DropSender(o)
        PROVE  Cause'
    <3>1. UNCHANGED <<told, slot>> /\ \A p \in Openers : opener'[p] = opener[p] \/ opener'[p] # "live"
      BY <2>8 DEF DropSender, TypeOK, TypeFront
    <3> QED BY <2>3, <3>1
  <2>9. ASSUME NEW o \in Openers, DropSlots(o)
        PROVE  Cause'
    <3>1. told' = told /\ opener'[o] = "gone" /\ \A p \in Openers : p # o => opener'[p] = opener[p]
                                                                    /\ slot'[p] = slot[p]
      BY <2>9 DEF DropSlots, TypeOK, TypeFront
    <3> QED BY <2>3, <3>1
  <2>10. ASSUME NEW o \in Openers, NEW c \in Classes, NEW x \in Slots, x.st # "err",
                slot' = [slot EXCEPT ![o][c] = x], opener' = opener
         PROVE  \A p \in Openers, d \in Classes :
                  slot'[p][d].st = "err" /\ opener'[p] = "live" =>
                    slot'[p][d] = slot[p][d] /\ opener[p] = "live"
    <3>1. \A p \in Openers, d \in Classes : slot'[p][d] = IF p = o /\ d = c THEN x ELSE slot[p][d]
      BY <2>10, SlotChange DEF TypeOK, TypeFront
    <3> QED BY <2>10, <3>1
  <2>11. /\ Idle \in Slots /\ Idle.st # "err"
         /\ Slot("send", None, "none") \in Slots /\ Slot("send", None, "none").st # "err"
         /\ Slot("queued", None, "none") \in Slots /\ Slot("queued", None, "none").st # "err"
    <3>1. Slot("send", None, "none").st = "send" /\ Slot("queued", None, "none").st = "queued"
      BY DEF Slot
    <3>2. Slot("send", None, "none") \in Slots
      BY SlotKinds
    <3>3. Slot("queued", None, "none") \in Slots
      BY SlotKinds
    <3>4. Idle \in Slots /\ Idle.st = "none"
      BY SlotMakers
    <3> QED BY <3>1, <3>2, <3>3, <3>4
  <2>12. ASSUME NEW o \in Openers, NEW c \in Classes, poll_open(o, c)
         PROVE  Cause'
    <3>1. CASE conn_terminal.kind # "none"
      <4>1. told' = told \cup {to_h3(conn_terminal)} /\ UNCHANGED <<slot, opener>>
        BY <2>12, <3>1 DEF poll_open
      <4> QED BY <2>3, <3>1, <4>1
    <3>2. CASE conn_terminal.kind = "none"
      <4>1. slot' = [slot EXCEPT ![o][c] = Slot("send", None, "none")] /\ UNCHANGED <<told, opener>>
        BY <2>12, <3>2 DEF poll_open
      <4> QED BY <2>3, <2>10, <2>11, <4>1
    <3> QED BY <3>1, <3>2
  <2>13. ASSUME NEW o \in Openers, NEW c \in Classes, Submit(o, c)
         PROVE  Cause'
    <3>1. CASE IngressOpen
      <4>1. slot' = [slot EXCEPT ![o][c] = Slot("queued", None, "none")] /\ UNCHANGED <<told, opener>>
        BY <2>13, <3>1 DEF Submit
      <4> QED BY <2>3, <2>10, <2>11, <4>1
    <3>2. CASE ~IngressOpen
      <4>1. /\ slot' = [slot EXCEPT ![o][c] = Idle] /\ UNCHANGED opener
            /\ told' = told \cup {to_h3(published_terminal)}
        BY <2>13, <3>2 DEF Submit
      <4>2. opener[o] = "live"
        BY <2>13 DEF Submit, Front, GoodSlot
      <4>3. est = "ok" /\ wpc = "exited"
        BY <3>2, <4>2 DEF Front, IngressOpen
      <4>4. conn_terminal.kind # "none" /\ published_terminal = conn_terminal
        BY <4>3 DEF Cause, published_terminal
      <4> QED BY <2>3, <2>10, <2>11, <4>1, <4>4
    <3> QED BY <3>1, <3>2
  <2>14. ASSUME NEW o \in Openers, NEW c \in Classes, poll_reply(o, c)
         PROVE  Cause'
    <3>1. slot' = [slot EXCEPT ![o][c] = Idle] /\ UNCHANGED opener /\ opener[o] = "live"
      BY <2>14 DEF poll_reply, Free
    <3>2. \/ told' = told
          \/ slot[o][c].st = "err" /\ told' = told \cup {slot[o][c].err}
      BY <2>14 DEF poll_reply
    <3>3. slot[o][c].st = "err" => slot[o][c].err = to_h3(conn_terminal) /\ conn_terminal.kind # "none"
      BY <3>1 DEF Cause
    <3>4. told' = told \/ (told' = told \cup {to_h3(conn_terminal)} /\ conn_terminal.kind # "none")
      BY <3>2, <3>3
    <3> QED BY <2>3, <2>10, <2>11, <3>1, <3>4
  <2> QED BY <1>9, <2>4, <2>6, <2>7, <2>8, <2>9, <2>12, <2>13, <2>14 DEF Frontend
<1> QED BY <1>2, <1>3, <1>4, <1>5, <1>6, <1>7, <1>8, <1>9 DEF Next, Worker, Frontend

-----------------------------------------------------------------------------
(* Ids and their owners.                                                   *)

\* An id of a class is recognised as one.
LEMMA IdClass ==
  ASSUME NEW c \in Classes, NEW n \in Nat
  PROVE  Seed[c] \in Nat /\ Seed[c] + 4 * n \in Nat /\ ClassOf(Seed[c] + 4 * n) = c
<1>1. CASE c = "bidi"
  <2>1. Seed[c] \in {0, 1}
    BY <1>1 DEF Seed, Classes
  <2>2. \A k \in Nat : ((0 + 4 * k) \div 2) % 2 = 0
    OBVIOUS
  <2>3. \A k \in Nat : ((1 + 4 * k) \div 2) % 2 = 0
    OBVIOUS
  <2>4. ((Seed[c] + 4 * n) \div 2) % 2 = 0
    <3>1. CASE Seed[c] = 0
      BY <2>2, <3>1
    <3>2. CASE Seed[c] = 1
      BY <2>3, <3>2
    <3> QED BY <2>1, <3>1, <3>2
  <2> DEFINE x == Seed[c] + 4 * n
  <2>5. Seed[c] \in Nat /\ x \in Nat
    BY <2>1
  <2>6. (x \div 2) % 2 = 0
    BY <2>4
  <2> HIDE DEF x
  <2>7. ClassOf(x) = c
    BY <1>1, <2>6 DEF ClassOf
  <2> QED BY <2>5, <2>7 DEF x
<1>2. CASE c = "uni"
  <2>1. Seed[c] \in {2, 3}
    BY <1>2 DEF Seed, Classes
  <2>2. \A k \in Nat : ((2 + 4 * k) \div 2) % 2 = 1
    OBVIOUS
  <2>3. \A k \in Nat : ((3 + 4 * k) \div 2) % 2 = 1
    OBVIOUS
  <2>4. ((Seed[c] + 4 * n) \div 2) % 2 = 1
    <3>1. CASE Seed[c] = 2
      BY <2>2, <3>1
    <3>2. CASE Seed[c] = 3
      BY <2>3, <3>2
    <3> QED BY <2>1, <3>1, <3>2
  <2> QED BY <1>2, <2>1, <2>4 DEF ClassOf
<1> QED BY <1>1, <1>2 DEF Classes

\* The next id of a class is new.
LEMMA NextIsNew ==
  ASSUME TypeOK, Dense, NEW c \in Classes
  PROVE  /\ next_id[c] \in Nat /\ ClassOf(next_id[c]) = c /\ next_id[c] \notin materialized
         /\ Cardinality(MaterializedIn(c)) \in Nat
<1> DEFINE n == Cardinality(MaterializedIn(c))
<1>1. n \in Nat
  BY FS_CardinalityType DEF Dense
<1> HIDE DEF n
<1>2. /\ next_id[c] = Seed[c] + 4 * n
      /\ MaterializedIn(c) = {Seed[c] + 4 * k : k \in 0..(n - 1)}
  BY DEF Dense, n
<1>3. next_id[c] \in Nat /\ ClassOf(next_id[c]) = c /\ Seed[c] \in Nat
  BY <1>1, <1>2, IdClass
<1>4. next_id[c] \notin MaterializedIn(c)
  <2>1. \A k \in 0..(n - 1) : Seed[c] + 4 * k # Seed[c] + 4 * n
    BY <1>1, <1>3
  <2> QED BY <1>2, <2>1
<1> QED BY <1>1, <1>3, <1>4 DEF MaterializedIn, n

\* Only stage_open gives out ids.
LEMMA IdFrame ==
  ASSUME TypeOK, Next
  PROVE  UNCHANGED <<next_id, materialized>> \/ \E c \in Classes : stage_open(c) /\ StageOpens(c)
<1>1. CASE Packet \/ TimesOut \/ on_conn_established \/ PreHandshakeWorkerExit \/ wait_for_data
             \/ deliver \/ finish_iteration \/ on_conn_close \/ drain_on_close
  BY <1>1 DEF Packet, TimesOut, on_conn_established, PreHandshakeWorkerExit, wait_for_data, deliver,
              finish_iteration, on_conn_close, drain_on_close, WorkerRest, openVars
<1>2. CASE apply_inbox
  BY <1>2 DEF apply_inbox
<1>3. ASSUME NEW c \in Classes, stage_open(c), ~StageOpens(c)
      PROVE  UNCHANGED <<next_id, materialized>>
  BY <1>3, StageCases DEF StageStops, StageSkips, StageDeclines, openVars
<1>4. CASE Frontend
  BY <1>4, FrontendFrame DEF workerVars, openVars
<1> QED BY <1>1, <1>2, <1>3, <1>4 DEF Next, Worker, Frontend

\* The ids stay consecutive.
LEMMA StepDense ==
  ASSUME TypeOK, Dense, Next
  PROVE  Dense'
<1>1. CASE UNCHANGED <<next_id, materialized>>
  <2>1. \A d \in Classes : MaterializedIn(d)' = MaterializedIn(d)
    BY <1>1 DEF MaterializedIn
  <2> QED BY <1>1, <2>1 DEF Dense
<1>2. ASSUME NEW c \in Classes, StageOpens(c)
      PROVE  Dense'
  <2> DEFINE n == Cardinality(MaterializedIn(c))
  <2> DEFINE id == next_id[c]
  <2>1. /\ materialized' = materialized \cup {id} /\ next_id' = [next_id EXCEPT ![c] = @ + 4]
    BY <1>2 DEF StageOpens
  <2>2. id \in Nat /\ ClassOf(id) = c /\ id \notin materialized /\ n \in Nat
    BY NextIsNew
  <2>3. IsFiniteSet(MaterializedIn(c)) /\ id = Seed[c] + 4 * n
        /\ MaterializedIn(c) = {Seed[c] + 4 * k : k \in 0..(n - 1)}
    BY DEF Dense
  <2> HIDE DEF id
  <2>4. MaterializedIn(c)' = MaterializedIn(c) \cup {id}
    BY <2>1, <2>2 DEF MaterializedIn
  <2>5. id \notin MaterializedIn(c)
    BY <2>2 DEF MaterializedIn
  <2>6. IsFiniteSet(MaterializedIn(c)') /\ Cardinality(MaterializedIn(c)') = n + 1
    <3>1. /\ IsFiniteSet(MaterializedIn(c) \cup {id})
          /\ Cardinality(MaterializedIn(c) \cup {id}) = Cardinality(MaterializedIn(c)) + 1
      BY <2>3, <2>5, FS_AddElement, Zenon
    <3> QED BY <2>4, <3>1
  <2> HIDE DEF n
  <2>7. MaterializedIn(c)' = {Seed[c] + 4 * k : k \in 0..((n + 1) - 1)}
    <3>1. 0..((n + 1) - 1) = 0..(n - 1) \cup {n}
      BY <2>2
    <3>2. {Seed[c] + 4 * k : k \in 0..((n + 1) - 1)}
            = {Seed[c] + 4 * k : k \in 0..(n - 1)} \cup {Seed[c] + 4 * n}
      BY <3>1
    <3> QED BY <2>3, <2>4, <3>2
  <2>8. next_id'[c] = Seed[c] + 4 * (n + 1)
    <3>1. next_id'[c] = id + 4
      BY <2>1 DEF id, TypeOK, TypeWorker
    <3>2. Seed[c] \in Nat
      BY IdClass, <2>2
    <3> QED BY <2>2, <2>3, <3>1, <3>2
  <2>9. ASSUME NEW d \in Classes, d # c
        PROVE  MaterializedIn(d)' = MaterializedIn(d) /\ next_id'[d] = next_id[d]
    BY <2>1, <2>2, <2>9 DEF MaterializedIn, TypeOK, TypeWorker
  <2>10. Seed' = Seed
    BY DEF Seed
  <2> QED BY <2>6, <2>7, <2>8, <2>9, <2>10 DEF Dense
<1> QED BY <1>1, <1>2, IdFrame

\* No handoff is put into a slot or taken out of it.
SlotsSame ==
  \A o \in Openers, c \in Classes :
    slot[o][c].st = "ok" \/ slot'[o][c].st = "ok" => slot'[o][c] = slot[o][c]

\* Steps that change other slots only.
SlotsStaySteps ==
  \/ \E c \in Classes : stage_open(c)
  \/ drain_on_close \/ into_established_connection \/ AbandonSetup
  \/ \E o \in Openers : \/ Clone(o) \/ DropSender(o) \/ close(o)
                        \/ \E c \in Classes : poll_open(o, c) \/ Submit(o, c)

\* They leave the delivered streams where they are.
LEMMA SlotsStay ==
  ASSUME TypeOK, Front, Once, SlotsStaySteps
  PROVE  SlotsSame /\ held' = held
<1>1. ASSUME NEW reqs, NEW t, Answer(reqs, t), reqs \subseteq Outstanding
      PROVE  SlotsSame
  <2>1. SUFFICES ASSUME NEW o \in Openers, NEW c \in Classes
                 PROVE  slot[o][c].st = "ok" \/ slot'[o][c].st = "ok" => slot'[o][c] = slot[o][c]
    BY DEF SlotsSame
  <2>2. slot'[o][c] = IF <<o, c>> \in reqs /\ opener[o] # "gone"
                        THEN Slot("err", None, to_h3(t)) ELSE slot[o][c]
    BY <1>1, AnswerSlots, Zenon
  <2>3. Slot("err", None, to_h3(t)).st = "err"
    BY DEF Slot
  <2>4. <<o, c>> \in reqs /\ opener[o] # "gone" => slot[o][c].st # "ok"
    BY <1>1 DEF Front, GoodSlot
  <2> HIDE DEF Slot
  <2> QED BY <2>2, <2>3, <2>4
<1>2. ASSUME slot' = slot
      PROVE  SlotsSame
  BY <1>2 DEF SlotsSame
<1>3. ASSUME NEW o \in Openers, NEW c \in Classes, NEW x \in Slots, x.st # "ok",
             slot[o][c].st # "ok", slot' = [slot EXCEPT ![o][c] = x]
      PROVE  SlotsSame
  <2>1. \A p \in Openers, d \in Classes : slot'[p][d] = IF p = o /\ d = c THEN x ELSE slot[p][d]
    BY <1>3, SlotChange DEF TypeOK, TypeFront
  <2> QED BY <1>3, <2>1 DEF SlotsSame
<1>4. CASE drain_on_close
  <2>1. SlotsSame
    BY <1>1, <1>4, DrainAnswers
  <2> QED BY <1>4, <2>1 DEF drain_on_close
<1>5. ASSUME NEW c \in Classes, stage_open(c)
      PROVE  SlotsSame /\ held' = held
  <2>1. held' = held
    BY <1>5, StageCases DEF StageRest
  <2>2. CASE StageStops(c) \/ StageSkips(c) \/ StageOpens(c)
    BY <1>2, <2>1, <2>2 DEF StageStops, StageSkips, StageOpens, SlotsSame
  <2>3. CASE StageDeclines(c)
    <3>1. Head(open[c]) \in Range(open[c])
      BY <2>3, TailElems DEF StageDeclines, StageTakes, TypeOK, TypeWorker
    <3>2. {Head(open[c])} \subseteq Outstanding
      BY <3>1 DEF Outstanding, Classes
    <3>3. Answer({Head(open[c])}, published_terminal)
      BY <2>3 DEF StageDeclines
    <3> QED BY <1>1, <2>1, <3>2, <3>3
  <2> QED BY <1>5, <2>2, <2>3, StageCases
<1>6. CASE into_established_connection \/ AbandonSetup
             \/ \E o \in Openers : Clone(o) \/ DropSender(o) \/ close(o)
  BY <1>2, <1>6 DEF into_established_connection, AbandonSetup, Clone, DropSender, close
<1>7. Idle \in Slots /\ Idle.st = "none"
  BY SlotMakers
<1>8. Slot("send", None, "none").st = "send" /\ Slot("queued", None, "none").st = "queued"
  BY DEF Slot
<1>9. Slot("send", None, "none") \in Slots
  BY SlotKinds
<1>10. Slot("queued", None, "none") \in Slots
  BY SlotKinds
<1>11. ASSUME NEW o \in Openers, NEW c \in Classes, poll_open(o, c)
       PROVE  SlotsSame /\ held' = held
  <2>1. held' = held /\ slot[o][c].st = "none"
    BY <1>7, <1>11 DEF poll_open
  <2>2. slot' = slot \/ slot' = [slot EXCEPT ![o][c] = Slot("send", None, "none")]
    BY <1>11 DEF poll_open
  <2> QED BY <1>2, <1>3, <1>8, <1>9, <2>1, <2>2
<1>12. ASSUME NEW o \in Openers, NEW c \in Classes, Submit(o, c)
       PROVE  SlotsSame /\ held' = held
  <2>1. held' = held /\ slot[o][c].st = "send"
    BY <1>12 DEF Submit
  <2>2. slot' = [slot EXCEPT ![o][c] = Idle] \/ slot' = [slot EXCEPT ![o][c] = Slot("queued", None, "none")]
    BY <1>12 DEF Submit
  <2> QED BY <1>3, <1>7, <1>8, <1>10, <2>1, <2>2
<1> QED BY <1>4, <1>5, <1>6, <1>11, <1>12 DEF SlotsStaySteps

\* The steps at which a stream changes hands.
LEMMA OwnerCases ==
  ASSUME TypeOK, Front, Once, Next
  PROVE  \/ SlotsSame /\ UNCHANGED <<held, cur, materialized>>
         \/ \E c \in Classes : stage_open(c) /\ StageOpens(c) /\ SlotsSame /\ UNCHANGED held
         \/ deliver
         \/ \E o \in Openers : DropSlots(o)
         \/ \E o \in Openers, c \in Classes : poll_reply(o, c)
         \/ \E id \in held : StreamDrop(id)
<1>1. CASE Packet \/ TimesOut \/ on_conn_established \/ PreHandshakeWorkerExit \/ wait_for_data
             \/ finish_iteration \/ on_conn_close \/ apply_inbox
  <2>1. UNCHANGED <<slot, held, cur, materialized>>
    BY <1>1 DEF Packet, TimesOut, on_conn_established, PreHandshakeWorkerExit, wait_for_data,
                finish_iteration, on_conn_close, apply_inbox, WorkerRest, openVars, frontVars
  <2> QED BY <2>1 DEF SlotsSame
<1>2. CASE SlotsStaySteps
  <2>1. SlotsSame /\ held' = held
    BY <1>2, SlotsStay
  <2>2. CASE drain_on_close
    BY <2>1, <2>2 DEF drain_on_close
  <2>3. ASSUME NEW c \in Classes, stage_open(c), ~StageOpens(c)
        PROVE  UNCHANGED <<cur, materialized>>
    BY <2>3, StageCases DEF StageStops, StageSkips, StageDeclines, openVars
  <2>4. CASE Frontend
    BY <2>1, <2>4, FrontendFrame DEF workerVars, openVars
  <2> QED BY <1>2, <2>1, <2>2, <2>3, <2>4 DEF SlotsStaySteps, Frontend
<1> QED BY <1>1, <1>2 DEF Next, Worker, SlotsStaySteps

\* What poll_reply, DropSlots and deliver do to the slots.
LEMMA HandOver ==
  ASSUME TypeOK, Front, Once
  PROVE  /\ \A o \in Openers, c \in Classes : poll_reply(o, c) =>
              \A p \in Openers, d \in Classes :
                slot'[p][d] = IF p = o /\ d = c THEN Idle ELSE slot[p][d]
         /\ \A o \in Openers : DropSlots(o) =>
              \A p \in Openers, d \in Classes : slot'[p][d] = IF p = o THEN Idle ELSE slot[p][d]
         /\ deliver => /\ cur[1] \in Reqs /\ cur[1][1] \in Openers /\ cur[1][2] \in Classes
                       /\ cur[2] \in Nat /\ cur # <<>>
                       /\ slot[cur[1][1]][cur[1][2]].st = "ok" => Cancelled(cur[1])
                       /\ \A p \in Openers, d \in Classes :
                            IF p = cur[1][1] /\ d = cur[1][2] /\ ~Cancelled(cur[1])
                              THEN slot'[p][d].st = "ok" /\ slot'[p][d].id = cur[2]
                              ELSE slot'[p][d] = slot[p][d]
<1> slot \in [Openers -> [Classes -> Slots]]
  BY DEF TypeOK, TypeFront
<1>1. ASSUME NEW o \in Openers, NEW c \in Classes, poll_reply(o, c)
      PROVE  \A p \in Openers, d \in Classes :
                slot'[p][d] = IF p = o /\ d = c THEN Idle ELSE slot[p][d]
  BY <1>1, SlotMakers, SlotChange DEF poll_reply
<1>2. ASSUME NEW o \in Openers, DropSlots(o)
      PROVE  \A p \in Openers, d \in Classes : slot'[p][d] = IF p = o THEN Idle ELSE slot[p][d]
  BY <1>2 DEF DropSlots
<1>3. ASSUME deliver
      PROVE  /\ cur[1] \in Reqs /\ cur[1][1] \in Openers /\ cur[1][2] \in Classes
             /\ cur[2] \in Nat /\ cur # <<>> /\ cur[1] = <<cur[1][1], cur[1][2]>>
  BY <1>3, ReqTypes DEF deliver, Once
<1>4. ASSUME deliver
      PROVE  slot[cur[1][1]][cur[1][2]].st = "ok" => Cancelled(cur[1])
  <2>1. <<cur[1][1], cur[1][2]>> \in Outstanding
    BY <1>3, <1>4 DEF Outstanding
  <2> QED BY <1>3, <1>4, <2>1 DEF Front, GoodSlot, Cancelled
<1>5. ASSUME deliver, NEW p \in Openers, NEW d \in Classes
      PROVE  IF p = cur[1][1] /\ d = cur[1][2] /\ ~Cancelled(cur[1])
               THEN slot'[p][d].st = "ok" /\ slot'[p][d].id = cur[2]
               ELSE slot'[p][d] = slot[p][d]
  <2> DEFINE x == Slot("ok", cur[2], "none")
  <2>1. x \in Slots
    <3>1. cur[2] \in Nat \cup {None} /\ "none" \in Errors
      BY <1>3, <1>5 DEF Errors
    <3> QED BY <3>1 DEF Slot, Slots
  <2>2. x.st = "ok" /\ x.id = cur[2]
    BY DEF Slot
  <2>3. CASE Cancelled(cur[1])
    BY <1>5, <2>3 DEF deliver
  <2>4. CASE ~Cancelled(cur[1])
    <3>1. slot' = [slot EXCEPT ![cur[1][1]][cur[1][2]] = x]
      BY <1>5, <2>4 DEF deliver
    <3> HIDE DEF x
    <3>2. slot'[p][d] = IF p = cur[1][1] /\ d = cur[1][2] THEN x ELSE slot[p][d]
      BY <1>3, <1>5, <2>1, <3>1, SlotChange
    <3> QED BY <2>2, <2>4, <3>2
  <2> QED BY <2>3, <2>4
<1> QED BY <1>1, <1>2, <1>3, <1>4, <1>5

\* A stream keeps one owner.
LEMMA StepOwners ==
  ASSUME TypeOK, Front, Once, Dense, Owners, Next
  PROVE  Owners'
<1>1. CASE SlotsSame /\ UNCHANGED <<held, cur, materialized>>
  <2>1. \A id : InSlot(id)' <=> InSlot(id)
    BY <1>1 DEF SlotsSame, InSlot
  <2> QED BY <1>1, <2>1 DEF Owners, SlotsSame
<1>2. ASSUME NEW c \in Classes, StageOpens(c), SlotsSame, UNCHANGED held
      PROVE  Owners'
  <2> DEFINE id == next_id[c]
  <2>1. id \in Nat /\ ClassOf(id) = c /\ id \notin materialized
    BY NextIsNew
  <2>2. materialized' = materialized \cup {id} /\ cur' = <<Head(open[c]), id>> /\ cur' # <<>>
    BY <1>2 DEF StageOpens
  <2>3. Head(open[c])[2] = c
    BY <1>2, ReqTypes DEF StageOpens, StageTakes
  <2> HIDE DEF id
  <2>4. \A o \in Openers, d \in Classes : ~(slot'[o][d].st = "ok" /\ slot'[o][d].id = id)
    BY <1>2, <2>1 DEF SlotsSame, Owners
  <2>5. cur'[2] = id /\ cur'[1][2] = c
    BY <2>2, <2>3
  <2>6. cur'[2] \in materialized' \ held' /\ ClassOf(cur'[2]) = cur'[1][2]
    BY <1>2, <2>1, <2>2, <2>5 DEF Owners
  <2>7. ~InSlot(cur[2])'
    BY <2>4, <2>5 DEF InSlot
  <2> QED BY <1>2, <2>2, <2>6, <2>7 DEF Owners, SlotsSame
<1>3. CASE deliver
  <2>1. UNCHANGED <<held, materialized>> /\ cur' = <<>>
    BY <1>3 DEF deliver
  <2>2. /\ cur[1][1] \in Openers /\ cur[1][2] \in Classes /\ cur # <<>>
        /\ \A p \in Openers, d \in Classes :
             IF p = cur[1][1] /\ d = cur[1][2] /\ ~Cancelled(cur[1])
               THEN slot'[p][d].st = "ok" /\ slot'[p][d].id = cur[2]
               ELSE slot'[p][d] = slot[p][d]
    BY <1>3, HandOver
  <2>3. cur[2] \in materialized \ held /\ ~InSlot(cur[2])
    BY <2>2 DEF Owners
  <2>4. \A o \in Openers, c \in Classes :
          slot'[o][c].st = "ok" => slot'[o][c].id \in materialized \ held
    BY <2>2, <2>3 DEF Owners
  <2>5. ASSUME NEW o \in Openers, NEW p \in Openers, NEW c \in Classes, NEW d \in Classes,
               slot'[o][c].st = "ok", slot'[p][d].st = "ok", slot'[o][c].id = slot'[p][d].id
        PROVE  o = p /\ c = d
    BY <2>2, <2>3, <2>5 DEF Owners, InSlot
  <2> QED BY <2>1, <2>4, <2>5 DEF Owners
<1>4. ASSUME NEW o \in Openers, DropSlots(o)
      PROVE  Owners'
  <2>1. UNCHANGED <<held, materialized, cur>>
    BY <1>4 DEF DropSlots, workerVars, openVars
  <2>2. \A p \in Openers, d \in Classes : slot'[p][d].st = "ok" => slot'[p][d] = slot[p][d]
    BY <1>4, HandOver, SlotMakers
  <2>3. \A id : InSlot(id)' => InSlot(id)
    BY <2>2 DEF InSlot
  <2> QED BY <2>1, <2>2, <2>3 DEF Owners
<1>5. ASSUME NEW o \in Openers, NEW c \in Classes, poll_reply(o, c)
      PROVE  Owners'
  <2>1. UNCHANGED <<materialized, cur>>
    BY <1>5 DEF poll_reply, workerVars, openVars
  <2>2. \A p \in Openers, d \in Classes :
          slot'[p][d].st = "ok" => slot'[p][d] = slot[p][d] /\ ~(p = o /\ d = c)
    BY <1>5, HandOver, SlotMakers
  <2>3. \A id : InSlot(id)' => InSlot(id)
    BY <2>2 DEF InSlot
  <2>4. held' = held \/ (slot[o][c].st = "ok" /\ held' = held \cup {slot[o][c].id})
    BY <1>5 DEF poll_reply
  <2>5. held' \subseteq materialized
    BY <2>4 DEF Owners
  <2>6. \A p \in Openers, d \in Classes :
          slot'[p][d].st = "ok" => slot'[p][d].id \in materialized \ held'
    BY <2>2, <2>4 DEF Owners
  <2>7. cur # <<>> => cur[2] \in materialized \ held'
    BY <2>4 DEF Owners, InSlot
  <2> QED BY <2>1, <2>2, <2>3, <2>5, <2>6, <2>7 DEF Owners
<1>6. ASSUME NEW id \in held, StreamDrop(id)
      PROVE  Owners'
  <2>1. UNCHANGED <<materialized, cur, slot>> /\ held' \subseteq held
    BY <1>6 DEF StreamDrop, workerVars, openVars
  <2>2. \A x : InSlot(x)' <=> InSlot(x)
    BY <2>1 DEF InSlot
  <2> QED BY <2>1, <2>2 DEF Owners
<1> QED BY <1>1, <1>2, <1>3, <1>4, <1>5, <1>6, OwnerCases

\* Who owns what after a step.
LEMMA OwnedStep ==
  ASSUME TypeOK, Front, Once, Dense, Owners
  PROVE  /\ SlotsSame /\ UNCHANGED <<held, cur, materialized>> => Owned' = Owned
         /\ \A c \in Classes : StageOpens(c) /\ SlotsSame /\ UNCHANGED held /\ cur = <<>> =>
              Owned' = Owned \cup {next_id[c]}
         /\ deliver /\ ~Cancelled(cur[1]) => Owned' = Owned
         /\ deliver /\ Cancelled(cur[1]) => Owned' = Owned \ {cur[2]} /\ cur[2] \in Owned
         /\ \A o \in Openers : DropSlots(o) =>
              Owned' = Owned \ Unpolled(o) /\ Unpolled(o) \subseteq Owned
         /\ \A o \in Openers, c \in Classes : poll_reply(o, c) => Owned' = Owned
         /\ \A id \in held : StreamDrop(id) => Owned' = Owned \ {id} /\ id \in Owned
<1>1. ASSUME SlotsSame, UNCHANGED <<held, cur, materialized>>
      PROVE  Owned' = Owned
  <2>1. \A id : InSlot(id)' <=> InSlot(id)
    BY <1>1 DEF SlotsSame, InSlot
  <2> QED BY <1>1, <2>1 DEF Owned
<1>2. ASSUME NEW c \in Classes, StageOpens(c), SlotsSame, UNCHANGED held, cur = <<>>
      PROVE  Owned' = Owned \cup {next_id[c]}
  <2>1. \A id : InSlot(id)' <=> InSlot(id)
    BY <1>2 DEF SlotsSame, InSlot
  <2>2. materialized' = materialized \cup {next_id[c]} /\ cur' # <<>> /\ cur'[2] = next_id[c]
    BY <1>2 DEF StageOpens
  <2>3. \A id : InSlot(id) => id \in materialized
    BY DEF InSlot, Owners
  <2>4. held \subseteq materialized
    BY DEF Owners
  <2> QED BY <1>2, <2>1, <2>2, <2>3, <2>4 DEF Owned
<1>3. ASSUME deliver
      PROVE  /\ UNCHANGED <<held, materialized>> /\ cur' = <<>> /\ cur # <<>>
             /\ cur[1][1] \in Openers /\ cur[1][2] \in Classes
             /\ \A p \in Openers, d \in Classes :
                  IF p = cur[1][1] /\ d = cur[1][2] /\ ~Cancelled(cur[1])
                    THEN slot'[p][d].st = "ok" /\ slot'[p][d].id = cur[2]
                    ELSE slot'[p][d] = slot[p][d]
             /\ cur[2] \in materialized \ held /\ ~InSlot(cur[2])
             /\ slot[cur[1][1]][cur[1][2]].st = "ok" => Cancelled(cur[1])
  BY <1>3, HandOver DEF deliver, Owners
<1>4. ASSUME deliver, ~Cancelled(cur[1])
      PROVE  Owned' = Owned
  <2>1. \A id : InSlot(id)' <=> InSlot(id) \/ id = cur[2]
    BY <1>3, <1>4 DEF InSlot
  <2> QED BY <1>3, <1>4, <2>1 DEF Owned
<1>5. ASSUME deliver, Cancelled(cur[1])
      PROVE  Owned' = Owned \ {cur[2]} /\ cur[2] \in Owned
  <2>1. \A id : InSlot(id)' <=> InSlot(id)
    BY <1>3, <1>5 DEF InSlot
  <2> QED BY <1>3, <1>5, <2>1 DEF Owned
<1>6. ASSUME NEW o \in Openers, DropSlots(o)
      PROVE  Owned' = Owned \ Unpolled(o) /\ Unpolled(o) \subseteq Owned
  <2>1. UNCHANGED <<held, materialized, cur>>
    BY <1>6 DEF DropSlots, workerVars, openVars
  <2>2. \A p \in Openers, d \in Classes : slot'[p][d] = IF p = o THEN Idle ELSE slot[p][d]
    BY <1>6, HandOver
  <2>3. Idle.st = "none"
    BY SlotMakers
  <2>4. \A id : id \in Unpolled(o) => InSlot(id) /\ id \in materialized \ held
                                       /\ (cur # <<>> => id # cur[2])
    BY DEF Unpolled, InSlot, Owners
  <2>5. \A id : InSlot(id)' <=> InSlot(id) /\ id \notin Unpolled(o)
    <3>1. ASSUME NEW id, InSlot(id)'
          PROVE  InSlot(id) /\ id \notin Unpolled(o)
      <4>1. PICK p \in Openers, d \in Classes : slot'[p][d].st = "ok" /\ slot'[p][d].id = id
        BY <3>1 DEF InSlot
      <4>2. p # o /\ slot[p][d].st = "ok" /\ slot[p][d].id = id
        BY <2>2, <2>3, <4>1
      <4>3. id \notin Unpolled(o)
        BY <4>2 DEF Unpolled, Owners
      <4> QED BY <4>2, <4>3 DEF InSlot
    <3>2. ASSUME NEW id, InSlot(id), id \notin Unpolled(o)
          PROVE  InSlot(id)'
      <4>1. PICK p \in Openers, d \in Classes : slot[p][d].st = "ok" /\ slot[p][d].id = id
        BY <3>2 DEF InSlot
      <4>2. p # o
        BY <3>2, <4>1 DEF Unpolled
      <4> QED BY <2>2, <4>1, <4>2 DEF InSlot
    <3> QED BY <3>1, <3>2
  <2> QED BY <2>1, <2>4, <2>5 DEF Owned
<1>7. ASSUME NEW o \in Openers, NEW c \in Classes, poll_reply(o, c)
      PROVE  Owned' = Owned
  <2>1. UNCHANGED <<materialized, cur>>
    BY <1>7 DEF poll_reply, workerVars, openVars
  <2>2. \A p \in Openers, d \in Classes :
          slot'[p][d] = IF p = o /\ d = c THEN Idle ELSE slot[p][d]
    BY <1>7, HandOver
  <2>3. Idle.st = "none"
    BY SlotMakers
  <2>4. CASE slot[o][c].st = "ok"
    <3>1. held' = held \cup {slot[o][c].id}
      BY <1>7, <2>4 DEF poll_reply
    <3>2. \A id : InSlot(id) <=> InSlot(id)' \/ id = slot[o][c].id
      BY <2>2, <2>3, <2>4 DEF InSlot
    <3> QED BY <2>1, <3>1, <3>2 DEF Owned
  <2>5. CASE slot[o][c].st # "ok"
    <3>1. held' = held
      BY <1>7, <2>5 DEF poll_reply
    <3>2. \A id : InSlot(id) <=> InSlot(id)'
      BY <2>2, <2>3, <2>5 DEF InSlot
    <3> QED BY <2>1, <3>1, <3>2 DEF Owned
  <2> QED BY <2>4, <2>5
<1>8. ASSUME NEW id \in held, StreamDrop(id)
      PROVE  Owned' = Owned \ {id} /\ id \in Owned
  <2>1. UNCHANGED <<materialized, cur, slot>> /\ held' = held \ {id}
    BY <1>8 DEF StreamDrop, workerVars, openVars
  <2>2. \A x : InSlot(x)' <=> InSlot(x)
    BY <2>1 DEF InSlot
  <2>3. id \in materialized /\ ~InSlot(id) /\ (cur # <<>> => id # cur[2])
    BY DEF Owners, InSlot
  <2> QED BY <2>1, <2>2, <2>3 DEF Owned
<1> QED BY <1>1, <1>2, <1>4, <1>5, <1>6, <1>7, <1>8

-----------------------------------------------------------------------------
(* The halves in the registry.                                             *)

Halfs == {"send", "recv"}

\* The entries of a stream.
LEMMA EntryFacts ==
  ASSUME NEW id \in Nat
  PROVE  /\ ClassOf(id) \in Classes /\ "send" \in Dirs(ClassOf(id))
         /\ "recv" \in Dirs(ClassOf(id)) <=> ClassOf(id) = "bidi"
         /\ \A e \in Nat \X Halfs : e \in Entries(id) <=> e[1] = id /\ e[2] \in Dirs(ClassOf(id))
         /\ Entries(id) \subseteq Nat \X Halfs
<1>1. Entries(id) = {<<id, d>> : d \in Dirs(ClassOf(id))}
  BY DEF Entries
<1>2. Dirs(ClassOf(id)) \subseteq Halfs
  BY DEF Dirs, Halfs
<1>3. \A e \in Nat \X Halfs : e = <<e[1], e[2]>>
  OBVIOUS
<1>4. ClassOf(id) \in Classes
  BY DEF ClassOf, Classes
<1>5. "send" \in Dirs(ClassOf(id)) /\ ("recv" \in Dirs(ClassOf(id)) <=> ClassOf(id) = "bidi")
  BY DEF Dirs
<1> HIDE DEF ClassOf, Dirs, Entries
<1> QED BY <1>1, <1>2, <1>3, <1>4, <1>5

\* Owners let go of streams and send the cleanup; the registry may already
\* have dropped their entries.
LEMMA KeptRelease ==
  ASSUME NEW O \in SUBSET Nat, NEW R \in SUBSET (Nat \X Halfs), NEW F, NEW A, NEW B,
         NEW G \in SUBSET O, NEW R2 \in SUBSET R, Kept(O, R, F, A, B),
         \A e \in R : e \in R2 \/ e[1] \in G
  PROVE  Kept(O \ G, R2, F, A \cup G, B \cup {id \in G : ClassOf(id) = "bidi"})
<1>1. ASSUME NEW id \in O \ G
      PROVE  Entries(id) \subseteq R2
  <2>1. \A e \in Entries(id) : e \in R /\ e[1] = id
    BY <1>1, EntryFacts DEF Kept
  <2> QED BY <1>1, <2>1
<1>2. ASSUME NEW e \in R2
      PROVE  \/ e[1] \in O \ G /\ e[2] \in Dirs(ClassOf(e[1]))
             \/ e[2] = "recv" /\ e[1] \in B \cup {id \in G : ClassOf(id) = "bidi"}
             \/ e[2] = "send" /\ (e[1] \in A \cup G \/ e[1] \in F)
  <2>1. e \in R /\ e[1] \in Nat /\ e[2] \in {"send", "recv"}
    BY DEF Halfs
  <2>2. CASE e[1] \in G
    <3>1. e[2] \in Dirs(ClassOf(e[1])) \/ (e[2] = "recv" /\ e[1] \in B) \/ e[2] = "send"
      BY <2>1 DEF Kept
    <3>2. e[2] = "recv" /\ e[2] \in Dirs(ClassOf(e[1])) => ClassOf(e[1]) = "bidi"
      BY <2>1, EntryFacts
    <3> QED BY <2>1, <2>2, <3>1, <3>2
  <2>3. CASE e[1] \notin G
    BY <2>1, <2>3 DEF Kept
  <2> QED BY <2>2, <2>3
<1> QED BY <1>1, <1>2 DEF Kept

\* A Finish is applied.
LEMMA KeptFinish ==
  ASSUME NEW O \in SUBSET Nat, NEW R \in SUBSET (Nat \X Halfs), NEW F, NEW A, NEW B,
         NEW x \in A, NEW A2 \in SUBSET A, A \subseteq A2 \cup {x}, Kept(O, R, F, A, B)
  PROVE  Kept(O, R \cup {<<x, "send">>}, F \cup {x}, A2, B)
BY DEF Kept

\* A StopSending is applied.
LEMMA KeptStop ==
  ASSUME NEW O \in SUBSET Nat, NEW R \in SUBSET (Nat \X Halfs), NEW F, NEW A, NEW B,
         NEW x \in B, NEW B2 \in SUBSET B, B \subseteq B2 \cup {x}, Kept(O, R, F, A, B)
  PROVE  Kept(O, R \ {<<x, "recv">>}, F, A, B2)
<1>1. ASSUME NEW id \in O
      PROVE  Entries(id) \subseteq R \ {<<x, "recv">>}
  <2>1. x # id /\ Entries(id) \subseteq R
    BY <1>1 DEF Kept
  <2>2. \A e \in Entries(id) : e[1] = id
    BY EntryFacts
  <2> QED BY <2>1, <2>2
<1>2. \A e \in R : e = <<e[1], e[2]>>
  OBVIOUS
<1> QED BY <1>1, <1>2 DEF Kept

\* A new stream.
LEMMA KeptOpen ==
  ASSUME NEW O \in SUBSET Nat, NEW R \in SUBSET (Nat \X Halfs), NEW F, NEW A, NEW B,
         NEW x \in Nat, x \notin F, x \notin A, x \notin B, Kept(O, R, F, A, B)
  PROVE  Kept(O \cup {x}, R \cup Entries(x), F, A, B)
<1>1. \A e \in Entries(x) : e[1] = x /\ e[2] \in Dirs(ClassOf(x))
  BY EntryFacts
<1> QED BY <1>1 DEF Kept

\* stage_send reclaims the halves whose FIN went out.
LEMMA KeptReclaim ==
  ASSUME NEW O \in SUBSET Nat, NEW R \in SUBSET (Nat \X Halfs), NEW F, NEW A, NEW B,
         NEW V \in SUBSET F, Kept(O, R, F, A, B)
  PROVE  Kept(O, R \ {<<id, "send">> : id \in V}, F \ V, A, B)
<1>1. ASSUME NEW id \in O
      PROVE  Entries(id) \subseteq R \ {<<v, "send">> : v \in V}
  <2>1. id \notin V /\ Entries(id) \subseteq R
    BY <1>1 DEF Kept
  <2>2. \A e \in Entries(id) : e[1] = id
    BY EntryFacts
  <2> QED BY <2>1, <2>2
<1>2. ASSUME NEW e \in R, e \notin {<<v, "send">> : v \in V}
      PROVE  \/ e[1] \in O /\ e[2] \in Dirs(ClassOf(e[1]))
             \/ e[2] = "recv" /\ e[1] \in B
             \/ e[2] = "send" /\ (e[1] \in A \/ e[1] \in F \ V)
  <2>1. e = <<e[1], e[2]>>
    OBVIOUS
  <2> QED BY <1>2, <2>1 DEF Kept
<1> QED BY <1>1, <1>2 DEF Kept

\* What a cleanup adds to the channel.
LEMMA CleaningSent ==
  ASSUME TypeOK, NEW G \in SUBSET Nat, NEW cs \in Seq(Cmds), Send(cs),
         Range(cs) = UNION {Range(HandoffCleanup(id)) : id \in G}
  PROVE  /\ wpc = "exited" => cmd' = cmd
         /\ wpc # "exited" =>
              /\ Cleaning(cmd', "Finish") = Cleaning(cmd, "Finish") \cup G
              /\ Cleaning(cmd', "StopSending") =
                   Cleaning(cmd, "StopSending") \cup {id \in G : ClassOf(id) = "bidi"}
<1>1. wpc = "exited" => cmd' = cmd
  BY DEF Send, IngressOpen
<1>2. wpc # "exited" => Range(cmd') = Range(cmd) \cup Range(cs)
  BY SendElems
<1>3. Cleaning(cs, "Finish") = G
  <2>1. \A id \in G : Finish(id) \in Range(cs) /\ Finish(id).op = "Finish" /\ Finish(id).id = id
    BY Cleanups, CmdMakers
  <2>2. \A m \in Range(cs) : m.id \in G
    BY CleanupOps
  <2> QED BY <2>1, <2>2 DEF Cleaning
<1>4. Cleaning(cs, "StopSending") = {id \in G : ClassOf(id) = "bidi"}
  <2>1. ASSUME NEW id \in G, ClassOf(id) = "bidi"
        PROVE  StopSending(id) \in Range(cs) /\ StopSending(id).op = "StopSending"
               /\ StopSending(id).id = id
    <3>1. StopSending(id) \in Range(HandoffCleanup(id))
      BY <2>1, Cleanups
    <3> QED BY <3>1, CmdMakers
  <2>2. ASSUME NEW m \in Range(cs), m.op = "StopSending"
        PROVE  m.id \in G /\ ClassOf(m.id) = "bidi"
    <3>1. PICK id \in G : m \in Range(HandoffCleanup(id))
      OBVIOUS
    <3>2. m.id = id
      BY <3>1, CleanupOps
    <3>3. ClassOf(id) # "bidi" => m = Finish(id)
      BY <3>1, Cleanups
    <3>4. Finish(id).op = "Finish"
      BY CmdMakers
    <3> QED BY <2>2, <3>2, <3>3, <3>4
  <2> QED BY <2>1, <2>2 DEF Cleaning
<1>5. wpc # "exited" => \A op : Cleaning(cmd', op) = Cleaning(cmd, op) \cup Cleaning(cs, op)
  BY <1>2 DEF Cleaning
<1> QED BY <1>1, <1>3, <1>4, <1>5

\* Every half in the registry keeps its reason.
LEMMA StepHalves ==
  ASSUME TypeOK, Front, Once, Dense, Owners, Halves, Next
  PROVE  Halves'
<1> DEFINE A == Cleaning(cmd, "Finish")
<1> DEFINE B == Cleaning(cmd, "StopSending")
<1> DEFINE A2 == Cleaning(cmd', "Finish")
<1> DEFINE B2 == Cleaning(cmd', "StopSending")
<1>1. /\ finishing \subseteq materialized /\ A \subseteq materialized /\ B \subseteq materialized
      /\ wpc # "exited" => Kept(Owned, registry, finishing, A, B)
      /\ wpc \in {"handshake", "wait"} => \A id \in finishing : <<id, "recv">> \in registry
  BY DEF Halves
<1>2. SUFFICES
      /\ finishing' \subseteq materialized' /\ A2 \subseteq materialized' /\ B2 \subseteq materialized'
      /\ wpc' # "exited" => Kept(Owned', registry', finishing', A2, B2)
      /\ wpc' \in {"handshake", "wait"} => \A id \in finishing' : <<id, "recv">> \in registry'
  BY DEF Halves
<1>3. /\ Owned \subseteq Nat /\ registry \subseteq Nat \X Halfs /\ cmd \in Seq(Cmds)
      /\ materialized \subseteq Nat /\ Owned \subseteq materialized
  BY DEF Owned, TypeOK, TypeFront, TypeWorker, Halfs
<1>4. ASSUME NEW s, NEW t, NEW m, NEW op, Range(s) = {m} \cup Range(t)
      PROVE  /\ m.op # op => Cleaning(t, op) = Cleaning(s, op)
             /\ m.op = op => Cleaning(s, op) = Cleaning(t, op) \cup {m.id}
  BY <1>4 DEF Cleaning
<1> HIDE DEF A, B, A2, B2
<1>5. CASE Packet \/ TimesOut \/ on_conn_established \/ PreHandshakeWorkerExit \/ wait_for_data
             \/ on_conn_close
  <2>1. UNCHANGED <<cmd, registry, finishing, materialized, held, slot, cur>> /\ wpc # "exited"
    BY <1>5 DEF Packet, TimesOut, on_conn_established, PreHandshakeWorkerExit, wait_for_data,
                on_conn_close, WorkerRest, openVars, frontVars
  <2>2. Owned' = Owned /\ A2 = A /\ B2 = B
    <3>1. SlotsSame
      BY <2>1 DEF SlotsSame
    <3> QED BY <2>1, <3>1, OwnedStep DEF A, B, A2, B2
  <2>3. wpc' \in {"handshake", "wait"} => wpc = "handshake"
    BY <1>5 DEF Packet, TimesOut, on_conn_established, PreHandshakeWorkerExit, wait_for_data,
                on_conn_close
  <2> QED BY <1>1, <2>1, <2>2, <2>3
<1>6. CASE apply_inbox
  <2>1. UNCHANGED <<materialized, held, slot, cur>> /\ wpc = "apply"
        /\ wpc' \in {"apply", "open_bidi", "open_uni", "finish"}
    BY <1>6, ApplyCases DEF ApplyRest, frontVars
  <2>2. Owned' = Owned
    <3>1. SlotsSame
      BY <2>1 DEF SlotsSame
    <3> QED BY <2>1, <3>1, OwnedStep
  <2>3. CASE ApplyNothing
    <3>1. A2 = A /\ B2 = B /\ UNCHANGED <<registry, finishing>>
      BY <2>3 DEF ApplyNothing, A, B, A2, B2
    <3> QED BY <1>1, <2>1, <2>2, <3>1
  <2>4. ASSUME cmd # <<>>, cmd' = Tail(cmd)
        PROVE  Head(cmd) \in Cmds /\ Range(cmd) = {Head(cmd)} \cup Range(cmd')
    BY <1>3, <2>4, TailElems
  <2>5. CASE cmd # <<>> /\ cmd' = Tail(cmd) /\ (ApplyOpen(Head(cmd)) \/ ApplyClose(Head(cmd)))
    <3>1. Head(cmd).op \notin {"Finish", "StopSending"} /\ UNCHANGED <<registry, finishing>>
      BY <2>5 DEF ApplyOpen, ApplyClose
    <3>2. A2 = A /\ B2 = B
      <4>0. Range(cmd) = {Head(cmd)} \cup Range(cmd') /\ Head(cmd).op # "Finish" /\ Head(cmd).op # "StopSending"
        BY <2>4, <2>5, <3>1
      <4>1. A2 = A
        BY <1>4, <4>0 DEF A, A2
      <4>2. B2 = B
        BY <1>4, <4>0 DEF B, B2
      <4> QED BY <4>1, <4>2
    <3> QED BY <1>1, <2>1, <2>2, <3>1, <3>2
  <2>6. CASE cmd # <<>> /\ cmd' = Tail(cmd) /\ ApplyFinish(Head(cmd))
    <3> DEFINE x == Head(cmd).id
    <3>1. Head(cmd).op = "Finish" /\ finishing' = finishing \cup {x}
          /\ registry' = registry \cup {<<x, "send">>}
      BY <2>6 DEF ApplyFinish
    <3>2. A = A2 \cup {x} /\ B2 = B
      <4>1. A = A2 \cup {x}
        BY <1>4, <2>4, <2>6, <3>1 DEF A, A2
      <4>2. B2 = B
        BY <1>4, <2>4, <2>6, <3>1 DEF B, B2
      <4> QED BY <4>1, <4>2
    <3> HIDE DEF x
    <3>3. Kept(Owned, registry', finishing', A2, B2)
      BY <1>1, <1>3, <2>1, <3>1, <3>2, KeptFinish
    <3> QED BY <1>1, <2>1, <2>2, <3>1, <3>2, <3>3
  <2>7. CASE cmd # <<>> /\ cmd' = Tail(cmd) /\ ApplyStop(Head(cmd))
    <3> DEFINE x == Head(cmd).id
    <3>1. Head(cmd).op = "StopSending" /\ finishing' = finishing
          /\ registry' = registry \ {<<x, "recv">>}
      BY <2>7 DEF ApplyStop
    <3>2. A2 = A /\ B = B2 \cup {x}
      <4>1. A2 = A
        BY <1>4, <2>4, <2>7, <3>1 DEF A, A2
      <4>2. B = B2 \cup {x}
        BY <1>4, <2>4, <2>7, <3>1 DEF B, B2
      <4> QED BY <4>1, <4>2
    <3> HIDE DEF x
    <3>3. Kept(Owned, registry', finishing', A2, B2)
      <4>1. x \in B /\ B2 \in SUBSET B /\ B \subseteq B2 \cup {x} /\ A2 = A
        BY <3>2
      <4>2. Owned \in SUBSET Nat /\ registry \in SUBSET (Nat \X Halfs)
        BY <1>3
      <4>3. Kept(Owned, registry, finishing, A, B)
        BY <1>1, <2>1
      <4>4. Kept(Owned, registry \ {<<x, "recv">>}, finishing, A, B2)
        BY <4>1, <4>2, <4>3, KeptStop
      <4> QED BY <3>1, <4>1, <4>4
    <3> QED BY <1>1, <2>1, <2>2, <3>1, <3>2, <3>3
  <2> QED BY <1>6, <2>3, <2>5, <2>6, <2>7, ApplyCases
<1>7. ASSUME NEW c \in Classes, stage_open(c)
      PROVE  /\ finishing' \subseteq materialized' /\ A2 \subseteq materialized' /\ B2 \subseteq materialized'
             /\ wpc' # "exited" => Kept(Owned', registry', finishing', A2, B2)
             /\ wpc' \notin {"handshake", "wait"}
  <2>1. A2 = A /\ B2 = B /\ held' = held /\ wpc \in {"open_bidi", "open_uni"} /\ cur = <<>>
    BY <1>7, StageCases DEF StageRest, Stage, Classes, A, B, A2, B2, Once
  <2>2. wpc' \notin {"handshake", "wait"}
    BY <1>7, <2>1, StageCases DEF StageStops, StageSkips, StageDeclines, StageOpens
  <2>3. CASE ~StageOpens(c)
    <3>1. UNCHANGED <<cur, materialized, registry, finishing>>
      BY <1>7, <2>3, StageCases DEF StageStops, StageSkips, StageDeclines, StageTakes, openVars
    <3>2. Owned' = Owned
      <4>1. SlotsSame
        BY <1>7, SlotsStay DEF SlotsStaySteps
      <4> QED BY <2>1, <3>1, <4>1, OwnedStep
    <3> QED BY <1>1, <2>1, <2>2, <3>1, <3>2
  <2>4. CASE StageOpens(c)
    <3> DEFINE x == next_id[c]
    <3>1. x \in Nat /\ x \notin materialized
      BY NextIsNew
    <3>2. materialized' = materialized \cup {x} /\ registry' = registry \cup Entries(x)
          /\ finishing' = finishing /\ slot' = slot
      BY <2>4 DEF StageOpens, StageTakes
    <3>3. Owned' = Owned \cup {x}
      <4>1. SlotsSame
        BY <3>2 DEF SlotsSame
      <4> QED BY <2>1, <2>4, <4>1, OwnedStep
    <3> HIDE DEF x
    <3>4. x \notin finishing /\ x \notin A /\ x \notin B
      BY <1>1, <3>1
    <3>5. Kept(Owned', registry', finishing', A2, B2)
      BY <1>1, <1>3, <2>1, <3>1, <3>2, <3>3, <3>4, KeptOpen
    <3> QED BY <1>1, <2>1, <2>2, <3>2, <3>5
  <2> QED BY <2>3, <2>4
<1>8. ASSUME NEW G \in SUBSET Owned, NEW cs \in Seq(Cmds), Send(cs),
             Range(cs) = UNION {Range(HandoffCleanup(id)) : id \in G},
             Owned' = Owned \ G, registry' \subseteq registry,
             \A e \in registry : e \in registry' \/ e[1] \in G,
             UNCHANGED <<finishing, materialized>>, wpc' = "exited" <=> wpc = "exited"
      PROVE  /\ finishing' \subseteq materialized' /\ A2 \subseteq materialized' /\ B2 \subseteq materialized'
             /\ wpc' # "exited" => Kept(Owned', registry', finishing', A2, B2)
  <2>1. G \in SUBSET Nat /\ G \subseteq materialized
    BY <1>3
  <2>2. CASE wpc = "exited"
    <3>1. cmd' = cmd
      BY <1>8, <2>1, <2>2, CleaningSent
    <3> QED BY <1>1, <1>8, <2>2, <3>1 DEF A, B, A2, B2
  <2>3. CASE wpc # "exited"
    <3>1. A2 = A \cup G /\ B2 = B \cup {id \in G : ClassOf(id) = "bidi"}
      BY <1>8, <2>1, <2>3, CleaningSent DEF A, B, A2, B2
    <3>2. Kept(Owned \ G, registry', finishing, A \cup G, B \cup {id \in G : ClassOf(id) = "bidi"})
      BY <1>1, <1>3, <1>8, <2>3, KeptRelease
    <3>3. Kept(Owned', registry', finishing', A2, B2)
      BY <1>8, <3>1, <3>2
    <3> QED BY <1>1, <1>8, <2>1, <3>1, <3>3
  <2> QED BY <2>2, <2>3
<1>9. CASE deliver
  <2>1. UNCHANGED <<finishing, materialized>> /\ wpc = "reply" /\ cur[2] \in Nat
        /\ cur[1][2] \in Classes /\ wpc' = Stage[cur[1][2]]
    BY <1>9, ReqTypes DEF deliver
  <2>2. wpc' \in {"open_bidi", "open_uni"}
    BY <2>1 DEF Stage, Classes
  <2>3. CASE ~Cancelled(cur[1])
    <3>1. UNCHANGED <<cmd, registry>> /\ Owned' = Owned
      BY <1>9, <2>3, OwnedStep DEF deliver
    <3> QED BY <1>1, <2>1, <2>2, <3>1 DEF A, B, A2, B2
  <2>4. CASE Cancelled(cur[1])
    <3>1. Owned' = Owned \ {cur[2]} /\ cur[2] \in Owned
      BY <1>9, <2>4, OwnedStep
    <3>2. Send(HandoffCleanup(cur[2])) /\ registry' = registry \ Entries(cur[2])
      BY <1>9, <2>4 DEF deliver
    <3>3. HandoffCleanup(cur[2]) \in Seq(Cmds)
      BY <2>1, Cleanups
    <3>4. Range(HandoffCleanup(cur[2])) = UNION {Range(HandoffCleanup(id)) : id \in {cur[2]}}
      OBVIOUS
    <3>5. \A e \in registry : e \in registry' \/ e[1] \in {cur[2]}
      BY <1>3, <2>1, <3>2, EntryFacts
    <3>6. {cur[2]} \in SUBSET Owned /\ registry' \subseteq registry /\ wpc' # "exited" /\ wpc # "exited"
      BY <2>1, <2>2, <3>1, <3>2
    <3> HIDE DEF HandoffCleanup
    <3>7. /\ finishing' \subseteq materialized' /\ A2 \subseteq materialized' /\ B2 \subseteq materialized'
          /\ wpc' # "exited" => Kept(Owned', registry', finishing', A2, B2)
      BY <1>8, <2>1, <3>1, <3>2, <3>3, <3>4, <3>5, <3>6
    <3> QED BY <2>2, <3>7
  <2> QED BY <2>3, <2>4
<1>10. CASE finish_iteration
  <2> DEFINE V == {id \in finishing : <<id, "recv">> \notin registry}
  <2>1. /\ finishing' = finishing \ V /\ registry' = registry \ {<<id, "send">> : id \in V}
        /\ UNCHANGED <<cmd, materialized, cur, held, slot>> /\ wpc = "finish"
    BY <1>10 DEF finish_iteration, frontVars
  <2>2. Owned' = Owned /\ A2 = A /\ B2 = B
    <3>1. SlotsSame
      BY <2>1 DEF SlotsSame
    <3> QED BY <2>1, <3>1, OwnedStep DEF A, B, A2, B2
  <2>3. Kept(Owned, registry', finishing', A, B)
    <3>1. V \in SUBSET finishing
      OBVIOUS
    <3> HIDE DEF V
    <3> QED BY <1>1, <1>3, <2>1, <3>1, KeptReclaim
  <2>4. \A id \in finishing' : <<id, "recv">> \in registry'
    <3>1. \A id \in finishing' : <<id, "recv">> \in registry
      BY <2>1
    <3>2. \A id, v : <<id, "recv">> # <<v, "send">>
      OBVIOUS
    <3> QED BY <2>1, <3>1, <3>2
  <2> QED BY <1>1, <2>1, <2>2, <2>3, <2>4
<1>11. CASE drain_on_close
  <2>1. finishing' = {} /\ cmd' = <<>> /\ wpc' = "exited"
    BY <1>11 DEF drain_on_close
  <2>2. A2 = {} /\ B2 = {}
    BY <2>1 DEF A2, B2, Cleaning, Range
  <2> QED BY <2>1, <2>2
<1>12. CASE Frontend
  <2>1. UNCHANGED <<wpc, registry, finishing, materialized, cur>>
    BY <1>12, FrontendFrame DEF workerVars, openVars
  <2>2. ASSUME A2 = A, B2 = B, Owned' = Owned
        PROVE  /\ finishing' \subseteq materialized' /\ A2 \subseteq materialized' /\ B2 \subseteq materialized'
               /\ wpc' # "exited" => Kept(Owned', registry', finishing', A2, B2)
    BY <1>1, <2>1, <2>2
  <2>3. ASSUME NEW o \in Openers, DropSlots(o)
        PROVE  /\ finishing' \subseteq materialized' /\ A2 \subseteq materialized' /\ B2 \subseteq materialized'
               /\ wpc' # "exited" => Kept(Owned', registry', finishing', A2, B2)
    <3>1. PICK cs \in Seq(Cmds) :
            Send(cs) /\ Range(cs) = UNION {Range(HandoffCleanup(id)) : id \in Unpolled(o)}
      BY <2>3, DropSlotsCase
    <3>2. Owned' = Owned \ Unpolled(o) /\ Unpolled(o) \in SUBSET Owned
      BY <2>3, OwnedStep
    <3> QED BY <1>8, <2>1, <3>1, <3>2
  <2>4. ASSUME NEW id \in held, StreamDrop(id)
        PROVE  /\ finishing' \subseteq materialized' /\ A2 \subseteq materialized' /\ B2 \subseteq materialized'
               /\ wpc' # "exited" => Kept(Owned', registry', finishing', A2, B2)
    <3>1. Owned' = Owned \ {id} /\ {id} \in SUBSET Owned
      BY <2>4, OwnedStep
    <3>2. Send(HandoffCleanup(id)) /\ HandoffCleanup(id) \in Seq(Cmds)
      BY <1>3, <2>4, <3>1, Cleanups DEF StreamDrop
    <3>3. Range(HandoffCleanup(id)) = UNION {Range(HandoffCleanup(x)) : x \in {id}}
      OBVIOUS
    <3> QED BY <1>8, <2>1, <3>1, <3>2, <3>3
  <2>5. ASSUME NEW o \in Openers, NEW c \in Classes, poll_reply(o, c)
        PROVE  A2 = A /\ B2 = B /\ Owned' = Owned
    BY <2>5, OwnedStep DEF poll_reply, A, B, A2, B2
  <2>6. ASSUME NEW o \in Openers, NEW c \in Classes, Submit(o, c)
        PROVE  A2 = A /\ B2 = B
    <3>1. OpenCmd(o, c) \in Cmds /\ OpenCmd(o, c).op = "Open"
      BY CmdMakers
    <3>2. cmd' = cmd \/ Range(cmd') = Range(cmd) \cup {OpenCmd(o, c)}
      <4>1. Range(Append(cmd, OpenCmd(o, c))) = Range(cmd) \cup {OpenCmd(o, c)}
        BY <1>3, <3>1, AppendElems
      <4> QED BY <2>6, <4>1 DEF Submit
    <3> QED BY <3>1, <3>2 DEF A, B, A2, B2, Cleaning
  <2>7. ASSUME NEW o \in Openers, close(o)
        PROVE  A2 = A /\ B2 = B
    <3>1. CloseCmd(closes + 1) \in Cmds /\ CloseCmd(closes + 1).op = "Close"
      BY CmdMakers DEF TypeOK, TypeFront
    <3> DEFINE cs == <<CloseCmd(closes + 1)>>
    <3>2. cs \in Seq(Cmds) /\ Range(cs) = {CloseCmd(closes + 1)}
      BY <3>1 DEF Range
    <3>3. Send(cs)
      BY <2>7 DEF close
    <3> HIDE DEF cs
    <3>4. Range(cmd) \subseteq Range(cmd') /\ Range(cmd') \subseteq Range(cmd) \cup {CloseCmd(closes + 1)}
      BY <3>2, <3>3, SendElems
    <3> QED BY <3>1, <3>4 DEF A, B, A2, B2, Cleaning
  <2>8. ASSUME into_established_connection \/ AbandonSetup
                 \/ \E o \in Openers : \/ Clone(o) \/ DropSender(o)
                                       \/ \E c \in Classes : poll_open(o, c)
        PROVE  A2 = A /\ B2 = B
    BY <2>8 DEF into_established_connection, AbandonSetup, Clone, DropSender, poll_open, A, B, A2, B2
  <2>9. ASSUME into_established_connection \/ AbandonSetup
                 \/ \E o \in Openers : \/ Clone(o) \/ DropSender(o) \/ close(o)
                                       \/ \E c \in Classes : poll_open(o, c) \/ Submit(o, c)
        PROVE  Owned' = Owned
    <3>1. SlotsSame /\ held' = held
      BY <2>9, SlotsStay DEF SlotsStaySteps
    <3> QED BY <2>1, <3>1, OwnedStep
  <2>10. /\ finishing' \subseteq materialized' /\ A2 \subseteq materialized' /\ B2 \subseteq materialized'
         /\ wpc' # "exited" => Kept(Owned', registry', finishing', A2, B2)
    BY <1>12, <2>2, <2>3, <2>4, <2>5, <2>6, <2>7, <2>8, <2>9 DEF Frontend
  <2> QED BY <1>1, <2>1, <2>10
<1> QED BY <1>5, <1>6, <1>7, <1>9, <1>10, <1>11, <1>12 DEF Next, Worker, Frontend

-----------------------------------------------------------------------------
(* The invariant.                                                          *)

\* It holds at the start.
LEMMA InitInv == Init => IInv
<1> SUFFICES ASSUME Init PROVE IInv
  OBVIOUS
<1>1. TypeOK
  BY InitTypes
<1>2. /\ \A o \in Openers, c \in Classes : slot[o][c] = Idle /\ opener[o] = "none"
      /\ \A c \in Classes : open[c] = <<>>
      /\ cmd = <<>> /\ cur = <<>> /\ wpc = "handshake" /\ est = "none"
  BY DEF Init
<1>3. Idle.st = "none" /\ Idle.id = None
  BY DEF Idle, Slot
<1>4. Range(<<>>) = {} /\ DOMAIN <<>> = {}
  BY DEF Range
<1>5. Opened(cmd) = {} /\ Range(open["bidi"]) = {} /\ Range(open["uni"]) = {} /\ Outstanding = {}
  BY <1>2, <1>4 DEF Opened, Outstanding, Classes
<1> HIDE DEF Idle
<1>6. Front
  <2>1. \A o \in Openers, c \in Classes :
          GoodSlot(slot[o][c], opener[o], <<o, c>> \in Outstanding)
    BY <1>2, <1>3, <1>5 DEF GoodSlot
  <2> QED BY <1>2, <2>1 DEF Front, Init
<1>7. Once
  BY <1>2, <1>4, <1>5 DEF Once, Distinct
<1>8. Orphan
  BY DEF Init, Orphan
<1>9. Closes
  <2>1. FirstIsOne(cmd) /\ Range(cmd) = {}
    BY <1>2, <1>4 DEF FirstIsOne
  <2>2. /\ explicit_close_attempted = FALSE /\ calls = 0 /\ pending_close = None
        /\ local_close = None /\ closes = 0
    BY DEF Init
  <2>3. None # 1
    BY DEF None
  <2> QED BY <2>1, <2>2, <2>3 DEF Closes
<1>10. Cause
  BY <1>2, <1>3 DEF Init, Cause
<1>11. Dense
  <2>1. materialized = {} /\ next_id = Seed
    BY DEF Init
  <2>2. \A c \in Classes : MaterializedIn(c) = {}
    BY <2>1 DEF MaterializedIn
  <2>3. IsFiniteSet({}) /\ Cardinality({}) = 0
    BY FS_EmptySet
  <2>4. 0..(0 - 1) = {}
    OBVIOUS
  <2>5. \A c \in Classes : Seed[c] \in Nat
    BY IdClass
  <2> QED BY <2>1, <2>2, <2>3, <2>4, <2>5 DEF Dense
<1>12. Owners
  BY <1>2, <1>3 DEF Init, Owners
<1>13. Halves
  <2>1. finishing = {} /\ registry = {} /\ materialized = {}
    BY DEF Init
  <2>2. Cleaning(cmd, "Finish") = {} /\ Cleaning(cmd, "StopSending") = {}
    BY <1>2, <1>4 DEF Cleaning
  <2>3. Owned = {}
    BY <2>1 DEF Owned
  <2> QED BY <2>1, <2>2, <2>3 DEF Halves, Kept
<1> QED BY <1>1, <1>6, <1>7, <1>8, <1>9, <1>10, <1>11, <1>12, <1>13 DEF IInv

\* Every step keeps it.
LEMMA StepInv == IInv /\ [Next]_vars => IInv'
<1> SUFFICES ASSUME IInv, [Next]_vars PROVE IInv'
  OBVIOUS
<1>1. CASE Next
  BY <1>1, StepTypes, StepFront, StepOnce, StepOrphan, StepCloses, StepCause, StepDense,
     StepOwners, StepHalves DEF IInv
<1>2. CASE UNCHANGED vars
  <2> USE <1>2 DEF vars, quicheVars, openVars, closeVars, frontVars
  <2>1. TypeOK'
    BY DEF IInv, TypeOK, TypeQuiche, TypeWorker, TypeClose, TypeFront
  <2>2. Front'
    BY DEF IInv, Front, Outstanding
  <2>3. Once'
    BY DEF IInv, Once
  <2>4. Orphan'
    BY DEF IInv, Orphan, HasHandles
  <2>5. Closes'
    BY DEF IInv, Closes, Seen
  <2>6. Cause'
    BY DEF IInv, Cause, classify_conn_terminal, Closing
  <2>7. Dense'
    BY DEF IInv, Dense, MaterializedIn
  <2>8. Owners'
    BY DEF IInv, Owners, InSlot
  <2>9. Halves'
    BY DEF IInv, Halves, Owned, InSlot
  <2> QED BY <2>1, <2>2, <2>3, <2>4, <2>5, <2>6, <2>7, <2>8, <2>9 DEF IInv
<1> QED BY <1>1, <1>2

\* The inductive invariant holds in every behaviour of the connection.
THEOREM Invariant == Spec => []IInv
<1>1. Init => IInv
  BY InitInv
<1>2. IInv /\ [Next]_vars => IInv'
  BY StepInv
<1> QED BY <1>1, <1>2, PTL DEF Spec

\* The state of a connection keeps its types.
THEOREM TypeCorrect == Spec => []TypeOK
<1>1. IInv => TypeOK
  BY DEF IInv
<1> QED BY <1>1, Invariant, PTL

\* qconn.close is called at most once, for the first Close sent; the synthetic
\* close of the last handle is used only if nobody sent one.
THEOREM TheFirstCloseIsApplied == Spec => []FirstCloseWins
<1>1. IInv => FirstCloseWins
  BY DEF IInv, TypeOK, TypeClose, Closes, FirstCloseWins, H3_NO_ERROR
<1> QED BY <1>1, Invariant, PTL

\* Every poll_open_* that fails, before, during or after the end, is told the
\* one cause that was published, and it is the right one.
THEOREM EveryoneIsToldTheCause == Spec => []TellsTheCause
<1>1. IInv => TellsTheCause
  <2> SUFFICES ASSUME IInv PROVE TellsTheCause
    OBVIOUS
  <2>1. TypeOK /\ Cause
    BY DEF IInv
  <2>2. told \subseteq {to_h3(conn_terminal)}
    BY <2>1 DEF Cause
  <2>3. told # {} => to_h3(conn_terminal) = to_h3(classify_conn_terminal) /\ (Closing \/ close_bug)
    BY <2>1 DEF Cause
  <2>4. /\ to_h3(classify_conn_terminal) = "ApplicationClose" <=> (~close_bug /\ peer_error = "app")
        /\ to_h3(classify_conn_terminal) = "InternalError" => close_bug \/ ~Closing
    BY <2>1, Classified
  <2> HIDE DEF to_h3, classify_conn_terminal, Closing
  <2> QED BY <2>2, <2>3, <2>4 DEF TellsTheCause
<1> QED BY <1>1, Invariant, PTL

\* The ids given to quiche are consecutive in each class, and a stream that was
\* opened has one owner.
THEOREM IdsAreDenseAndOwnedOnce == Spec => []IdsDense
<1>1. IInv => IdsDense
  <2> SUFFICES ASSUME IInv PROVE IdsDense
    OBVIOUS
  <2>1. TypeOK /\ Front /\ Dense /\ Owners
    BY DEF IInv
  <2>2. \A o \in Openers, c \in Classes : slot[o][c].st = "ok" <=> slot[o][c].id # None
    BY <2>1 DEF Front, GoodSlot
  <2>3. GivenOut \cap held = {}
    BY <2>1, <2>2 DEF GivenOut, Owners
  <2>4. \A o, p \in Openers, c, d \in Classes :
          (slot[o][c].st = "ok" /\ slot[o][c].id = slot[p][d].id) => o = p /\ c = d
    BY <2>1, <2>2 DEF Owners
  <2> QED BY <2>1, <2>3, <2>4 DEF IdsDense, Dense
<1> QED BY <1>1, Invariant, PTL

\* With no command left to apply, the registry has the halves of the streams
\* somebody owns and no other.
THEOREM HalvesDoNotLeak == Spec => []NoLeakedHalf
<1>1. IInv => NoLeakedHalf
  <2> SUFFICES ASSUME IInv, wpc = "wait", cmd = <<>>
               PROVE  registry = UNION {Entries(id) : id \in held \cup GivenOut}
    BY DEF NoLeakedHalf
  <2>1. TypeOK /\ Front /\ Once /\ Owners /\ Halves
    BY DEF IInv
  <2>2. cur = <<>>
    BY <2>1 DEF Once
  <2>3. \A o \in Openers, c \in Classes : slot[o][c].st = "ok" <=> slot[o][c].id # None
    BY <2>1 DEF Front, GoodSlot
  <2>4. \A id : id \in GivenOut <=> InSlot(id)
    BY <2>3 DEF GivenOut, InSlot
  <2>5. held \subseteq materialized /\ \A id : InSlot(id) => id \in materialized
    BY <2>1 DEF Owners, InSlot
  <2>6. Owned = held \cup GivenOut
    BY <2>2, <2>4, <2>5 DEF Owned
  <2>7. Cleaning(cmd, "Finish") = {} /\ Cleaning(cmd, "StopSending") = {}
    BY DEF Cleaning, Range
  <2>8. Kept(Owned, registry, finishing, {}, {})
    BY <2>1, <2>7 DEF Halves
  <2>9. \A id \in finishing : <<id, "recv">> \in registry
    BY <2>1 DEF Halves
  <2>10. registry \subseteq Nat \X Halfs /\ Owned \subseteq Nat
    BY <2>1 DEF TypeOK, TypeWorker, TypeFront, Halfs, Owned
  <2>11. finishing = {}
    <3> SUFFICES ASSUME NEW id \in finishing PROVE FALSE
      OBVIOUS
    <3>1. <<id, "recv">> \in registry /\ <<id, "recv">>[1] = id /\ <<id, "recv">>[2] = "recv"
      BY <2>9
    <3>2. id \in Owned
      BY <2>8, <3>1 DEF Kept
    <3> QED BY <2>8, <3>2 DEF Kept
  <2>12. \A e \in registry : e[1] \in Owned /\ e[2] \in Dirs(ClassOf(e[1]))
    BY <2>8, <2>11 DEF Kept
  <2>13. \A e \in registry : e[1] \in Owned /\ e \in Entries(e[1])
    BY <2>10, <2>12, EntryFacts
  <2>14. \A id \in Owned : Entries(id) \subseteq registry
    BY <2>8 DEF Kept
  <2> HIDE DEF Entries
  <2> QED BY <2>6, <2>13, <2>14
<1> QED BY <1>1, Invariant, PTL
=============================================================================
