-------------------------- MODULE AdmissionProofs --------------------------
(***************************************************************************)
(* Admission of peer streams, for every set of streams, every channel      *)
(* capacity and every budget.  The inductive invariant has these parts:    *)
(*   - Nudged: what wakes the worker for a parked stream;                  *)
(*   - Sealed: the terminal is published before the channels close;        *)
(*   - Places: one id, one place, and everything in it was found;          *)
(*   - Ends: how a direction comes to its end, up to the point where the   *)
(*     stream is forgotten, and why no cursor returns it afterwards;       *)
(*   - Paired: the Finish of a bidi stream goes before its StopSending;    *)
(*   - Aged: the queues of a class are in the order of discovery.          *)
(* Places, Ends, StopKept and Aged are for a quiche without late stops,    *)
(* which is the premise of contract A.                                     *)
(***************************************************************************)
EXTENDS Admission, FiniteSetTheorems, TLAPS

Of(c) == IF c = "bidi" THEN Bidi ELSE Uni

Cmds == [op : {"AcceptResume"}, arg : Classes] \cup [op : {"ConnectionDropped"}, arg : {"bidi"}]
          \cup [op : {"StopSending"}, arg : Streams] \cup [op : {"Finish"}, arg : Bidi]

Queues == {q \in [Classes -> Seq(Streams)] : \A c \in Classes : Range(q[c]) \subseteq Of(c)}

TypeQuiche ==
  /\ opened \subseteq Streams /\ stopped \subseteq Bidi
  /\ readable \subseteq opened /\ writable \subseteq Bidi
  /\ closed \in [Streams -> SUBSET {"recv", "send"}]
  /\ \A s \in Streams : closed[s] \subseteq Dirs(s)

TypeWorker ==
  /\ wpc \in {"wait", "intake", "phase2", "promote", "retry", "apply", "writable", "send",
              "closed", "exited"}
  /\ packet \in BOOLEAN /\ left \in Nat /\ needs_iteration \in BOOLEAN
  /\ pending_admit \subseteq Streams /\ retained \subseteq stopped /\ finishing \subseteq Bidi
  /\ pending \in Queues /\ parked \in Queues /\ found \in Queues
  /\ admit \in [Streams -> {"none", "parked", "registered"}]
  /\ done \in [Streams -> SUBSET {"recv", "send"}]
  /\ \A s \in Streams : done[s] \subseteq Dirs(s)
  /\ blocked \subseteq Classes /\ prefer \in Classes

TypeShared ==
  /\ accept \in Queues /\ resume \in [Classes -> BOOLEAN] /\ cmd \in Seq(Cmds)
  /\ status \in [Streams -> {"open", "stopped"}] /\ terminal \in BOOLEAN

TypeFront ==
  /\ apc \in {"idle", "signal", "nudge", "terminal", "recheck", "closed"} /\ acls \in Classes
  /\ conn \in {"live", "dropping", "rx_bidi", "dropped"}
  /\ told \in [Classes -> {"none", "terminal", "internal"}]
  /\ delivered \subseteq Streams /\ released \subseteq Streams

\* The variables keep their types.
TypeOK == TypeQuiche /\ TypeWorker /\ TypeShared /\ TypeFront

\* The acceptor or the channel of commands has the nudge for class c.
OnItsWay(c) ==
  \/ AcceptResume(c) \in Range(cmd)
  \/ apc = "nudge" /\ acls = c

\* A parked stream has something in front of it in the channel, or its class
\* will be retried.
Nudged ==
  \A c \in Classes :
    parked[c] # <<>> /\ conn = "live" /\ wpc \notin {"closed", "exited"} =>
      /\ \/ accept[c] # <<>> \/ OnItsWay(c) \/ (apc = "signal" /\ acls = c)
         \/ resume[c] \/ (wpc = "retry" /\ prefer = c /\ left > 0)
      /\ wpc = "wait" /\ resume[c] => needs_iteration \/ OnItsWay(c)

\* The worker publishes the terminal when it stops, and an acceptor that is
\* about to report it has seen it.
Sealed ==
  /\ terminal <=> wpc \in {"closed", "exited"}
  /\ apc = "recheck" => terminal
  /\ apc = "closed" => wpc = "exited" /\ accept[acls] = <<>>
  /\ \A c \in Classes : told[c] # "none" => terminal /\ told[c] = "terminal" /\ accept[c] = <<>>

Somewhere(s) ==
  s \in Queued(pending) \/ s \in Queued(parked) \/ s \in Queued(accept) \/ s \in delivered

AllInjective(q) == \A c \in Classes : IsInjective(q[c])

\* A found stream is in one of the four places, once.
Places ==
  /\ AllInjective(pending) /\ AllInjective(parked) /\ AllInjective(accept) /\ AllInjective(found)
  /\ pending_admit = Queued(pending) /\ Parked = Queued(parked)
  /\ \A s \in pending_admit : admit[s] = "none"
  /\ \A s \in Queued(accept) : s \notin pending_admit /\ admit[s] # "parked" /\ s \notin delivered
  /\ \A s \in delivered : s \notin pending_admit /\ admit[s] # "parked"
  /\ \A s \in Streams : Somewhere(s) \/ admit[s] # "none" => s \in Found
  /\ \A s \in Found : Somewhere(s) \/ closed[s] = Dirs(s) \/ ~RxOpen(Class(s))
  /\ retained \subseteq pending_admit \cup Parked

\* The worker has forgotten the stream.
Gone(s) == s \in Found /\ admit[s] = "none" /\ s \notin pending_admit

\* What quiche and the commands refer to is known, or was made known by a packet.
Grounds ==
  /\ Found \subseteq opened \cup stopped /\ writable \subseteq opened \cup stopped
  /\ finishing \subseteq Found /\ (wpc = "wait" => finishing = {})
  /\ \A m \in Range(cmd) : m.op \in {"Finish", "StopSending"} => m.arg \in Found

\* The end of a direction of s.  A forgotten stream is on no cursor.
EndOf(s) ==
  /\ closed[s] # {} => s \in Found
  /\ "recv" \in done[s] => "recv" \in closed[s]
  /\ "recv" \in closed[s] => s \notin readable
  /\ "recv" \in closed[s] /\ s \in Bidi => "send" \in closed[s] \/ s \in finishing
  /\ "send" \in done[s] => "send" \in closed[s] \/ (s \in stopped /\ status[s] = "stopped")
  /\ "send" \in done[s] \/ s \in retained \/ "send" \in closed[s] => s \notin writable
  /\ Gone(s) => s \notin readable /\ s \notin writable /\ "recv" \in closed[s]

Ends == Grounds /\ \A s \in Streams : EndOf(s)

\* In a sequence of commands the Finish of a bidi stream is before its
\* StopSending, unless it is among those that were taken.
FinishFirst(q, taken) ==
  \A i \in DOMAIN q :
    q[i].op = "StopSending" /\ q[i].arg \in Bidi \ taken =>
      \E j \in 1..i : q[j].op = "Finish" /\ q[j].arg = q[i].arg

Taken == finishing \cup {s \in Bidi : "send" \in closed[s]}

Paired == FinishFirst(cmd, Taken)
\* What is in q is in the order of f.
Ordered(q, f) ==
  \A i, j \in DOMAIN f, k, n \in DOMAIN q : q[k] = f[i] /\ q[n] = f[j] /\ i < j => k < n

\* The queues q (pending) and p (parked) are in the order of discovery f, and
\* what is parked was found before what is pending.
AgedIn(q, p, f) ==
  /\ Ordered(q, f) /\ Ordered(p, f)
  /\ \A i, j \in DOMAIN f : i < j /\ f[j] \in Range(p) => f[i] \notin Range(q)

Aged == \A c \in Classes : AgedIn(pending[c], parked[c], found[c])

\* The part that does not depend on the premise of contract A.
BaseInv == TypeOK /\ Nudged /\ Sealed

IInv == BaseInv /\ Places /\ Ends /\ Paired /\ StopKept /\ Aged

-----------------------------------------------------------------------------
(* Sequences and queues.                                                   *)

\* What the elements of a sequence become when one is added at the end.
LEMMA AppendElems ==
  ASSUME NEW S, NEW q \in Seq(S), NEW x \in S
  PROVE  /\ Append(q, x) \in Seq(S) /\ Len(Append(q, x)) = Len(q) + 1 /\ Len(q) \in Nat
         /\ DOMAIN q = 1..Len(q) /\ DOMAIN Append(q, x) = 1..(Len(q) + 1)
         /\ \A i \in 1..Len(q) : Append(q, x)[i] = q[i]
         /\ Append(q, x)[Len(q) + 1] = x
         /\ Range(Append(q, x)) = Range(q) \cup {x}
<1>1. Append(q, x) \in Seq(S) /\ Len(Append(q, x)) = Len(q) + 1 /\ Len(q) \in Nat
  OBVIOUS
<1>2. \A i \in 1..Len(q) : Append(q, x)[i] = q[i] /\ i \in 1..(Len(q) + 1)
  OBVIOUS
<1>3. Append(q, x)[Len(q) + 1] = x /\ Len(q) + 1 \in 1..(Len(q) + 1)
  OBVIOUS
<1>4. \A i \in 1..(Len(q) + 1) : i \in 1..Len(q) \/ i = Len(q) + 1
  BY <1>1
<1>5. DOMAIN q = 1..Len(q) /\ DOMAIN Append(q, x) = 1..(Len(q) + 1)
  BY <1>1
<1>6. Range(Append(q, x)) \subseteq Range(q) \cup {x}
  BY <1>2, <1>3, <1>4, <1>5 DEF Range
<1>7. Range(q) \subseteq Range(Append(q, x))
  BY <1>2, <1>5 DEF Range
<1>8. x \in Range(Append(q, x))
  BY <1>3, <1>5 DEF Range
<1> QED BY <1>1, <1>2, <1>3, <1>5, <1>6, <1>7, <1>8

\* The same for a concatenation.
LEMMA ConcatElems ==
  ASSUME NEW S, NEW q \in Seq(S), NEW t \in Seq(S)
  PROVE  /\ q \o t \in Seq(S) /\ Len(q \o t) = Len(q) + Len(t) /\ Len(q) \in Nat /\ Len(t) \in Nat
         /\ DOMAIN q = 1..Len(q) /\ DOMAIN t = 1..Len(t) /\ DOMAIN (q \o t) = 1..(Len(q) + Len(t))
         /\ \A i \in 1..Len(q) : (q \o t)[i] = q[i]
         /\ \A i \in 1..(Len(q) + Len(t)) :
              i \notin 1..Len(q) => i - Len(q) \in 1..Len(t) /\ (q \o t)[i] = t[i - Len(q)]
         /\ Range(q \o t) = Range(q) \cup Range(t)
<1>1. q \o t \in Seq(S) /\ Len(q \o t) = Len(q) + Len(t) /\ Len(q) \in Nat /\ Len(t) \in Nat
  OBVIOUS
<1>2. \A i \in 1..Len(q) : (q \o t)[i] = q[i]
  OBVIOUS
<1>3. \A i \in 1..Len(t) : (q \o t)[i + Len(q)] = t[i]
  OBVIOUS
<1>4. \A i \in 1..(Len(q) + Len(t)) :
        i \notin 1..Len(q) => i - Len(q) \in 1..Len(t) /\ i = (i - Len(q)) + Len(q)
  BY <1>1
<1>5. \A i \in 1..(Len(q) + Len(t)) :
        i \notin 1..Len(q) => i - Len(q) \in 1..Len(t) /\ (q \o t)[i] = t[i - Len(q)]
  BY <1>3, <1>4
<1>6. DOMAIN q = 1..Len(q) /\ DOMAIN t = 1..Len(t) /\ DOMAIN (q \o t) = 1..(Len(q) + Len(t))
  BY <1>1
<1>7. Range(q \o t) \subseteq Range(q) \cup Range(t)
  BY <1>2, <1>5, <1>6 DEF Range
<1>8. Range(q) \subseteq Range(q \o t)
  <2>1. \A i \in 1..Len(q) : i \in 1..(Len(q) + Len(t))
    BY <1>1
  <2> QED BY <1>2, <1>6, <2>1 DEF Range
<1>9. Range(t) \subseteq Range(q \o t)
  <2>1. \A i \in 1..Len(t) : i + Len(q) \in 1..(Len(q) + Len(t))
    BY <1>1
  <2> QED BY <1>3, <1>6, <2>1 DEF Range
<1> QED BY <1>1, <1>2, <1>5, <1>6, <1>7, <1>8, <1>9

\* The same when the first element is taken.
LEMMA TailElems ==
  ASSUME NEW S, NEW q \in Seq(S), q # <<>>
  PROVE  /\ Head(q) \in S /\ Tail(q) \in Seq(S) /\ Head(q) = q[1]
         /\ Len(q) \in Nat \ {0} /\ Len(Tail(q)) = Len(q) - 1
         /\ DOMAIN q = 1..Len(q) /\ DOMAIN Tail(q) = 1..(Len(q) - 1)
         /\ \A i \in 1..(Len(q) - 1) : Tail(q)[i] = q[i + 1] /\ i + 1 \in 1..Len(q)
         /\ Head(q) \in Range(q) /\ Range(q) = {Head(q)} \cup Range(Tail(q))
         /\ IsInjective(q) => IsInjective(Tail(q)) /\ Range(Tail(q)) = Range(q) \ {Head(q)}
<1>1. Head(q) = q[1] /\ Head(q) \in S /\ Len(q) \in Nat \ {0} /\ 1 \in DOMAIN q
  OBVIOUS
<1>2. Tail(q) \in Seq(S) /\ Len(Tail(q)) = Len(q) - 1
  OBVIOUS
<1>3. \A i \in 1..(Len(q) - 1) : Tail(q)[i] = q[i + 1] /\ i + 1 \in 1..Len(q)
  BY <1>1
<1>4. \A i \in 1..Len(q) : i = 1 \/ (i - 1 \in 1..(Len(q) - 1) /\ (i - 1) + 1 = i)
  BY <1>1
<1>5. DOMAIN q = 1..Len(q) /\ DOMAIN Tail(q) = 1..(Len(q) - 1)
  BY <1>1, <1>2
<1>6. Range(Tail(q)) \subseteq Range(q)
  BY <1>3, <1>5 DEF Range
<1>7. Range(q) \subseteq {Head(q)} \cup Range(Tail(q))
  <2> SUFFICES ASSUME NEW i \in 1..Len(q), i # 1
               PROVE  q[i] \in Range(Tail(q))
    BY <1>1, <1>5 DEF Range
  <2>1. i - 1 \in 1..(Len(q) - 1) /\ (i - 1) + 1 = i
    BY <1>4
  <2>2. Tail(q)[i - 1] = q[i] /\ i - 1 \in DOMAIN Tail(q)
    BY <1>3, <1>5, <2>1
  <2> QED BY <2>2 DEF Range
<1>8. Head(q) \in Range(q)
  BY <1>1 DEF Range
<1>9. ASSUME IsInjective(q)
      PROVE  IsInjective(Tail(q)) /\ Head(q) \notin Range(Tail(q))
  <2>1. ASSUME NEW i \in 1..(Len(q) - 1), NEW j \in 1..(Len(q) - 1), Tail(q)[i] = Tail(q)[j]
        PROVE  i = j
    <3>1. q[i + 1] = q[j + 1] /\ i + 1 \in DOMAIN q /\ j + 1 \in DOMAIN q
      BY <1>3, <1>5, <2>1
    <3>2. i + 1 = j + 1
      BY <1>9, <3>1 DEF IsInjective
    <3> QED BY <3>2
  <2>2. \A i \in 1..(Len(q) - 1) : q[i + 1] # q[1]
    <3>1. SUFFICES ASSUME NEW i \in 1..(Len(q) - 1), q[i + 1] = q[1] PROVE FALSE
      OBVIOUS
    <3>2. i + 1 \in DOMAIN q
      BY <1>3, <1>5
    <3>3. i + 1 = 1
      BY <1>1, <1>9, <3>1, <3>2 DEF IsInjective
    <3> QED BY <3>3
  <2>3. Head(q) \notin Range(Tail(q))
    BY <1>1, <1>3, <1>5, <2>2 DEF Range
  <2> QED BY <1>5, <2>1, <2>3 DEF IsInjective
<1> QED BY <1>1, <1>2, <1>3, <1>5, <1>6, <1>7, <1>8, <1>9

\* A concatenation has no duplicates if its parts have none.
LEMMA ConcatInjective ==
  ASSUME NEW S, NEW q \in Seq(S), NEW t \in Seq(S),
         IsInjective(q), IsInjective(t), Range(q) \cap Range(t) = {}
  PROVE  IsInjective(q \o t)
<1>1. /\ Len(q) \in Nat /\ Len(t) \in Nat
      /\ DOMAIN q = 1..Len(q) /\ DOMAIN t = 1..Len(t) /\ DOMAIN (q \o t) = 1..(Len(q) + Len(t))
      /\ \A i \in 1..Len(q) : (q \o t)[i] = q[i]
      /\ \A i \in 1..(Len(q) + Len(t)) :
           i \notin 1..Len(q) => i - Len(q) \in 1..Len(t) /\ (q \o t)[i] = t[i - Len(q)]
  BY ConcatElems
<1> DEFINE r == q \o t
<1> HIDE DEF r
<1>2. /\ \A i \in 1..Len(q) : r[i] = q[i]
      /\ \A i \in 1..(Len(q) + Len(t)) :
           i \notin 1..Len(q) => i - Len(q) \in 1..Len(t) /\ r[i] = t[i - Len(q)]
  BY <1>1 DEF r
<1>3. \A k \in 1..Len(q), n \in 1..Len(t) : q[k] # t[n]
  BY <1>1 DEF Range
<1>4. ASSUME NEW i \in 1..(Len(q) + Len(t)), NEW j \in 1..(Len(q) + Len(t)), r[i] = r[j]
      PROVE  i = j
  <2>1. CASE i \in 1..Len(q) /\ j \in 1..Len(q)
    BY <1>1, <1>2, <1>4, <2>1 DEF IsInjective
  <2>2. CASE i \in 1..Len(q) /\ j \notin 1..Len(q)
    BY <1>2, <1>3, <1>4, <2>2
  <2>3. CASE i \notin 1..Len(q) /\ j \in 1..Len(q)
    BY <1>2, <1>3, <1>4, <2>3
  <2>4. CASE i \notin 1..Len(q) /\ j \notin 1..Len(q)
    <3>1. /\ i - Len(q) \in DOMAIN t /\ j - Len(q) \in DOMAIN t
          /\ t[i - Len(q)] = t[j - Len(q)]
      BY <1>1, <1>2, <1>4, <2>4
    <3>2. i - Len(q) = j - Len(q)
      BY <3>1 DEF IsInjective
    <3> QED BY <1>1, <3>2
  <2> QED BY <2>1, <2>2, <2>3, <2>4
<1> QED BY <1>1, <1>4 DEF IsInjective, r

\* The two classes.
LEMMA ClassFacts ==
  /\ \A s \in Streams : Class(s) \in Classes /\ s \in Of(Class(s))
  /\ \A c \in Classes : Of(c) \subseteq Streams /\ \A s \in Of(c) : Class(s) = c
  /\ \A c \in Classes : Other(c) \in Classes /\ Other(c) # c /\ \A d \in Classes : d = c \/ d = Other(c)
  /\ \A s \in Streams : /\ "recv" \in Dirs(s) /\ Dirs(s) \subseteq {"recv", "send"}
                        /\ "send" \in Dirs(s) <=> s \in Bidi
  /\ Bidi \subseteq Streams
BY AdmissionAssumption DEF Class, Classes, Of, Other, Streams, Dirs

\* A stream can only be in the queue of its class.
LEMMA QueueFacts ==
  ASSUME NEW q \in Queues
  PROVE  /\ \A c \in Classes : q[c] \in Seq(Streams) /\ Range(q[c]) \subseteq Of(c)
         /\ Queued(q) \subseteq Streams
         /\ \A s : s \in Queued(q) <=> \E c \in Classes : s \in Range(q[c])
         /\ \A s \in Streams : s \in Queued(q) <=> s \in Range(q[Class(s)])
         /\ \A c \in Classes : \A s \in Of(c) : s \in Queued(q) <=> s \in Range(q[c])
<1>1. \A c \in Classes : q[c] \in Seq(Streams) /\ Range(q[c]) \subseteq Of(c)
  BY DEF Queues
<1>2. \A s : s \in Queued(q) <=> \E c \in Classes : s \in Range(q[c])
  BY DEF Queued, Classes
<1>3. \A c \in Classes : \A s \in Of(c) : s \in Queued(q) => s \in Range(q[c])
  BY <1>1, <1>2, ClassFacts
<1> QED BY <1>1, <1>2, <1>3, ClassFacts

\* The queues after one more in the queue of a class.
Pushed(q, c, s) == [q EXCEPT ![c] = Append(@, s)]

\* What that does to them.
LEMMA Push ==
  ASSUME NEW q \in Queues, NEW c \in Classes, NEW s \in Of(c)
  PROVE  /\ Pushed(q, c, s) \in Queues
         /\ Queued(Pushed(q, c, s)) = Queued(q) \cup {s}
         /\ Pushed(q, c, s)[c] = Append(q[c], s)
         /\ \A d \in Classes : d # c => Pushed(q, c, s)[d] = q[d]
         /\ AllInjective(q) /\ s \notin Queued(q) => AllInjective(Pushed(q, c, s))
<1> DEFINE r == Pushed(q, c, s)
<1>1. s \in Streams /\ q \in [Classes -> Seq(Streams)]
  BY ClassFacts DEF Queues
<1>2. r[c] = Append(q[c], s) /\ \A d \in Classes : d # c => r[d] = q[d]
  BY <1>1 DEF Pushed
<1>3. \A d \in Classes : q[d] \in Seq(Streams) /\ Range(q[d]) \subseteq Of(d)
  BY QueueFacts
<1>4. /\ r[c] \in Seq(Streams) /\ Range(r[c]) = Range(q[c]) \cup {s}
      /\ Len(q[c]) \in Nat /\ DOMAIN q[c] = 1..Len(q[c]) /\ DOMAIN r[c] = 1..(Len(q[c]) + 1)
      /\ \A i \in 1..Len(q[c]) : r[c][i] = q[c][i]
      /\ r[c][Len(q[c]) + 1] = s
  BY <1>1, <1>2, <1>3, AppendElems
<1>5. r \in [Classes -> Seq(Streams)]
  BY <1>1 DEF Pushed
<1>6. r \in Queues
  BY <1>2, <1>3, <1>4, <1>5 DEF Queues
<1> HIDE DEF r
<1>7. Queued(r) = Queued(q) \cup {s}
  BY <1>2, <1>4 DEF Queued, Classes
<1>8. ASSUME AllInjective(q), s \notin Queued(q)
      PROVE  AllInjective(r)
  <2>1. \A i \in 1..Len(q[c]) : q[c][i] # s
    <3>1. s \notin Range(q[c])
      BY <1>8, QueueFacts
    <3> QED BY <1>4, <3>1 DEF Range
  <2>2. \A i \in 1..(Len(q[c]) + 1) : i \in 1..Len(q[c]) \/ i = Len(q[c]) + 1
    BY <1>4
  <2>3. IsInjective(q[c])
    BY <1>8 DEF AllInjective
  <2>4. IsInjective(r[c])
    BY <1>4, <2>1, <2>2, <2>3 DEF IsInjective
  <2> QED BY <1>2, <1>8, <2>4 DEF AllInjective
<1> QED BY <1>2, <1>6, <1>7, <1>8 DEF r

\* The queues after the oldest one of a class was taken.
Popped(q, c) == [q EXCEPT ![c] = Tail(@)]

\* What that does to them.
LEMMA Pop1 ==
  ASSUME NEW q \in Queues, NEW c \in Classes, q[c] # <<>>
  PROVE  /\ Popped(q, c) \in Queues
         /\ Head(q[c]) \in Of(c) /\ Head(q[c]) \in Streams /\ Head(q[c]) \in Queued(q)
         /\ Class(Head(q[c])) = c
         /\ Popped(q, c)[c] = Tail(q[c])
         /\ \A d \in Classes : d # c => Popped(q, c)[d] = q[d]
         /\ Queued(Popped(q, c)) \subseteq Queued(q)
         /\ Queued(q) = Queued(Popped(q, c)) \cup {Head(q[c])}
         /\ AllInjective(q) => /\ AllInjective(Popped(q, c))
                               /\ Queued(Popped(q, c)) = Queued(q) \ {Head(q[c])}
<1> DEFINE r == Popped(q, c)
<1>1. q \in [Classes -> Seq(Streams)]
  BY DEF Queues
<1>2. r[c] = Tail(q[c]) /\ \A d \in Classes : d # c => r[d] = q[d]
  BY <1>1 DEF Popped
<1>3. \A d \in Classes : q[d] \in Seq(Streams) /\ Range(q[d]) \subseteq Of(d)
  BY QueueFacts
<1>4. /\ Head(q[c]) \in Streams /\ r[c] \in Seq(Streams)
      /\ Head(q[c]) \in Range(q[c]) /\ Range(q[c]) = {Head(q[c])} \cup Range(r[c])
      /\ IsInjective(q[c]) => IsInjective(r[c]) /\ Range(r[c]) = Range(q[c]) \ {Head(q[c])}
  BY <1>2, <1>3, TailElems
<1>5. r \in [Classes -> Seq(Streams)]
  <2>1. DOMAIN r = Classes /\ r = [d \in Classes |-> r[d]]
    BY <1>1 DEF Popped
  <2>2. \A d \in Classes : r[d] \in Seq(Streams)
    BY <1>2, <1>3, <1>4
  <2> HIDE DEF r
  <2> QED BY <2>1, <2>2
<1>6. r \in Queues
  BY <1>2, <1>3, <1>4, <1>5 DEF Queues
<1>7. Head(q[c]) \in Of(c) /\ Class(Head(q[c])) = c
  BY <1>3, <1>4, ClassFacts
<1> HIDE DEF r
<1>8. Queued(q) = Queued(r) \cup {Head(q[c])} /\ Head(q[c]) \in Queued(q)
  BY <1>2, <1>4 DEF Queued, Classes
<1>9. ASSUME AllInjective(q)
      PROVE  AllInjective(r) /\ Head(q[c]) \notin Queued(r)
  <2>1. IsInjective(r[c]) /\ Head(q[c]) \notin Range(r[c])
    BY <1>4, <1>9 DEF AllInjective
  <2>2. Head(q[c]) \notin Queued(r)
    BY <1>6, <1>7, <2>1, QueueFacts
  <2> QED BY <1>2, <1>9, <2>1, <2>2 DEF AllInjective
<1> QED BY <1>2, <1>4, <1>6, <1>7, <1>8, <1>9 DEF r

\* The queues after new ids of each class.
Joined(q, new) == [c \in Classes |-> q[c] \o new[c]]

\* What that does to them.
LEMMA Join ==
  ASSUME NEW q \in Queues, NEW new \in Queues
  PROVE  /\ Joined(q, new) \in Queues
         /\ Queued(Joined(q, new)) = Queued(q) \cup Queued(new)
         /\ AllInjective(q) /\ AllInjective(new) /\ Queued(q) \cap Queued(new) = {}
              => AllInjective(Joined(q, new))
<1> DEFINE r == Joined(q, new)
<1>1. \A d \in Classes : /\ q[d] \in Seq(Streams) /\ Range(q[d]) \subseteq Of(d)
                         /\ new[d] \in Seq(Streams) /\ Range(new[d]) \subseteq Of(d)
  BY QueueFacts
<1>2. \A d \in Classes : r[d] = q[d] \o new[d]
  BY DEF Joined, r
<1> HIDE DEF r
<1>3. \A d \in Classes : r[d] \in Seq(Streams) /\ Range(r[d]) = Range(q[d]) \cup Range(new[d])
  <2> TAKE d \in Classes
  <2>1. /\ q[d] \o new[d] \in Seq(Streams)
        /\ Range(q[d] \o new[d]) = Range(q[d]) \cup Range(new[d])
    BY <1>1, ConcatElems
  <2> QED BY <1>2, <2>1
<1>4. r \in [Classes -> Seq(Streams)]
  <2>1. DOMAIN r = Classes /\ r = [d \in Classes |-> r[d]]
    BY DEF Joined, r
  <2> QED BY <1>3, <2>1
<1>5. r \in Queues
  BY <1>1, <1>3, <1>4 DEF Queues
<1>6. Queued(r) = Queued(q) \cup Queued(new)
  BY <1>3 DEF Queued, Classes
<1>7. ASSUME AllInjective(q), AllInjective(new), Queued(q) \cap Queued(new) = {}
      PROVE  AllInjective(r)
  <2> SUFFICES ASSUME NEW d \in Classes
               PROVE  IsInjective(r[d])
    BY DEF AllInjective
  <2>1. IsInjective(q[d]) /\ IsInjective(new[d])
    BY <1>7 DEF AllInjective
  <2>2. Range(q[d]) \cap Range(new[d]) = {}
    BY <1>7, QueueFacts
  <2> QED BY <1>1, <1>2, <2>1, <2>2, ConcatInjective
<1> QED BY <1>5, <1>6, <1>7 DEF r

-----------------------------------------------------------------------------
(* The steps, taken apart.                                                 *)

\* What a command can be.
LEMMA CmdShape ==
  /\ \A m \in Cmds : m.op \in {"AcceptResume", "ConnectionDropped", "StopSending", "Finish"}
  /\ \A m \in Cmds : m.op = "AcceptResume" => m.arg \in Classes /\ m = AcceptResume(m.arg)
  /\ \A m \in Cmds : m.op = "StopSending" => m.arg \in Streams
  /\ \A m \in Cmds : m.op = "Finish" => m.arg \in Bidi
BY DEF Cmds, AcceptResume

\* The commands that are made.
LEMMA CmdMakers ==
  /\ \A c \in Classes : AcceptResume(c) \in Cmds /\ AcceptResume(c).op = "AcceptResume"
  /\ ConnectionDropped \in Cmds /\ ConnectionDropped.op = "ConnectionDropped"
  /\ \A s \in Streams : /\ StopSending(s) \in Cmds /\ StopSending(s).op = "StopSending"
                        /\ StopSending(s).arg = s
  /\ \A s \in Bidi : Finish(s) \in Cmds /\ Finish(s).op = "Finish" /\ Finish(s).arg = s
BY DEF Cmds, AcceptResume, ConnectionDropped, StopSending, Finish

\* The commands of a cleanup.
LEMMA Cleanup ==
  ASSUME NEW s \in Streams
  PROVE  /\ HandoffCleanup(s) \in Seq(Cmds)
         /\ \A m \in Range(HandoffCleanup(s)) : m.op \in {"Finish", "StopSending"} /\ m.arg = s
<1>1. CASE s \in Bidi
  <2>1. HandoffCleanup(s) = <<Finish(s), StopSending(s)>>
    BY <1>1 DEF HandoffCleanup
  <2>2. Finish(s) \in Cmds /\ StopSending(s) \in Cmds
    BY <1>1, CmdMakers
  <2>3. HandoffCleanup(s) \in Seq(Cmds)
    BY <2>1, <2>2
  <2>4. Range(HandoffCleanup(s)) = {Finish(s), StopSending(s)}
    BY <2>1 DEF Range
  <2> QED BY <1>1, <2>3, <2>4, CmdMakers
<1>2. CASE s \notin Bidi
  <2>1. HandoffCleanup(s) = <<StopSending(s)>>
    BY <1>2 DEF HandoffCleanup
  <2>2. StopSending(s) \in Cmds
    BY CmdMakers
  <2>3. HandoffCleanup(s) \in Seq(Cmds)
    BY <2>1, <2>2
  <2>4. Range(HandoffCleanup(s)) = {StopSending(s)}
    BY <2>1 DEF Range
  <2> QED BY <2>3, <2>4, CmdMakers
<1> QED BY <1>1, <1>2

\* A send adds its commands or, to a closed channel, nothing.
LEMMA SendElems ==
  ASSUME TypeOK, NEW cs \in Seq(Cmds), Send(cs)
  PROVE  /\ cmd' \in Seq(Cmds)
         /\ wpc \in {"closed", "exited"} => cmd' = cmd
         /\ wpc \notin {"closed", "exited"} => cmd' = cmd \o cs /\ Range(cmd') = Range(cmd) \cup Range(cs)
         /\ Range(cmd) \subseteq Range(cmd') /\ Range(cmd') \subseteq Range(cmd) \cup Range(cs)
<1>1. cmd \in Seq(Cmds)
  BY DEF TypeOK, TypeShared
<1>2. cmd \o cs \in Seq(Cmds) /\ Range(cmd \o cs) = Range(cmd) \cup Range(cs)
  BY <1>1, ConcatElems
<1>3. CASE wpc \in {"closed", "exited"}
  BY <1>1, <1>3 DEF Send
<1>4. CASE wpc \notin {"closed", "exited"}
  <2>1. cmd' = cmd \o cs
    BY <1>4 DEF Send
  <2> QED BY <1>2, <1>4, <2>1
<1> QED BY <1>3, <1>4

\* The ids of a scan are on the cursor.
LEMMA Scanned ==
  ASSUME NEW cursor, NEW budget, NEW ids \in Scan(cursor, budget)
  PROVE  ids \subseteq cursor
BY DEF Scan, kSubset

\* Discovery appends the ids of a set, each once, to the queues of their class.
LEMMA Discovered ==
  ASSUME NEW ids \in SUBSET Streams, Discover(ids)
  PROVE  \E new \in Queues : /\ Queued(new) = ids /\ AllInjective(new)
                             /\ pending_admit' = pending_admit \cup ids
                             /\ pending' = Joined(pending, new)
                             /\ found' = Joined(found, new)
<1>1. ASSUME NEW S, S \subseteq Streams, NEW q \in SetToSeqs(S)
      PROVE  q \in Seq(Streams) /\ Range(q) = S /\ IsInjective(q)
  <2>1. IsFiniteSet(Streams)
    BY AdmissionAssumption, FS_Union DEF Streams
  <2>2. IsFiniteSet(S)
    BY <1>1, <2>1, FS_Subset
  <2>3. Cardinality(S) \in Nat
    BY <2>2, FS_CardinalityType
  <2> DEFINE n == Cardinality(S)
  <2>4. q \in [1..n -> S] /\ \A i, j \in 1..n : i # j => q[i] # q[j]
    BY <1>1 DEF SetToSeqs
  <2> HIDE DEF n
  <2>5. IsInjective(q) /\ q \in Injection(1..n, S)
    BY <2>4 DEF IsInjective, Injection
  <2>6. IsFiniteSet(1..n) /\ Cardinality(1..n) = n
    BY <2>3, FS_Interval DEF n
  <2>7. q \in Surjection(1..n, S)
    BY <2>2, <2>5, <2>6, FS_Injection DEF n
  <2>8. Range(q) = S
    BY <2>4, <2>7 DEF Surjection, Range
  <2>9. q \in Seq(Streams)
    <3>1. q \in [1..n -> Streams] /\ n \in Nat
      BY <1>1, <2>3, <2>4 DEF n
    <3> QED BY <3>1
  <2> QED BY <2>5, <2>8, <2>9
<1>2. PICK b \in SetToSeqs(ids \cap Bidi), u \in SetToSeqs(ids \cap Uni) :
        Enqueue([bidi |-> b, uni |-> u])
  BY DEF Discover
<1>3. b \in Seq(Streams) /\ Range(b) = ids \cap Bidi /\ IsInjective(b)
  BY <1>1, <1>2
<1>4. u \in Seq(Streams) /\ Range(u) = ids \cap Uni /\ IsInjective(u)
  BY <1>1, <1>2
<1> DEFINE new == [bidi |-> b, uni |-> u]
<1>5. DOMAIN new = Classes /\ new["bidi"] = b /\ new["uni"] = u /\ new = [c \in Classes |-> new[c]]
  BY DEF Classes
<1>6. Enqueue(new)
  BY <1>2
<1> HIDE DEF new
<1>7. \A c \in Classes : new[c] \in Seq(Streams) /\ Range(new[c]) \subseteq Of(c) /\ IsInjective(new[c])
  BY <1>3, <1>4, <1>5 DEF Classes, Of
<1>8. new \in Queues
  BY <1>5, <1>7 DEF Queues
<1>9. Queued(new) = ids
  BY <1>3, <1>4, <1>5 DEF Queued, Streams
<1>10. pending_admit' = pending_admit \cup ids
  BY <1>6, <1>9 DEF Enqueue, Queued
<1>11. pending' = Joined(pending, new) /\ found' = Joined(found, new)
  BY <1>6 DEF Enqueue, Joined
<1> QED BY <1>7, <1>8, <1>9, <1>10, <1>11 DEF AllInjective

\* The streams of S end in direction d, or are forgotten.
LEMMA Marked ==
  ASSUME TypeOK, NEW S, NEW d \in {"recv", "send"}, MarkDone(S, d),
         \A s \in S : s \in Streams /\ d \in Dirs(s)
  PROVE  /\ admit' \in [Streams -> {"none", "parked", "registered"}]
         /\ done' \in [Streams -> SUBSET {"recv", "send"}]
         /\ \A s \in Streams : done'[s] \subseteq Dirs(s)
         /\ \A s \in Streams : ~(s \in S /\ admit[s] = "registered") =>
              done'[s] = done[s] /\ admit'[s] = admit[s]
         /\ \A s \in Streams : s \in S /\ admit[s] = "registered" =>
              \/ Dirs(s) \subseteq done[s] \cup {d} /\ done'[s] = {} /\ admit'[s] = "none"
              \/ done'[s] = done[s] \cup {d} /\ admit'[s] = "registered"
<1> DEFINE over(s) == Dirs(s) \subseteq done[s] \cup {d}
<1> DEFINE hit == {s \in S : admit[s] = "registered"}
<1>1. /\ done' = [s \in Streams |-> IF s \notin hit THEN done[s]
                                    ELSE IF over(s) THEN {} ELSE done[s] \cup {d}]
      /\ admit' = [s \in Streams |-> IF s \in hit /\ over(s) THEN "none" ELSE admit[s]]
  BY DEF MarkDone
<1>2. /\ admit \in [Streams -> {"none", "parked", "registered"}]
      /\ done \in [Streams -> SUBSET {"recv", "send"}]
      /\ \A s \in Streams : done[s] \subseteq Dirs(s)
  BY DEF TypeOK, TypeWorker
<1> HIDE DEF over
<1>3. \A s \in Streams : ~(s \in S /\ admit[s] = "registered") =>
              done'[s] = done[s] /\ admit'[s] = admit[s]
  BY <1>1
<1>4. \A s \in Streams : s \in S /\ admit[s] = "registered" =>
              \/ over(s) /\ done'[s] = {} /\ admit'[s] = "none"
              \/ done'[s] = done[s] \cup {d} /\ admit'[s] = "registered"
  BY <1>1, <1>2
<1>5. admit' \in [Streams -> {"none", "parked", "registered"}]
  BY <1>1, <1>2
<1>6. \A s \in Streams : done'[s] \subseteq Dirs(s) /\ done'[s] \subseteq {"recv", "send"}
  BY <1>2, <1>3, <1>4
<1>7. done' \in [Streams -> SUBSET {"recv", "send"}]
  BY <1>1, <1>6
<1> QED BY <1>3, <1>4, <1>5, <1>6, <1>7 DEF over

\* The streams of S are shut down in every direction.
LEMMA Shut ==
  ASSUME TypeOK, NEW S, shutdown_peer_directions(S)
  PROVE  /\ closed' \in [Streams -> SUBSET {"recv", "send"}]
         /\ \A s \in Streams : closed'[s] = IF s \in S THEN Dirs(s) ELSE closed[s]
         /\ \A s \in Streams : closed'[s] \subseteq Dirs(s) /\ closed[s] \subseteq closed'[s]
         /\ readable' = readable \ S /\ writable' = writable \ S
BY ClassFacts DEF shutdown_peer_directions, TypeOK, TypeQuiche

\* A stream is registered: its handoff enters the channel.
LEMMA Registered ==
  ASSUME TypeOK, NEW c \in Classes, NEW s \in Of(c), Register(s)
  PROVE  /\ accept' = Pushed(accept, c, s) /\ accept' \in Queues
         /\ admit' \in [Streams -> {"none", "parked", "registered"}]
         /\ done' \in [Streams -> SUBSET {"recv", "send"}]
         /\ status' \in [Streams -> {"open", "stopped"}]
         /\ \A t \in Streams : done'[t] \subseteq Dirs(t)
         /\ \A t \in Streams : t # s => /\ admit'[t] = admit[t] /\ done'[t] = done[t]
                                        /\ status'[t] = status[t]
         /\ admit'[s] = "registered" /\ done'[s] = IF s \in retained THEN {"send"} ELSE {}
         /\ status'[s] = IF s \in retained THEN "stopped" ELSE status[s]
         /\ retained' = retained \ {s}
<1>1. s \in Streams /\ Class(s) = c
  BY ClassFacts
<1>2. accept' = Pushed(accept, c, s)
  BY <1>1 DEF Register, Pushed
<1>3. accept' \in Queues
  BY <1>2, Push DEF TypeOK, TypeShared
<1>4. /\ admit \in [Streams -> {"none", "parked", "registered"}]
      /\ done \in [Streams -> SUBSET {"recv", "send"}]
      /\ status \in [Streams -> {"open", "stopped"}]
      /\ \A t \in Streams : done[t] \subseteq Dirs(t)
      /\ retained \subseteq Bidi
  BY DEF TypeOK, TypeWorker, TypeShared, TypeQuiche
<1>5. /\ admit' = [admit EXCEPT ![s] = "registered"]
      /\ done' = [done EXCEPT ![s] = IF s \in retained THEN {"send"} ELSE {}]
      /\ status' = [status EXCEPT ![s] = IF s \in retained THEN "stopped" ELSE @]
      /\ retained' = retained \ {s}
  BY DEF Register
<1>6. admit'[s] = "registered" /\ \A t \in Streams : t # s => admit'[t] = admit[t]
  BY <1>1, <1>4, <1>5
<1>7. /\ done'[s] = IF s \in retained THEN {"send"} ELSE {}
      /\ \A t \in Streams : t # s => done'[t] = done[t]
  BY <1>1, <1>4, <1>5
<1>8. /\ status'[s] = IF s \in retained THEN "stopped" ELSE status[s]
      /\ \A t \in Streams : t # s => status'[t] = status[t]
  BY <1>1, <1>4, <1>5
<1>9. \A t \in Streams : done'[t] \subseteq Dirs(t)
  BY <1>1, <1>4, <1>7, ClassFacts
<1>10. /\ admit' \in [Streams -> {"none", "parked", "registered"}]
       /\ status' \in [Streams -> {"open", "stopped"}]
  BY <1>4, <1>5
<1>11. done' \in [Streams -> SUBSET {"recv", "send"}]
  BY <1>4, <1>5
<1> QED BY <1>2, <1>3, <1>5, <1>6, <1>7, <1>8, <1>9, <1>10, <1>11

\* phase2_admission ends, or takes the oldest id of a class and registers it,
\* parks it or shuts it down.
Phase2Ends ==
  /\ wpc' = "promote" /\ prefer' = "bidi" /\ left' = 0 /\ blocked' = {}
  /\ UNCHANGED <<queueVars, admit, done, retained, accept, status, shutVars>>

Phase2Takes(c, s) ==
  /\ pending[c] # <<>> /\ s = Head(pending[c])
  /\ pending' = Popped(pending, c) /\ pending_admit' = pending_admit \ {s}
  /\ prefer' = Other(c) /\ left > 0 /\ left' = left - 1 /\ blocked' \subseteq Classes
  /\ UNCHANGED wpc

Phase2Admits(c, s) == Free(c) /\ Register(s) /\ UNCHANGED <<parked, shutVars>>

Phase2Parks(c, s) ==
  /\ Full(c)
  /\ admit' = [admit EXCEPT ![s] = "parked"] /\ parked' = Pushed(parked, c, s)
  /\ UNCHANGED <<done, retained, accept, status, shutVars>>

Phase2Refuses(c, s) ==
  /\ ~RxOpen(c)
  /\ shutdown_peer_directions({s}) /\ retained' = retained \ {s}
  /\ UNCHANGED <<parked, admit, done, accept, status>>

Phase2Rest ==
  UNCHANGED <<opened, stopped, packet, needs_iteration, finishing, resume, cmd, terminal,
              frontVars, found>>

\* These are all the cases.
LEMMA Phase2Cases ==
  ASSUME TypeOK, phase2_admission
  PROVE  /\ wpc = "phase2" /\ Phase2Rest
         /\ \/ Phase2Ends
            \/ \E c \in Classes : \E s \in Of(c) :
                 Phase2Takes(c, s) /\ (Phase2Admits(c, s) \/ Phase2Parks(c, s) \/ Phase2Refuses(c, s))
<1> DEFINE ready == {c \in Classes \ blocked : pending[c] # <<>>}
<1> DEFINE c == IF prefer \in ready THEN prefer ELSE Other(prefer)
<1> DEFINE s == Head(pending[c])
<1>1. wpc = "phase2" /\ Phase2Rest
  BY DEF phase2_admission, Phase2Rest
<1>2. CASE left = 0 \/ ready = {}
  BY <1>1, <1>2 DEF phase2_admission, Phase2Ends
<1>3. CASE ~(left = 0 \/ ready = {})
  <2>1. prefer \in Classes /\ blocked \subseteq Classes /\ left \in Nat /\ pending \in Queues
    BY DEF TypeOK, TypeWorker
  <2>2. c \in Classes /\ pending[c] # <<>>
    <3>1. PICK x \in Classes \ blocked : pending[x] # <<>>
      BY <1>3
    <3>2. CASE prefer \in ready
      BY <3>2
    <3>3. CASE prefer \notin ready
      <4>1. x # prefer
        BY <3>1, <3>3
      <4>2. x = Other(prefer) /\ c = Other(prefer)
        BY <2>1, <3>1, <3>3, <4>1, ClassFacts
      <4> QED BY <3>1, <4>2
    <3> QED BY <3>2, <3>3
  <2>3. /\ pending' = [pending EXCEPT ![c] = Tail(@)]
        /\ pending_admit' = pending_admit \ {s}
        /\ prefer' = Other(c) /\ left' = left - 1
        /\ \/ Free(c) /\ Register(s) /\ UNCHANGED <<parked, blocked, shutVars>>
           \/ /\ Full(c)
              /\ admit' = [admit EXCEPT ![s] = "parked"]
              /\ parked' = [parked EXCEPT ![c] = Append(@, s)]
              /\ blocked' = blocked \cup {c}
              /\ UNCHANGED <<done, retained, accept, status, shutVars>>
           \/ /\ ~RxOpen(c)
              /\ shutdown_peer_directions({s})
              /\ retained' = retained \ {s}
              /\ blocked' = blocked \cup {c}
              /\ UNCHANGED <<parked, admit, done, accept, status>>
        /\ UNCHANGED wpc
    BY <1>3 DEF phase2_admission
  <2>4. s \in Of(c)
    BY <2>1, <2>2, Pop1
  <2> HIDE DEF c, ready
  <2>5. blocked' \subseteq Classes
    BY <2>1, <2>2, <2>3
  <2>6. left > 0
    BY <1>3, <2>1
  <2>7. Phase2Takes(c, s)
    BY <2>2, <2>3, <2>5, <2>6 DEF Phase2Takes, Popped
  <2>8. Phase2Admits(c, s) \/ Phase2Parks(c, s) \/ Phase2Refuses(c, s)
    BY <2>3 DEF Phase2Admits, Phase2Parks, Phase2Refuses, Pushed
  <2> QED BY <1>1, <2>2, <2>4, <2>7, <2>8
<1> QED BY <1>2, <1>3

\* The end of a promotion.
LEMMA Onward ==
  ASSUME TypeOK, NextPromotion
  PROVE  prefer' \in Classes /\ left' \in Nat /\ wpc' \in {"promote", "apply", "writable"}
BY AdmissionAssumption DEF NextPromotion, Classes, TypeOK, TypeWorker

\* A retry ends the promotion, registers the oldest parked id, or shuts it down.
RetryStops ==
  /\ left = 0 \/ parked[prefer] = <<>> \/ Full(prefer)
  /\ NextPromotion
  /\ UNCHANGED <<parked, admit, done, retained, accept, status, shutVars>>

RetryAdmits(c, s) ==
  /\ Free(c) /\ Register(s) /\ left > 0 /\ left' = left - 1
  /\ UNCHANGED <<wpc, prefer, shutVars>>

RetryRefuses(c, s) ==
  /\ ~RxOpen(c)
  /\ shutdown_peer_directions({s})
  /\ admit' = [admit EXCEPT ![s] = "none"] /\ retained' = retained \ {s}
  /\ NextPromotion
  /\ UNCHANGED <<done, accept, status>>

RetryRest ==
  UNCHANGED <<opened, stopped, packet, needs_iteration, pending_admit, pending,
              blocked, finishing, resume, cmd, terminal, frontVars, found>>

\* These are all the cases.
LEMMA RetryCases ==
  ASSUME TypeOK, promote_retry
  PROVE  /\ wpc = "retry" /\ RetryRest
         /\ \/ RetryStops
            \/ \E s \in Of(prefer) :
                 /\ parked[prefer] # <<>> /\ s = Head(parked[prefer])
                 /\ parked' = Popped(parked, prefer)
                 /\ RetryAdmits(prefer, s) \/ RetryRefuses(prefer, s)
<1>1. wpc = "retry" /\ RetryRest
  BY DEF promote_retry, RetryRest
<1>2. CASE left = 0 \/ parked[prefer] = <<>>
  BY <1>1, <1>2 DEF promote_retry, RetryStops
<1>3. CASE ~(left = 0 \/ parked[prefer] = <<>>)
  <2> DEFINE s == Head(parked[prefer])
  <2>1. prefer \in Classes /\ left \in Nat /\ parked \in Queues
    BY DEF TypeOK, TypeWorker
  <2>2. s \in Of(prefer)
    BY <1>3, <2>1, Pop1
  <2>3. left > 0
    BY <1>3, <2>1
  <2>4. \/ RetryStops
        \/ parked' = Popped(parked, prefer) /\ (RetryAdmits(prefer, s) \/ RetryRefuses(prefer, s))
    BY <1>3, <2>3 DEF promote_retry, RetryStops, RetryAdmits, RetryRefuses, Popped
  <2> QED BY <1>1, <1>3, <2>2, <2>4
<1> QED BY <1>2, <1>3

\* apply_inbox ends, or takes a command of one of the four kinds.
ApplyEnds ==
  /\ wpc' \in {"writable", "intake"} /\ left' = 0
  /\ UNCHANGED <<cmd, resume, queueVars, admit, done, retained, shutVars, finishing>>

ApplyTakes(m) ==
  /\ cmd # <<>> /\ m = Head(cmd) /\ cmd' = Tail(cmd) /\ left > 0 /\ left' = left - 1
  /\ UNCHANGED wpc

ApplyResume(m) ==
  /\ m.op = "AcceptResume" /\ resume' = [resume EXCEPT ![m.arg] = TRUE]
  /\ UNCHANGED <<queueVars, admit, done, retained, shutVars, finishing>>

ApplyDropped(m) ==
  /\ m.op = "ConnectionDropped" /\ clean_undelivered_peer_streams
  /\ UNCHANGED <<resume, done, finishing>>

ApplyStop(m) ==
  /\ m.op = "StopSending"
  /\ closed' = [closed EXCEPT ![m.arg] = @ \cup {"recv"}]
  /\ readable' = readable \ {m.arg}
  /\ MarkDone({m.arg}, "recv")
  /\ UNCHANGED <<writable, resume, queueVars, retained, finishing>>

ApplyFinish(m) ==
  /\ m.op = "Finish" /\ finishing' = finishing \cup {m.arg}
  /\ UNCHANGED <<resume, queueVars, admit, done, retained, shutVars>>

ApplyRest ==
  UNCHANGED <<opened, stopped, packet, needs_iteration, phaseVars, accept, status,
              terminal, frontVars, found>>

\* These are all the cases.
LEMMA ApplyCases ==
  ASSUME TypeOK, apply_inbox
  PROVE  /\ wpc = "apply" /\ ApplyRest
         /\ \/ ApplyEnds
            \/ \E m \in Cmds :
                 ApplyTakes(m) /\ (ApplyResume(m) \/ ApplyDropped(m) \/ ApplyStop(m) \/ ApplyFinish(m))
<1>1. wpc = "apply" /\ ApplyRest
  BY DEF apply_inbox, ApplyRest
<1>2. CASE left = 0 \/ cmd = <<>>
  BY <1>1, <1>2 DEF apply_inbox, ApplyEnds
<1>3. CASE ~(left = 0 \/ cmd = <<>>)
  <2>1. left \in Nat /\ cmd \in Seq(Cmds)
    BY DEF TypeOK, TypeWorker, TypeShared
  <2>2. left > 0 /\ Head(cmd) \in Cmds
    BY <1>3, <2>1, TailElems
  <2> DEFINE m == Head(cmd)
  <2>3. ApplyTakes(m)
    BY <1>3, <2>2 DEF apply_inbox, ApplyTakes
  <2>4. ApplyResume(m) \/ ApplyDropped(m) \/ ApplyStop(m) \/ ApplyFinish(m)
    BY <1>3 DEF apply_inbox, ApplyResume, ApplyDropped, ApplyStop, ApplyFinish
  <2> QED BY <1>1, <2>2, <2>3, <2>4
<1> QED BY <1>2, <1>3

\* ConnectionDropped empties the queues of what was not admitted.
LEMMA Cleaned ==
  ASSUME TypeOK, clean_undelivered_peer_streams
  PROVE  /\ pending' \in Queues /\ parked' \in Queues
         /\ \A c \in Classes : pending'[c] = <<>> /\ parked'[c] = <<>>
         /\ Queued(pending') = {} /\ Queued(parked') = {} /\ pending_admit' = {}
         /\ admit' \in [Streams -> {"none", "parked", "registered"}]
         /\ \A s \in Streams :
              admit'[s] = IF s \in Parked \cup pending_admit THEN "none" ELSE admit[s]
         /\ shutdown_peer_directions(Parked \cup pending_admit)
         /\ retained' = retained \ (Parked \cup pending_admit)
<1>1. /\ pending' = [c \in Classes |-> <<>>] /\ parked' = [c \in Classes |-> <<>>]
      /\ pending_admit' = {}
  BY DEF clean_undelivered_peer_streams
<1>2. \A c \in Classes : pending'[c] = <<>> /\ parked'[c] = <<>>
  BY <1>1
<1>3. Range(<<>>) = {}
  BY DEF Range
<1>4. <<>> \in Seq(Streams)
  OBVIOUS
<1>5. pending' \in Queues /\ parked' \in Queues
  BY <1>1, <1>2, <1>3, <1>4 DEF Queues
<1>6. Queued(pending') = {} /\ Queued(parked') = {}
  BY <1>2, <1>3 DEF Queued, Classes
<1>7. /\ shutdown_peer_directions(Parked \cup pending_admit)
      /\ retained' = retained \ (Parked \cup pending_admit)
      /\ admit' = [s \in Streams |-> IF s \in Parked \cup pending_admit THEN "none" ELSE admit[s]]
  BY DEF clean_undelivered_peer_streams, Parked
<1>8. admit' \in [Streams -> {"none", "parked", "registered"}]
  BY <1>7 DEF TypeOK, TypeWorker
<1> QED BY <1>1, <1>2, <1>5, <1>6, <1>7, <1>8

\* A handoff comes out of the channel of c.
LEMMA PopElems ==
  ASSUME TypeOK, NEW c \in Classes, accept[c] # <<>>, Pop(c)
  PROVE  /\ accept' = Popped(accept, c) /\ accept' \in Queues
         /\ Head(accept[c]) \in Streams /\ delivered' = delivered \cup {Head(accept[c])}
<1>1. accept \in Queues
  BY DEF TypeOK, TypeShared
<1>2. accept' = Popped(accept, c) /\ delivered' = delivered \cup {Head(accept[c])}
  BY DEF Pop, Popped
<1> QED BY <1>1, <1>2, Pop1

-----------------------------------------------------------------------------
(* Types.                                                                  *)

\* The initial state has the types.
LEMMA InitTypes == Init => TypeOK
<1> SUFFICES ASSUME Init PROVE TypeOK
  OBVIOUS
<1>1. TypeQuiche
  BY DEF Init, TypeQuiche
<1>2. [c \in Classes |-> <<>>] \in Queues
  <2>1. <<>> \in Seq(Streams) /\ Range(<<>>) = {}
    BY DEF Range
  <2> QED BY <2>1 DEF Queues
<1>3. TypeWorker
  BY <1>2 DEF Init, TypeWorker, Classes
<1>4. TypeShared
  <2>1. cmd \in Seq(Cmds)
    BY DEF Init
  <2> QED BY <1>2, <2>1 DEF Init, TypeShared
<1>5. TypeFront
  BY DEF Init, TypeFront, Classes
<1> QED BY <1>1, <1>3, <1>4, <1>5 DEF TypeOK

\* phase2_admission keeps the types.
LEMMA Phase2Types ==
  ASSUME TypeOK, phase2_admission
  PROVE  TypeOK'
<1>1. Phase2Rest
  BY Phase2Cases
<1>2. CASE Phase2Ends
  BY <1>1, <1>2 DEF Phase2Rest, Phase2Ends, queueVars, shutVars, frontVars, Classes, TypeOK,
                    TypeQuiche, TypeWorker, TypeShared, TypeFront
<1>3. ASSUME NEW c \in Classes, NEW s \in Of(c), Phase2Takes(c, s),
             Phase2Admits(c, s) \/ Phase2Parks(c, s) \/ Phase2Refuses(c, s)
      PROVE  TypeOK'
  <2>1. s \in Streams /\ Other(c) \in Classes
    BY ClassFacts
  <2>2. pending' \in Queues
    BY <1>3, Pop1 DEF Phase2Takes, TypeOK, TypeWorker
  <2>3. /\ pending_admit' \subseteq Streams /\ left' \in Nat /\ blocked' \subseteq Classes
        /\ prefer' \in Classes /\ wpc' = wpc
    BY <1>3, <2>1 DEF Phase2Takes, TypeOK, TypeWorker
  <2>4. TypeFront'
    BY <1>1 DEF Phase2Rest, frontVars, TypeOK, TypeFront
  <2>5. CASE Phase2Admits(c, s)
    <3>1. /\ accept' \in Queues /\ admit' \in [Streams -> {"none", "parked", "registered"}]
          /\ done' \in [Streams -> SUBSET {"recv", "send"}]
          /\ status' \in [Streams -> {"open", "stopped"}]
          /\ (\A t \in Streams : done'[t] \subseteq Dirs(t)) /\ retained' = retained \ {s}
      BY <2>5, Registered DEF Phase2Admits
    <3>2. UNCHANGED <<parked, closed, readable, writable>>
      BY <2>5 DEF Phase2Admits, shutVars
    <3> QED BY <1>1, <2>2, <2>3, <2>4, <3>1, <3>2 DEF Phase2Rest, TypeOK, TypeQuiche, TypeWorker, TypeShared
  <2>6. CASE Phase2Parks(c, s)
    <3>1. parked' \in Queues
      BY <2>6, Push DEF Phase2Parks, TypeOK, TypeWorker
    <3>2. admit' \in [Streams -> {"none", "parked", "registered"}]
      BY <2>6 DEF Phase2Parks, TypeOK, TypeWorker
    <3>3. UNCHANGED <<done, retained, accept, status, closed, readable, writable>>
      BY <2>6 DEF Phase2Parks, shutVars
    <3> QED BY <1>1, <2>2, <2>3, <2>4, <3>1, <3>2, <3>3 DEF Phase2Rest, TypeOK, TypeQuiche, TypeWorker, TypeShared
  <2>7. CASE Phase2Refuses(c, s)
    <3>1. /\ closed' \in [Streams -> SUBSET {"recv", "send"}]
          /\ \A t \in Streams : closed'[t] \subseteq Dirs(t)
          /\ readable' = readable \ {s} /\ writable' = writable \ {s}
      BY <2>7, Shut DEF Phase2Refuses
    <3>2. UNCHANGED <<parked, admit, done, accept, status>> /\ retained' = retained \ {s}
      BY <2>7 DEF Phase2Refuses
    <3> QED BY <1>1, <2>2, <2>3, <2>4, <3>1, <3>2 DEF Phase2Rest, TypeOK, TypeQuiche, TypeWorker, TypeShared
  <2> QED BY <1>3, <2>5, <2>6, <2>7
<1> QED BY <1>2, <1>3, Phase2Cases

\* promote_parked and its retry keep the types.
LEMMA PromoteTypes ==
  ASSUME TypeOK, promote_parked \/ promote_retry
  PROVE  TypeOK'
<1>1. CASE promote_parked
  <2>1. /\ prefer' \in Classes /\ left' \in Nat /\ wpc' \in {"promote", "apply", "writable", "retry"}
        /\ resume' \in [Classes -> BOOLEAN]
    <3>1. CASE resume[prefer]
      BY <1>1, <3>1, AdmissionAssumption DEF promote_parked, TypeOK, TypeWorker, TypeShared
    <3>2. CASE ~resume[prefer]
      BY <1>1, <3>2, Onward DEF promote_parked, TypeOK, TypeShared
    <3> QED BY <3>1, <3>2
  <2>2. UNCHANGED <<quicheVars, closed, packet, needs_iteration, queueVars, retained,
                 admit, done, blocked, finishing, accept, cmd, status, terminal,
                 frontVars, found>>
    BY <1>1 DEF promote_parked
  <2> QED BY <2>1, <2>2 DEF quicheVars, queueVars, frontVars, TypeOK, TypeQuiche, TypeWorker,
                            TypeShared, TypeFront
<1>2. CASE promote_retry
  <2>1. RetryRest
    BY <1>2, RetryCases
  <2>2. TypeFront'
    BY <2>1 DEF RetryRest, frontVars, TypeOK, TypeFront
  <2>3. CASE RetryStops
    <3>1. prefer' \in Classes /\ left' \in Nat /\ wpc' \in {"promote", "apply", "writable"}
      BY <2>3, Onward DEF RetryStops
    <3>2. UNCHANGED <<parked, admit, done, retained, accept, status, closed, readable, writable>>
      BY <2>3 DEF RetryStops, shutVars
    <3> QED BY <2>1, <2>2, <3>1, <3>2 DEF RetryRest, TypeOK, TypeQuiche, TypeWorker, TypeShared
  <2>4. ASSUME NEW s \in Of(prefer), parked[prefer] # <<>>, s = Head(parked[prefer]),
               parked' = Popped(parked, prefer), RetryAdmits(prefer, s)
        PROVE  TypeOK'
    <3>1. prefer \in Classes /\ parked' \in Queues
      BY <2>4, Pop1 DEF TypeOK, TypeWorker
    <3>2. /\ accept' \in Queues /\ admit' \in [Streams -> {"none", "parked", "registered"}]
          /\ done' \in [Streams -> SUBSET {"recv", "send"}]
          /\ status' \in [Streams -> {"open", "stopped"}]
          /\ (\A t \in Streams : done'[t] \subseteq Dirs(t)) /\ retained' = retained \ {s}
      BY <2>4, <3>1, Registered DEF RetryAdmits
    <3>3. UNCHANGED <<wpc, prefer, closed, readable, writable>> /\ left' \in Nat
      BY <2>4 DEF RetryAdmits, shutVars, TypeOK, TypeWorker
    <3> QED BY <2>1, <2>2, <3>1, <3>2, <3>3 DEF RetryRest, TypeOK, TypeQuiche, TypeWorker, TypeShared
  <2>5. ASSUME NEW s \in Of(prefer), parked[prefer] # <<>>, s = Head(parked[prefer]),
               parked' = Popped(parked, prefer), RetryRefuses(prefer, s)
        PROVE  TypeOK'
    <3>1. prefer \in Classes /\ parked' \in Queues /\ s \in Streams
      BY <2>5, Pop1 DEF TypeOK, TypeWorker
    <3>2. prefer' \in Classes /\ left' \in Nat /\ wpc' \in {"promote", "apply", "writable"}
      BY <2>5, Onward DEF RetryRefuses
    <3>3. /\ closed' \in [Streams -> SUBSET {"recv", "send"}]
          /\ \A t \in Streams : closed'[t] \subseteq Dirs(t)
          /\ readable' = readable \ {s} /\ writable' = writable \ {s}
      BY <2>5, Shut DEF RetryRefuses
    <3>4. /\ admit' \in [Streams -> {"none", "parked", "registered"}]
          /\ UNCHANGED <<done, accept, status>> /\ retained' = retained \ {s}
      BY <2>5 DEF RetryRefuses, TypeOK, TypeWorker
    <3> QED BY <2>1, <2>2, <3>1, <3>2, <3>3, <3>4 DEF RetryRest, TypeOK, TypeQuiche, TypeWorker, TypeShared
  <2> QED BY <1>2, <2>3, <2>4, <2>5, RetryCases
<1> QED BY <1>1, <1>2

\* apply_inbox keeps the types.
LEMMA ApplyTypes ==
  ASSUME TypeOK, apply_inbox
  PROVE  TypeOK'
<1>1. ApplyRest
  BY ApplyCases
<1>2. CASE ApplyEnds
  BY <1>1, <1>2 DEF ApplyRest, ApplyEnds, queueVars, shutVars, frontVars, phaseVars, TypeOK,
                    TypeQuiche, TypeWorker, TypeShared, TypeFront
<1>3. ASSUME NEW m \in Cmds, ApplyTakes(m),
             ApplyResume(m) \/ ApplyDropped(m) \/ ApplyStop(m) \/ ApplyFinish(m)
      PROVE  TypeOK'
  <2>1. cmd' \in Seq(Cmds)
    BY <1>3, TailElems DEF ApplyTakes, TypeOK, TypeShared
  <2>2. left' \in Nat /\ wpc' = wpc
    BY <1>3 DEF ApplyTakes, TypeOK, TypeWorker
  <2>3. TypeFront'
    BY <1>1 DEF ApplyRest, frontVars, TypeOK, TypeFront
  <2>4. CASE ApplyResume(m)
    <3>1. resume' \in [Classes -> BOOLEAN]
      BY <2>4 DEF ApplyResume, TypeOK, TypeShared
    <3>2. UNCHANGED <<queueVars, admit, done, retained, shutVars, finishing>>
      BY <2>4 DEF ApplyResume
    <3> QED BY <1>1, <2>1, <2>2, <2>3, <3>1, <3>2 DEF ApplyRest, queueVars, shutVars, phaseVars,
              TypeOK, TypeQuiche, TypeWorker, TypeShared
  <2>5. CASE ApplyDropped(m)
    <3>1. /\ pending' \in Queues /\ parked' \in Queues /\ pending_admit' = {}
          /\ admit' \in [Streams -> {"none", "parked", "registered"}]
          /\ shutdown_peer_directions(Parked \cup pending_admit)
          /\ retained' = retained \ (Parked \cup pending_admit)
      BY <2>5, Cleaned DEF ApplyDropped
    <3>2. UNCHANGED <<resume, done, finishing>>
      BY <2>5 DEF ApplyDropped
    <3>3. /\ closed' \in [Streams -> SUBSET {"recv", "send"}]
          /\ \A t \in Streams : closed'[t] \subseteq Dirs(t)
          /\ readable' \subseteq readable /\ writable' \subseteq writable
      BY <3>1, Shut
    <3> QED BY <1>1, <2>1, <2>2, <2>3, <3>1, <3>2, <3>3 DEF ApplyRest, phaseVars,
              TypeOK, TypeQuiche, TypeWorker, TypeShared
  <2>6. CASE ApplyStop(m)
    <3>1. m.arg \in Streams
      BY <2>6, CmdShape DEF ApplyStop
    <3>2. /\ admit' \in [Streams -> {"none", "parked", "registered"}]
          /\ done' \in [Streams -> SUBSET {"recv", "send"}]
          /\ \A t \in Streams : done'[t] \subseteq Dirs(t)
      <4>1. MarkDone({m.arg}, "recv") /\ \A t \in {m.arg} : t \in Streams /\ "recv" \in Dirs(t)
        BY <2>6, <3>1, ClassFacts DEF ApplyStop
      <4> QED BY <4>1, Marked
    <3>3. closed' = [closed EXCEPT ![m.arg] = closed[m.arg] \cup {"recv"}]
      BY <2>6 DEF ApplyStop
    <3>4. /\ closed' \in [Streams -> SUBSET {"recv", "send"}]
          /\ \A t \in Streams : closed'[t] \subseteq Dirs(t)
      BY <3>1, <3>3, ClassFacts DEF TypeOK, TypeQuiche
    <3>5. UNCHANGED <<writable, resume, queueVars, retained, finishing>> /\ readable' \subseteq readable
      BY <2>6 DEF ApplyStop
    <3> QED BY <1>1, <2>1, <2>2, <2>3, <3>2, <3>4, <3>5 DEF ApplyRest, queueVars, phaseVars,
              TypeOK, TypeQuiche, TypeWorker, TypeShared
  <2>7. CASE ApplyFinish(m)
    <3>1. finishing' \subseteq Bidi
      BY <2>7, CmdShape DEF ApplyFinish, TypeOK, TypeWorker
    <3>2. UNCHANGED <<resume, queueVars, admit, done, retained, shutVars>>
      BY <2>7 DEF ApplyFinish
    <3> QED BY <1>1, <2>1, <2>2, <2>3, <3>1, <3>2 DEF ApplyRest, queueVars, shutVars, phaseVars,
              TypeOK, TypeQuiche, TypeWorker, TypeShared
  <2> QED BY <1>3, <2>4, <2>5, <2>6, <2>7
<1> QED BY <1>2, <1>3, ApplyCases

\* What stage_writable does with the ids of its scan.
Stopped(ids) == {s \in ids \cap stopped : admit[s] = "registered" /\ "send" \notin done[s]}

WritableTakes(ids) ==
  /\ ids \subseteq writable
  /\ writable' = writable \ ids
  /\ status' = [s \in Streams |-> IF s \in Stopped(ids) THEN "stopped" ELSE status[s]]
  /\ MarkDone(Stopped(ids), "send")
  /\ Discover({s \in ids : Unknown(s)})
  /\ retained' = retained \cup {s \in ids \cap stopped : admit[s] # "registered"}
  /\ needs_iteration' \in BOOLEAN
  /\ wpc' = "send" /\ left' = 0
  /\ UNCHANGED <<opened, stopped, readable, closed, packet, parked, phaseVars,
                 finishing, accept, resume, cmd, terminal, frontVars>>

\* The scan is one of these.
LEMMA WritableCase ==
  ASSUME TypeOK, stage_writable
  PROVE  wpc = "writable" /\ \E ids \in SUBSET Bidi : WritableTakes(ids)
<1>1. PICK ids \in Scan(writable, WRITABLE_BUDGET) :
        /\ writable' = writable \ ids
        /\ status' = [s \in Streams |-> IF s \in Stopped(ids) THEN "stopped" ELSE status[s]]
        /\ MarkDone(Stopped(ids), "send")
        /\ Discover({s \in ids : Unknown(s)})
        /\ Retain({s \in ids \cap stopped : admit[s] # "registered"})
        /\ needs_iteration' = (needs_iteration \/ {s \in ids : Unknown(s)} # {}
                               \/ Cardinality(ids) = WRITABLE_BUDGET)
  BY DEF stage_writable, Stopped
<1>2. ids \subseteq writable /\ ids \subseteq Bidi
  BY Scanned DEF TypeOK, TypeQuiche
<1>3. needs_iteration' \in BOOLEAN
  BY <1>1
<1>4. WritableTakes(ids)
  BY <1>1, <1>2, <1>3 DEF WritableTakes, Retain, stage_writable
<1> QED BY <1>2, <1>4 DEF stage_writable

\* What intake_readable does with the ids of its scan.
IntakeTakes(ids) ==
  /\ ids \subseteq readable
  /\ readable' = readable \ ids
  /\ Discover({s \in ids : Unknown(s)})
  /\ needs_iteration' \in BOOLEAN
  /\ wpc' = "phase2" /\ left' \in Nat /\ blocked' = {} /\ prefer' = "bidi"
  /\ UNCHANGED <<opened, stopped, writable, closed, packet, parked, retained,
                 admit, done, finishing, accept, resume, cmd, status, terminal,
                 frontVars>>

\* The scan is one of these.
LEMMA IntakeCase ==
  ASSUME TypeOK, intake_readable
  PROVE  wpc = "intake" /\ \E ids \in SUBSET Streams : IntakeTakes(ids)
<1>1. PICK ids \in Scan(readable, DISCOVERY_BUDGET) :
        /\ readable' = readable \ ids
        /\ Discover({s \in ids : Unknown(s)})
        /\ needs_iteration' = (needs_iteration \/ Cardinality(ids) = DISCOVERY_BUDGET)
  BY DEF intake_readable
<1>2. ids \subseteq readable /\ ids \subseteq Streams
  BY Scanned DEF TypeOK, TypeQuiche
<1>3. needs_iteration' \in BOOLEAN
  BY <1>1
<1>4. ADMIT_BUDGET \in Nat
  BY AdmissionAssumption
<1>5. IntakeTakes(ids)
  BY <1>1, <1>2, <1>3, <1>4 DEF IntakeTakes, intake_readable
<1> QED BY <1>2, <1>5 DEF intake_readable

\* The two scans keep the types.
LEMMA ScanTypes ==
  ASSUME TypeOK, intake_readable \/ stage_writable
  PROVE  TypeOK'
<1>1. ASSUME NEW ids \in SUBSET Streams, Discover(ids)
      PROVE  pending_admit' \subseteq Streams /\ pending' \in Queues /\ found' \in Queues
  BY <1>1, Discovered, Join DEF TypeOK, TypeWorker
<1>2. CASE intake_readable
  <2>1. PICK ids \in SUBSET Streams : IntakeTakes(ids)
    BY <1>2, IntakeCase
  <2>2. pending_admit' \subseteq Streams /\ pending' \in Queues /\ found' \in Queues
    <3>1. {s \in ids : Unknown(s)} \in SUBSET Streams /\ Discover({s \in ids : Unknown(s)})
      BY <2>1 DEF IntakeTakes
    <3> QED BY <1>1, <3>1
  <2> HIDE DEF Unknown, Discover
  <2> QED BY <2>1, <2>2 DEF IntakeTakes, frontVars, Classes, TypeOK, TypeQuiche, TypeWorker,
                            TypeShared, TypeFront
<1>3. CASE stage_writable
  <2>1. PICK ids \in SUBSET Bidi : WritableTakes(ids)
    BY <1>3, WritableCase
  <2>2. pending_admit' \subseteq Streams /\ pending' \in Queues /\ found' \in Queues
    <3>1. {s \in ids : Unknown(s)} \in SUBSET Streams /\ Discover({s \in ids : Unknown(s)})
      BY <2>1, ClassFacts DEF WritableTakes
    <3> QED BY <1>1, <3>1
  <2>3. /\ admit' \in [Streams -> {"none", "parked", "registered"}]
        /\ done' \in [Streams -> SUBSET {"recv", "send"}]
        /\ \A s \in Streams : done'[s] \subseteq Dirs(s)
    <3>1. \A s \in Stopped(ids) : s \in Streams /\ "send" \in Dirs(s)
      BY <2>1, ClassFacts DEF Stopped
    <3>2. MarkDone(Stopped(ids), "send")
      BY <2>1 DEF WritableTakes
    <3> QED BY <3>1, <3>2, Marked
  <2>4. status' \in [Streams -> {"open", "stopped"}]
    BY <2>1 DEF WritableTakes, TypeOK, TypeShared
  <2>5. /\ retained' \subseteq stopped /\ writable' \subseteq writable /\ needs_iteration' \in BOOLEAN
        /\ wpc' = "send" /\ left' = 0
        /\ UNCHANGED <<opened, stopped, readable, closed, packet, parked, blocked, prefer,
                       finishing, accept, resume, cmd, terminal, frontVars>>
    BY <2>1 DEF WritableTakes, phaseVars, TypeOK, TypeWorker
  <2> QED BY <2>2, <2>3, <2>4, <2>5 DEF frontVars, TypeOK, TypeQuiche, TypeWorker, TypeShared, TypeFront
<1> QED BY <1>2, <1>3

\* The other steps of the worker keep the types.
LEMMA WorkerTypes ==
  ASSUME TypeOK, Packets \/ Wake \/ stage_send \/ WorkerExits \/ on_conn_close
  PROVE  TypeOK'
<1>1. CASE Packets
  <2>1. PICK data \in SUBSET (Streams \ opened), stop \in SUBSET (Bidi \ stopped) :
          /\ opened' = opened \cup data /\ stopped' = stopped \cup stop
          /\ readable' = readable \cup data
          /\ writable' = writable \cup (data \cap (Bidi \ stopped)) \cup stop
    BY <1>1 DEF Packets
  <2>2. /\ packet' = TRUE /\ needs_iteration' = FALSE /\ wpc' = "intake" /\ left' = 0
        /\ UNCHANGED <<closed, queueVars, retained, admit, done, phaseVars, finishing,
                 accept, resume, cmd, status, terminal, frontVars, found>>
    BY <1>1 DEF Packets
  <2>3. TypeQuiche'
    BY <2>1, <2>2 DEF TypeOK, TypeQuiche
  <2>4. TypeWorker'
    BY <2>1, <2>2 DEF queueVars, phaseVars, TypeOK, TypeWorker
  <2> QED BY <2>2, <2>3, <2>4 DEF frontVars, TypeOK, TypeShared, TypeFront
<1>2. CASE Wake
  BY <1>2, AdmissionAssumption DEF Wake, quicheVars, queueVars, phaseVars, frontVars, TypeOK,
           TypeQuiche, TypeWorker, TypeShared, TypeFront
<1>3. CASE stage_send
  <2>1. /\ admit' \in [Streams -> {"none", "parked", "registered"}]
        /\ done' \in [Streams -> SUBSET {"recv", "send"}]
        /\ \A s \in Streams : done'[s] \subseteq Dirs(s)
    <3>1. \A s \in finishing : s \in Streams /\ "send" \in Dirs(s)
      BY ClassFacts DEF TypeOK, TypeWorker
    <3>2. MarkDone(finishing, "send")
      BY <1>3 DEF stage_send
    <3> QED BY <3>1, <3>2, Marked
  <2>2. closed' = [s \in Streams |-> IF s \in finishing THEN closed[s] \cup {"send"} ELSE closed[s]]
    BY <1>3 DEF stage_send
  <2>3. /\ closed' \in [Streams -> SUBSET {"recv", "send"}]
        /\ \A s \in Streams : closed'[s] \subseteq Dirs(s)
    BY <2>2, ClassFacts DEF TypeOK, TypeQuiche, TypeWorker
  <2>4. needs_iteration' \in BOOLEAN
    BY <1>3 DEF stage_send
  <2>5. /\ finishing' = {} /\ writable' \subseteq writable /\ wpc' = "wait" /\ packet' = FALSE
        /\ UNCHANGED <<opened, stopped, readable, left, queueVars, retained, phaseVars,
                 accept, resume, cmd, status, terminal, frontVars, found>>
    BY <1>3 DEF stage_send
  <2> QED BY <2>1, <2>3, <2>4, <2>5 DEF queueVars, phaseVars, frontVars, TypeOK,
             TypeQuiche, TypeWorker, TypeShared, TypeFront
<1>4. CASE WorkerExits
  BY <1>4 DEF WorkerExits, quicheVars, queueVars, phaseVars, frontVars, TypeOK,
              TypeQuiche, TypeWorker, TypeShared, TypeFront
<1>5. CASE on_conn_close
  <2>1. cmd' \in Seq(Cmds)
    BY <1>5 DEF on_conn_close
  <2> QED BY <1>5, <2>1 DEF on_conn_close, quicheVars, queueVars, phaseVars, frontVars, TypeOK,
                            TypeQuiche, TypeWorker, TypeShared, TypeFront
<1> QED BY <1>1, <1>2, <1>3, <1>4, <1>5

\* The steps of the acceptor.
Accepting ==
  \/ \E c \in Classes : AcceptPoll(c)
  \/ AcceptSignal \/ AcceptNudge \/ AcceptTerminal \/ AcceptRecheck \/ AcceptClosed

\* They keep the types.
LEMMA AcceptTypes ==
  ASSUME TypeOK, Accepting
  PROVE  TypeOK'
<1>1. UNCHANGED_ByAccept
  BY DEF Accepting, AcceptPoll, AcceptSignal, AcceptNudge, AcceptTerminal, AcceptRecheck, AcceptClosed
<1>2. SUFFICES /\ accept' \in Queues /\ resume' \in [Classes -> BOOLEAN] /\ cmd' \in Seq(Cmds)
               /\ apc' \in {"idle", "signal", "nudge", "terminal", "recheck", "closed"}
               /\ acls' \in Classes /\ told' \in [Classes -> {"none", "terminal", "internal"}]
               /\ delivered' \subseteq Streams
  BY <1>1 DEF UNCHANGED_ByAccept, quicheVars, queueVars, phaseVars, TypeOK, TypeQuiche, TypeWorker,
              TypeShared, TypeFront
<1> DEFINE Goal == /\ accept' \in Queues /\ resume' \in [Classes -> BOOLEAN] /\ cmd' \in Seq(Cmds)
               /\ apc' \in {"idle", "signal", "nudge", "terminal", "recheck", "closed"}
               /\ acls' \in Classes /\ told' \in [Classes -> {"none", "terminal", "internal"}]
               /\ delivered' \subseteq Streams
<1>3. /\ accept \in Queues /\ resume \in [Classes -> BOOLEAN] /\ cmd \in Seq(Cmds)
      /\ acls \in Classes /\ told \in [Classes -> {"none", "terminal", "internal"}]
      /\ delivered \subseteq Streams /\ "bidi" \in Classes
  BY DEF TypeOK, TypeShared, TypeFront, Classes
<1>4. ASSUME NEW c \in Classes, AcceptPoll(c)
      PROVE  Goal
  <2>1. CASE accept[c] # <<>> /\ Pop(c) /\ apc' = "signal"
    <3>1. accept' \in Queues /\ delivered' \subseteq Streams
      BY <1>3, <2>1, PopElems
    <3> QED BY <1>3, <1>4, <2>1, <3>1 DEF AcceptPoll
  <2> QED BY <1>3, <1>4, <2>1 DEF AcceptPoll
<1>5. CASE AcceptSignal
  BY <1>3, <1>5 DEF AcceptSignal, Go
<1>6. CASE AcceptNudge
  <2>1. <<AcceptResume(acls)>> \in Seq(Cmds)
    BY <1>3, CmdMakers
  <2>2. cmd' \in Seq(Cmds)
    BY <1>6, <2>1, SendElems DEF AcceptNudge
  <2> QED BY <1>3, <1>6, <2>2 DEF AcceptNudge, Go
<1>7. CASE AcceptTerminal
  BY <1>3, <1>7 DEF AcceptTerminal, Go
<1>8. CASE AcceptRecheck
  <2>1. CASE accept[acls] # <<>> /\ Pop(acls) /\ Go("signal") /\ UNCHANGED told
    <3>1. accept' \in Queues /\ delivered' \subseteq Streams
      BY <1>3, <2>1, PopElems
    <3> QED BY <1>3, <1>8, <2>1, <3>1 DEF AcceptRecheck, Go
  <2> QED BY <1>3, <1>8, <2>1 DEF AcceptRecheck, Go
<1>9. CASE AcceptClosed
  BY <1>3, <1>9 DEF AcceptClosed, Go
<1> QED BY <1>4, <1>5, <1>6, <1>7, <1>8, <1>9 DEF Accepting

\* The steps of the destructors.
Drops ==
  ConnectionDrop \/ Dropping \/ \E s \in Streams : StreamDrop(s)

\* They keep the types.
LEMMA DropTypes ==
  ASSUME TypeOK, Drops
  PROVE  TypeOK'
<1>1. UNCHANGED_ByDrop
  BY DEF Drops, ConnectionDrop, Dropping, DropReceiver, DropHandoff, StreamDrop
<1>2. SUFFICES /\ accept' \in Queues /\ cmd' \in Seq(Cmds)
               /\ conn' \in {"live", "dropping", "rx_bidi", "dropped"} /\ released' \subseteq Streams
  BY <1>1 DEF UNCHANGED_ByDrop, quicheVars, queueVars, phaseVars, TypeOK, TypeQuiche, TypeWorker,
              TypeShared, TypeFront
<1>3. /\ accept \in Queues /\ cmd \in Seq(Cmds) /\ released \subseteq Streams
      /\ conn \in {"live", "dropping", "rx_bidi", "dropped"} /\ delivered \subseteq Streams
  BY DEF TypeOK, TypeShared, TypeFront
<1>4. CASE ConnectionDrop
  <2>1. <<ConnectionDropped>> \in Seq(Cmds)
    BY CmdMakers
  <2>2. cmd' \in Seq(Cmds)
    BY <1>4, <2>1, SendElems DEF ConnectionDrop
  <2> QED BY <1>3, <1>4, <2>2 DEF ConnectionDrop
<1>5. ASSUME NEW c \in Classes, DropReceiver(c)
      PROVE  /\ accept' \in Queues /\ cmd' \in Seq(Cmds)
             /\ conn' \in {"live", "dropping", "rx_bidi", "dropped"} /\ released' \subseteq Streams
  BY <1>3, <1>5 DEF DropReceiver
<1>6. ASSUME NEW c \in Classes, DropHandoff(c)
      PROVE  /\ accept' \in Queues /\ cmd' \in Seq(Cmds)
             /\ conn' \in {"live", "dropping", "rx_bidi", "dropped"} /\ released' \subseteq Streams
  <2>1. accept[c] # <<>> /\ accept' = Popped(accept, c) /\ Send(HandoffCleanup(Head(accept[c])))
    BY <1>6 DEF DropHandoff, Popped
  <2>2. accept' \in Queues /\ Head(accept[c]) \in Streams
    BY <1>3, <2>1, Pop1
  <2>3. HandoffCleanup(Head(accept[c])) \in Seq(Cmds)
    BY <2>2, Cleanup
  <2>4. cmd' \in Seq(Cmds)
    BY <2>1, <2>3, SendElems
  <2> QED BY <1>3, <1>6, <2>2, <2>4 DEF DropHandoff
<1>7. ASSUME NEW s \in Streams, StreamDrop(s)
      PROVE  /\ accept' \in Queues /\ cmd' \in Seq(Cmds)
             /\ conn' \in {"live", "dropping", "rx_bidi", "dropped"} /\ released' \subseteq Streams
  <2>1. HandoffCleanup(s) \in Seq(Cmds) /\ Send(HandoffCleanup(s))
    BY <1>7, Cleanup DEF StreamDrop
  <2>2. cmd' \in Seq(Cmds)
    BY <2>1, SendElems
  <2> QED BY <1>3, <1>7, <2>2 DEF StreamDrop
<1> QED BY <1>4, <1>5, <1>6, <1>7 DEF Drops, Dropping

\* A step is one of these.
LEMMA NextCases ==
  Next => \/ Packets \/ Wake \/ stage_send \/ WorkerExits \/ on_conn_close
          \/ intake_readable \/ stage_writable \/ phase2_admission
          \/ promote_parked \/ promote_retry \/ apply_inbox \/ Accepting \/ Drops
BY DEF Next, Worker, Accepting, Drops

\* Every step keeps the types.
LEMMA StepTypes ==
  ASSUME TypeOK, Next
  PROVE  TypeOK'
BY NextCases, WorkerTypes, ScanTypes, Phase2Types, PromoteTypes, ApplyTypes, AcceptTypes, DropTypes

-----------------------------------------------------------------------------
(* The terminal, and the nudge for a parked stream.                        *)

\* The terminal is published before the channels close, and reported last.
LEMMA StepSealed ==
  ASSUME TypeOK, Sealed, Next
  PROVE  Sealed'
<1> DEFINE End == {"closed", "exited"}
<1>1. /\ terminal <=> wpc \in End
      /\ apc = "recheck" => terminal
      /\ apc = "closed" => wpc = "exited" /\ accept[acls] = <<>>
      /\ \A c \in Classes : told[c] # "none" => terminal /\ told[c] = "terminal" /\ accept[c] = <<>>
  BY DEF Sealed
<1>2. ASSUME wpc \notin End, wpc' \notin End, UNCHANGED <<terminal, apc, acls, told>>
      PROVE  Sealed'
  BY <1>1, <1>2 DEF Sealed
<1>3. CASE Packets \/ Wake \/ stage_send \/ intake_readable \/ stage_writable
  BY <1>2, <1>3 DEF Packets, Wake, stage_send, intake_readable, stage_writable, frontVars
<1>4. CASE phase2_admission
  <2>1. wpc' \notin End
    BY <1>4, Phase2Cases DEF Phase2Ends, Phase2Takes
  <2> QED BY <1>2, <1>4, <2>1 DEF phase2_admission, frontVars
<1>5. CASE promote_parked
  <2>1. wpc' \notin End
    BY <1>5, Onward DEF promote_parked
  <2> QED BY <1>2, <1>5, <2>1 DEF promote_parked, frontVars
<1>6. CASE promote_retry
  <2>1. wpc' \notin End
    BY <1>6, Onward, RetryCases DEF RetryStops, RetryAdmits, RetryRefuses
  <2> QED BY <1>2, <1>6, <2>1 DEF promote_retry, frontVars
<1>7. CASE apply_inbox
  <2>1. wpc' \notin End
    BY <1>7, ApplyCases DEF ApplyEnds, ApplyTakes
  <2> QED BY <1>2, <1>7, <2>1 DEF apply_inbox, frontVars
<1>8. CASE WorkerExits
  BY <1>1, <1>8 DEF WorkerExits, frontVars, Sealed
<1>9. CASE on_conn_close
  BY <1>1, <1>9 DEF on_conn_close, frontVars, Sealed
<1>10. CASE Accepting
  <2>1. UNCHANGED <<wpc, terminal>>
    BY <1>10 DEF Accepting, AcceptPoll, AcceptSignal, AcceptNudge, AcceptTerminal, AcceptRecheck,
                 AcceptClosed, UNCHANGED_ByAccept
  <2>2. /\ accept \in Queues /\ acls \in Classes /\ told \in [Classes -> {"none", "terminal", "internal"}]
    BY DEF TypeOK, TypeShared, TypeFront
  <2>3. ASSUME NEW c \in Classes, accept[c] # <<>>, Pop(c)
        PROVE  \A d \in Classes : accept[d] = <<>> => accept'[d] = <<>>
    BY <2>2, <2>3, Pop1, PopElems
  <2>4. ASSUME NEW c \in Classes, AcceptPoll(c)
        PROVE  Sealed'
    <3>1. CASE accept[c] # <<>> /\ Pop(c) /\ apc' = "signal"
      BY <1>1, <2>1, <2>3, <2>4, <3>1 DEF AcceptPoll, Sealed
    <3>2. CASE accept[c] = <<>> /\ UNCHANGED <<accept, delivered>>
               /\ apc' = IF wpc = "exited" THEN "closed" ELSE "terminal"
      BY <1>1, <2>1, <2>4, <3>2 DEF AcceptPoll, Sealed
    <3> QED BY <2>4, <3>1, <3>2 DEF AcceptPoll
  <2>5. CASE AcceptSignal \/ AcceptNudge \/ AcceptTerminal
    BY <1>1, <2>1, <2>5 DEF AcceptSignal, AcceptNudge, AcceptTerminal, Go, Sealed
  <2>6. CASE AcceptRecheck
    <3>1. CASE accept[acls] # <<>> /\ Pop(acls) /\ Go("signal") /\ UNCHANGED told
      BY <1>1, <2>1, <2>2, <2>3, <2>6, <3>1 DEF Go, Sealed
    <3>2. CASE accept[acls] = <<>> /\ told' = [told EXCEPT ![acls] = "terminal"] /\ Go("idle")
               /\ UNCHANGED <<accept, delivered>>
      BY <1>1, <2>1, <2>2, <2>6, <3>2 DEF AcceptRecheck, Go, Sealed
    <3> QED BY <2>6, <3>1, <3>2 DEF AcceptRecheck
  <2>7. CASE AcceptClosed
    BY <1>1, <2>1, <2>2, <2>7 DEF AcceptClosed, Go, Sealed
  <2> QED BY <1>10, <2>4, <2>5, <2>6, <2>7 DEF Accepting
<1>11. CASE Drops
  <2>1. UNCHANGED <<wpc, terminal, apc, acls, told>>
    BY <1>11 DEF Drops, ConnectionDrop, Dropping, DropReceiver, DropHandoff, StreamDrop, UNCHANGED_ByDrop
  <2>2. \A d \in Classes : accept[d] = <<>> => accept'[d] = <<>>
    <3>1. ASSUME NEW c \in Classes, DropHandoff(c)
          PROVE  \A d \in Classes : accept[d] = <<>> => accept'[d] = <<>>
      <4>1. accept[c] # <<>> /\ accept' = Popped(accept, c) /\ accept \in Queues
        BY <3>1 DEF DropHandoff, Popped, TypeOK, TypeShared
      <4> QED BY <4>1, Pop1
    <3> QED BY <1>11, <3>1 DEF Drops, ConnectionDrop, Dropping, DropReceiver, StreamDrop
  <2>3. acls \in Classes
    BY DEF TypeOK, TypeFront
  <2> QED BY <1>1, <2>1, <2>2, <2>3 DEF Sealed
<1> QED BY <1>3, <1>4, <1>5, <1>6, <1>7, <1>8, <1>9, <1>10, <1>11, NextCases

\* A channel that is full is not empty.
LEMMA FullIsSome ==
  ASSUME TypeOK, NEW c \in Classes, Full(c)
  PROVE  accept[c] # <<>>
<1>1. ACCEPT_CAP \in Nat /\ ACCEPT_CAP > 0 /\ Len(<<>>) = 0
  BY AdmissionAssumption
<1> QED BY <1>1 DEF Full

\* Nobody goes to sleep on a parked stream without a reason to be woken.
LEMMA StepNudged ==
  ASSUME TypeOK, Nudged, Next
  PROVE  Nudged'
<1> DEFINE End == {"closed", "exited"}
<1> DEFINE Cause(c) == \/ accept[c] # <<>> \/ OnItsWay(c) \/ (apc = "signal" /\ acls = c)
                       \/ resume[c] \/ (wpc = "retry" /\ prefer = c /\ left > 0)
<1> DEFINE Asleep(c) == wpc = "wait" /\ resume[c] => needs_iteration \/ OnItsWay(c)
<1>1. \A c \in Classes : parked[c] # <<>> /\ conn = "live" /\ wpc \notin End => Cause(c) /\ Asleep(c)
  BY DEF Nudged
<1>2. SUFFICES ASSUME NEW c \in Classes, parked'[c] # <<>>, conn' = "live", wpc' \notin End
               PROVE  Cause(c)' /\ Asleep(c)'
  BY DEF Nudged
<1>3. /\ accept \in Queues /\ parked \in Queues /\ prefer \in Classes /\ left \in Nat
      /\ resume \in [Classes -> BOOLEAN] /\ cmd \in Seq(Cmds) /\ acls \in Classes
  BY DEF TypeOK, TypeWorker, TypeShared, TypeFront
<1>4. CASE Packets \/ Wake
  <2>1. UNCHANGED <<parked, conn, accept, cmd, apc, acls, resume, prefer>> /\ wpc = "wait" /\ wpc' \in {"intake", "apply"}
    BY <1>4 DEF Packets, Wake, queueVars, phaseVars, frontVars
  <2> QED BY <1>1, <1>2, <2>1 DEF OnItsWay
<1>5. CASE intake_readable \/ stage_writable
  <2>1. /\ UNCHANGED <<parked, conn, accept, cmd, apc, acls, resume>>
        /\ wpc \in {"intake", "writable"} /\ wpc' \in {"phase2", "send"}
    BY <1>5 DEF intake_readable, stage_writable, frontVars
  <2> QED BY <1>1, <1>2, <2>1 DEF OnItsWay
<1>6. CASE stage_send
  <2>1. /\ UNCHANGED <<parked, conn, accept, cmd, apc, acls, resume, prefer>>
        /\ wpc = "send" /\ wpc' = "wait"
    BY <1>6 DEF stage_send, queueVars, phaseVars, frontVars
  <2>2. resume[c] => has_runnable_remainder
    BY <1>2, <2>1 DEF has_runnable_remainder
  <2>3. has_runnable_remainder => needs_iteration'
    BY <1>6 DEF stage_send
  <2> QED BY <1>1, <1>2, <2>1, <2>2, <2>3 DEF OnItsWay
<1>7. CASE phase2_admission
  <2>1. /\ UNCHANGED <<conn, cmd, apc, acls, resume>> /\ wpc = "phase2"
    BY <1>7 DEF phase2_admission, frontVars
  <2>2. CASE Phase2Ends
    <3>1. UNCHANGED <<parked, accept>> /\ wpc' = "promote"
      BY <2>2 DEF Phase2Ends, queueVars
    <3> QED BY <1>1, <1>2, <2>1, <3>1 DEF OnItsWay
  <2>3. ASSUME NEW d \in Classes, NEW s \in Of(d), Phase2Takes(d, s),
               Phase2Admits(d, s) \/ Phase2Parks(d, s) \/ Phase2Refuses(d, s)
        PROVE  Cause(c)' /\ Asleep(c)'
    <3>1. wpc' = "phase2"
      BY <2>1, <2>3 DEF Phase2Takes
    <3>2. accept[c] # <<>> => accept'[c] # <<>>
      <4>1. CASE Phase2Admits(d, s)
        <5>1. accept' = Pushed(accept, d, s)
          BY <4>1, Registered DEF Phase2Admits
        <5>2. accept[d] \in Seq(Streams) /\ s \in Streams
          BY <1>3, ClassFacts, QueueFacts
        <5>3. Append(accept[d], s) # <<>>
          BY <5>2
        <5> QED BY <1>3, <5>1, <5>3, Push
      <4> QED BY <2>3, <4>1 DEF Phase2Parks, Phase2Refuses
    <3>3. CASE c = d /\ Phase2Parks(d, s)
      <4>1. accept[c] # <<>>
        BY <3>3, FullIsSome DEF Phase2Parks
      <4> QED BY <3>1, <3>2, <4>1
    <3>4. CASE ~(c = d /\ Phase2Parks(d, s))
      <4>1. parked'[c] = parked[c]
        <5>1. CASE Phase2Parks(d, s)
          BY <1>3, <3>4, <5>1, Push DEF Phase2Parks
        <5> QED BY <2>3, <5>1 DEF Phase2Admits, Phase2Refuses
      <4> QED BY <1>1, <1>2, <2>1, <3>1, <3>2, <4>1 DEF OnItsWay
    <3> QED BY <3>3, <3>4
  <2> QED BY <1>7, <2>2, <2>3, Phase2Cases
<1>8. CASE promote_parked
  <2>1. UNCHANGED <<parked, conn, accept, cmd, apc, acls>> /\ wpc = "promote"
    BY <1>8 DEF promote_parked, queueVars, frontVars
  <2>2. CASE resume[prefer]
    <3>1. /\ resume' = [resume EXCEPT ![prefer] = FALSE] /\ prefer' = prefer
          /\ wpc' = "retry" /\ left' > 0
      BY <1>8, <2>2, AdmissionAssumption DEF promote_parked
    <3>2. c # prefer => resume'[c] = resume[c]
      BY <1>3, <3>1
    <3> QED BY <1>1, <1>2, <2>1, <3>1, <3>2 DEF OnItsWay
  <2>3. CASE ~resume[prefer]
    <3>1. resume' = resume /\ wpc' # "wait"
      BY <1>8, <2>3, Onward DEF promote_parked
    <3> QED BY <1>1, <1>2, <2>1, <3>1 DEF OnItsWay
  <2> QED BY <2>2, <2>3
<1>9. CASE promote_retry
  <2>1. UNCHANGED <<conn, cmd, apc, acls, resume>> /\ wpc = "retry"
    BY <1>9 DEF promote_retry, frontVars
  <2>2. CASE RetryStops
    <3>1. UNCHANGED <<parked, accept>> /\ wpc' # "wait"
      BY <2>2, Onward DEF RetryStops
    <3>2. prefer = c => left = 0 \/ accept[c] # <<>>
      BY <1>2, <1>3, <2>2, <3>1, FullIsSome DEF RetryStops
    <3> QED BY <1>1, <1>2, <2>1, <3>1, <3>2 DEF OnItsWay
  <2>3. ASSUME NEW s \in Of(prefer), parked[prefer] # <<>>, s = Head(parked[prefer]),
               parked' = Popped(parked, prefer), RetryAdmits(prefer, s)
        PROVE  Cause(c)' /\ Asleep(c)'
    <3>1. accept' = Pushed(accept, prefer, s) /\ wpc' = wpc
      BY <1>3, <2>3, Registered DEF RetryAdmits
    <3>2. accept[prefer] \in Seq(Streams) /\ s \in Streams
      BY <1>3, ClassFacts, QueueFacts
    <3>3. Append(accept[prefer], s) # <<>>
      BY <3>2
    <3>4. c = prefer => accept'[c] # <<>>
      BY <1>3, <3>1, <3>3, Push
    <3>5. c # prefer => accept'[c] = accept[c] /\ parked'[c] = parked[c]
      BY <1>3, <2>3, <3>1, Push, Pop1
    <3> QED BY <1>1, <1>2, <2>1, <3>1, <3>4, <3>5 DEF OnItsWay
  <2>4. ASSUME NEW s \in Of(prefer), RetryRefuses(prefer, s)
        PROVE  FALSE
    BY <1>2, <2>1, <2>4 DEF RetryRefuses, RxOpen
  <2> QED BY <1>9, <2>2, <2>3, <2>4, RetryCases
<1>10. CASE apply_inbox
  <2>1. UNCHANGED <<conn, accept, apc, acls, prefer>> /\ wpc = "apply"
    BY <1>10 DEF apply_inbox, frontVars, phaseVars
  <2>2. CASE ApplyEnds
    <3>1. UNCHANGED <<cmd, resume, parked>> /\ wpc' # "wait"
      BY <2>2 DEF ApplyEnds, queueVars
    <3> QED BY <1>1, <1>2, <2>1, <3>1 DEF OnItsWay
  <2>3. ASSUME NEW m \in Cmds, ApplyTakes(m),
               ApplyResume(m) \/ ApplyDropped(m) \/ ApplyStop(m) \/ ApplyFinish(m)
        PROVE  Cause(c)' /\ Asleep(c)'
    <3>1. wpc' = "apply" /\ cmd # <<>> /\ m = Head(cmd) /\ cmd' = Tail(cmd)
      BY <2>1, <2>3 DEF ApplyTakes
    <3>2. Range(cmd) = {m} \cup Range(cmd')
      BY <1>3, <3>1, TailElems
    <3>3. parked[c] # <<>>
      <4>1. CASE ApplyDropped(m)
        BY <1>2, <4>1, Cleaned DEF ApplyDropped
      <4> QED BY <1>2, <2>3, <4>1 DEF ApplyResume, ApplyStop, ApplyFinish, queueVars
    <3>4. resume[c] => resume'[c]
      BY <1>3, <2>3 DEF ApplyResume, ApplyDropped, ApplyStop, ApplyFinish
    <3>5. m = AcceptResume(c) => resume'[c]
      BY <1>3, <2>3, CmdMakers DEF ApplyResume, ApplyDropped, ApplyStop, ApplyFinish, AcceptResume
    <3> QED BY <1>1, <1>2, <2>1, <3>1, <3>2, <3>3, <3>4, <3>5 DEF OnItsWay
  <2> QED BY <1>10, <2>2, <2>3, ApplyCases
<1>11. CASE WorkerExits \/ on_conn_close
  BY <1>2, <1>11 DEF WorkerExits, on_conn_close
<1>12. CASE Accepting
  <2>1. UNCHANGED <<wpc, conn, parked, prefer, left, needs_iteration>>
    BY <1>12 DEF Accepting, AcceptPoll, AcceptSignal, AcceptNudge, AcceptTerminal, AcceptRecheck,
                 AcceptClosed, UNCHANGED_ByAccept, queueVars, phaseVars
  <2>2. Cause(c) /\ Asleep(c) /\ wpc \notin End
    BY <1>1, <1>2, <2>1
  <2>3. ASSUME NEW d \in Classes, accept[d] # <<>>, Pop(d)
        PROVE  c # d => accept'[c] = accept[c]
    BY <1>3, <2>3, Pop1, PopElems
  <2>4. ASSUME NEW d \in Classes, AcceptPoll(d)
        PROVE  Cause(c)' /\ Asleep(c)'
    <3>1. apc = "idle" /\ acls' = d /\ UNCHANGED <<resume, cmd>>
      BY <2>4 DEF AcceptPoll
    <3>2. CASE accept[d] # <<>> /\ Pop(d) /\ apc' = "signal"
      <4>1. c = d \/ accept'[c] = accept[c]
        BY <2>3, <3>2
      <4> QED BY <2>1, <2>2, <3>1, <3>2, <4>1 DEF OnItsWay
    <3>3. CASE UNCHANGED accept
      BY <2>1, <2>2, <3>1, <3>3 DEF OnItsWay
    <3> QED BY <2>4, <3>2, <3>3 DEF AcceptPoll
  <2>5. CASE AcceptSignal
    <3>1. /\ apc = "signal" /\ resume' = [resume EXCEPT ![acls] = TRUE] /\ UNCHANGED <<accept, cmd>>
          /\ Go(IF resume[acls] THEN "idle" ELSE "nudge")
      BY <2>5 DEF AcceptSignal
    <3>2. CASE c = acls
      <4>1. resume'[c] = TRUE
        BY <1>3, <3>1, <3>2
      <4>2. ~resume[c] => apc' = "nudge" /\ acls' = c
        BY <3>1, <3>2 DEF Go
      <4> QED BY <2>1, <2>2, <3>1, <4>1, <4>2 DEF OnItsWay
    <3>3. CASE c # acls
      <4>1. resume'[c] = resume[c]
        BY <1>3, <3>1, <3>3
      <4> QED BY <2>1, <2>2, <3>1, <3>3, <4>1 DEF OnItsWay
    <3> QED BY <3>2, <3>3
  <2>6. CASE AcceptNudge
    <3>1. /\ apc = "nudge" /\ Send(<<AcceptResume(acls)>>) /\ UNCHANGED <<accept, resume>>
      BY <2>6 DEF AcceptNudge
    <3>2. <<AcceptResume(acls)>> \in Seq(Cmds)
      BY <1>3, CmdMakers
    <3>3. Range(cmd') = Range(cmd) \cup Range(<<AcceptResume(acls)>>)
      BY <2>2, <3>1, <3>2, SendElems
    <3>4. AcceptResume(acls) \in Range(<<AcceptResume(acls)>>)
      BY DEF Range
    <3> QED BY <2>1, <2>2, <3>1, <3>3, <3>4 DEF OnItsWay
  <2>7. CASE AcceptTerminal \/ AcceptClosed
    BY <2>1, <2>2, <2>7 DEF AcceptTerminal, AcceptClosed, OnItsWay
  <2>8. CASE AcceptRecheck
    <3>1. apc = "recheck" /\ UNCHANGED <<resume, cmd>>
      BY <2>8 DEF AcceptRecheck
    <3>2. CASE accept[acls] # <<>> /\ Pop(acls) /\ Go("signal")
      <4>1. (c = acls \/ accept'[c] = accept[c]) /\ apc' = "signal" /\ acls' = acls
        BY <1>3, <2>3, <3>2 DEF Go
      <4> QED BY <2>1, <2>2, <3>1, <4>1 DEF OnItsWay
    <3>3. CASE UNCHANGED accept
      BY <2>1, <2>2, <3>1, <3>3 DEF OnItsWay
    <3> QED BY <2>8, <3>2, <3>3 DEF AcceptRecheck
  <2> QED BY <1>12, <2>4, <2>5, <2>6, <2>7, <2>8 DEF Accepting
<1>13. CASE Drops
  <2>1. UNCHANGED <<wpc, parked, prefer, left, needs_iteration, apc, acls, resume>>
    BY <1>13 DEF Drops, ConnectionDrop, Dropping, DropReceiver, DropHandoff, StreamDrop,
                 UNCHANGED_ByDrop, queueVars, phaseVars
  <2>2. ASSUME NEW s \in Streams, StreamDrop(s)
        PROVE  Cause(c)' /\ Asleep(c)'
    <3>1. UNCHANGED <<accept, conn>> /\ Send(HandoffCleanup(s)) /\ HandoffCleanup(s) \in Seq(Cmds)
      BY <2>2, Cleanup DEF StreamDrop
    <3>2. Range(cmd) \subseteq Range(cmd')
      BY <3>1, SendElems
    <3> QED BY <1>1, <1>2, <2>1, <3>1, <3>2 DEF OnItsWay
  <2>3. ASSUME ConnectionDrop \/ \E d \in Classes : DropReceiver(d) \/ DropHandoff(d)
        PROVE  FALSE
    BY <1>2, <2>3 DEF ConnectionDrop, DropReceiver, DropHandoff, RxOpen
  <2> QED BY <1>13, <2>2, <2>3 DEF Drops, Dropping
<1> QED BY <1>4, <1>5, <1>6, <1>7, <1>8, <1>9, <1>10, <1>11, <1>12, <1>13, NextCases

-----------------------------------------------------------------------------
(* The places of a stream.                                                 *)

\* Steps that move no stream; directions may end and streams be forgotten.
LEMMA QuietPlaces ==
  ASSUME TypeOK, Places, UNCHANGED <<pending, parked, accept, found, pending_admit, delivered, retained>>,
         \A s \in Streams : admit'[s] = admit[s] \/ (admit[s] = "registered" /\ admit'[s] = "none"),
         \A s \in Streams : closed[s] = Dirs(s) => closed'[s] = Dirs(s),
         \A c \in Classes : RxOpen(c)' => RxOpen(c)
  PROVE  Places'
<1>1. Parked' = Parked
  BY DEF Parked
<1>2. Queued(pending') = Queued(pending) /\ Queued(parked') = Queued(parked)
      /\ Queued(accept') = Queued(accept) /\ Found' = Found
  BY DEF Found, Queued
<1>3. \A s : Somewhere(s)' <=> Somewhere(s)
  BY <1>2 DEF Somewhere
<1>4. Found \subseteq Streams /\ pending_admit \subseteq Streams /\ delivered \subseteq Streams
      /\ Queued(accept) \subseteq Streams
  BY QueueFacts DEF TypeOK, TypeWorker, TypeShared, TypeFront, Found
<1>5. \A s \in Streams : Class(s) \in Classes
  BY ClassFacts
<1>6. /\ AllInjective(pending') /\ AllInjective(parked') /\ AllInjective(accept') /\ AllInjective(found')
  BY DEF Places
<1>7. /\ pending_admit' = Queued(pending)' /\ Parked' = Queued(parked)'
      /\ \A s \in pending_admit' : admit'[s] = "none"
  BY <1>1, <1>2, <1>4 DEF Places
<1>8. /\ \A s \in Queued(accept)' : s \notin pending_admit' /\ admit'[s] # "parked" /\ s \notin delivered'
      /\ \A s \in delivered' : s \notin pending_admit' /\ admit'[s] # "parked"
  BY <1>2, <1>4 DEF Places
<1>9. \A s \in Streams : Somewhere(s)' \/ admit'[s] # "none" => s \in Found'
  BY <1>2, <1>3 DEF Places
<1>10. \A s \in Found' : Somewhere(s)' \/ closed'[s] = Dirs(s) \/ ~RxOpen(Class(s))'
  BY <1>2, <1>3, <1>4, <1>5 DEF Places
<1>11. retained' \subseteq pending_admit' \cup Parked'
  BY <1>1 DEF Places
<1> QED BY <1>6, <1>7, <1>8, <1>9, <1>10, <1>11 DEF Places

\* A cursor returns no stream that was found and forgotten.
LEMMA NewIds ==
  ASSUME TypeOK, Ends, NEW ids \in SUBSET Streams, ids \subseteq readable \/ ids \subseteq writable
  PROVE  /\ {s \in ids : Unknown(s)} \cap Found = {}
         /\ {s \in ids : Unknown(s)} \subseteq opened \cup stopped
<1>1. \A s \in ids : Unknown(s) => s \notin Found
  BY DEF Ends, EndOf, Gone, Unknown
<1>2. ids \subseteq opened \cup stopped
  BY DEF Ends, Grounds, TypeOK, TypeQuiche
<1> QED BY <1>1, <1>2

\* The two scans.
LEMMA ScanPlaces ==
  ASSUME TypeOK, Places, Ends, intake_readable \/ stage_writable
  PROVE  Places'
<1>1. PICK ids \in SUBSET Streams : IntakeTakes(ids) \/ (ids \subseteq Bidi /\ WritableTakes(ids))
  BY IntakeCase, WritableCase, ClassFacts
<1> DEFINE N == {s \in ids : Unknown(s)}
<1>2. N \cap Found = {} /\ N \subseteq Streams /\ Discover(N)
  <2>1. ids \subseteq readable \/ ids \subseteq writable
    BY <1>1 DEF IntakeTakes, WritableTakes
  <2> QED BY <1>1, <2>1, NewIds DEF IntakeTakes, WritableTakes
<1>3. \A s \in N : admit[s] = "none" /\ s \notin pending_admit
  BY DEF Unknown
<1>4. N \subseteq ids /\ \A s \in ids : s \notin N => admit[s] # "none" \/ s \in pending_admit
  BY DEF Unknown
<1> HIDE DEF N
<1>5. PICK new \in Queues : /\ Queued(new) = N /\ AllInjective(new)
                            /\ pending_admit' = pending_admit \cup N
                            /\ pending' = Joined(pending, new) /\ found' = Joined(found, new)
  BY <1>2, Discovered
<1>6. pending \in Queues /\ found \in Queues /\ accept \in Queues /\ parked \in Queues
      /\ delivered \subseteq Streams /\ pending_admit \subseteq Streams
  BY DEF TypeOK, TypeWorker, TypeShared, TypeFront
<1>7. /\ AllInjective(pending) /\ AllInjective(parked) /\ AllInjective(accept) /\ AllInjective(found)
      /\ pending_admit = Queued(pending) /\ Parked = Queued(parked)
      /\ \A s \in pending_admit : admit[s] = "none"
      /\ \A s \in Queued(accept) : s \notin pending_admit /\ admit[s] # "parked" /\ s \notin delivered
      /\ \A s \in delivered : s \notin pending_admit /\ admit[s] # "parked"
      /\ \A s \in Streams : Somewhere(s) \/ admit[s] # "none" => s \in Found
      /\ \A s \in Found : Somewhere(s) \/ closed[s] = Dirs(s) \/ ~RxOpen(Class(s))
      /\ retained \subseteq pending_admit \cup Parked
  BY DEF Places
<1>8. Queued(pending') = Queued(pending) \cup N /\ Found' = Found \cup N
  BY <1>5, <1>6, Join DEF Found
<1>9. UNCHANGED <<parked, accept, delivered, closed, conn>>
  BY <1>1 DEF IntakeTakes, WritableTakes, frontVars
<1>10. \A s \in Streams : admit'[s] = admit[s] \/ (admit[s] = "registered" /\ admit'[s] = "none")
  <2>1. CASE IntakeTakes(ids)
    BY <2>1 DEF IntakeTakes
  <2>2. CASE ids \subseteq Bidi /\ WritableTakes(ids)
    <3>1. \A s \in Stopped(ids) : s \in Streams /\ "send" \in Dirs(s)
      BY <2>2, ClassFacts DEF Stopped
    <3>2. MarkDone(Stopped(ids), "send")
      BY <2>2 DEF WritableTakes
    <3> QED BY <3>1, <3>2, Marked
  <2> QED BY <1>1, <2>1, <2>2
<1>11. retained' \subseteq retained \cup {s \in ids : admit[s] # "registered"}
  BY <1>1 DEF IntakeTakes, WritableTakes
<1>12. \A s \in ids : admit[s] \in {"none", "parked", "registered"}
  BY DEF TypeOK, TypeWorker
<1>13. Parked' = Parked
  BY <1>10 DEF Parked
<1>14. Queued(parked') = Queued(parked) /\ Queued(accept') = Queued(accept)
  BY <1>9
<1>15. \A s : Somewhere(s)' <=> Somewhere(s) \/ s \in N
  BY <1>8, <1>9 DEF Somewhere
<1>16. Queued(accept) \subseteq Streams /\ Found \subseteq Streams
  BY <1>6, QueueFacts DEF Found
<1>17. AllInjective(pending') /\ AllInjective(parked') /\ AllInjective(accept') /\ AllInjective(found')
  <2>1. Queued(pending) \cap Queued(new) = {} /\ Queued(found) \cap Queued(new) = {}
    BY <1>2, <1>3, <1>5, <1>7 DEF Found
  <2> QED BY <1>5, <1>6, <1>7, <1>9, <2>1, Join
<1>18. /\ pending_admit' = Queued(pending)' /\ Parked' = Queued(parked)'
       /\ \A s \in pending_admit' : admit'[s] = "none"
  BY <1>2, <1>3, <1>5, <1>6, <1>7, <1>8, <1>10, <1>13, <1>14
<1>19. \A s \in Streams : Somewhere(s) => s \in Found
  BY <1>7
<1>20. /\ \A s \in Queued(accept)' : s \notin pending_admit' /\ admit'[s] # "parked" /\ s \notin delivered'
       /\ \A s \in delivered' : s \notin pending_admit' /\ admit'[s] # "parked"
  <2>1. \A s \in Queued(accept) : s \notin N
    BY <1>2, <1>16, <1>19 DEF Somewhere
  <2>2. \A s \in delivered : s \notin N
    BY <1>2, <1>6, <1>19 DEF Somewhere
  <2> QED BY <1>5, <1>6, <1>7, <1>9, <1>10, <1>14, <1>16, <2>1, <2>2
<1>21. \A s \in Streams : Somewhere(s)' \/ admit'[s] # "none" => s \in Found'
  BY <1>7, <1>8, <1>10, <1>15
<1>22. \A s \in Found' : Somewhere(s)' \/ closed'[s] = Dirs(s) \/ ~RxOpen(Class(s))'
  BY <1>7, <1>8, <1>9, <1>15 DEF RxOpen
<1>23. retained' \subseteq pending_admit' \cup Parked'
  <2>1. \A s \in ids : admit[s] # "registered" => s \in N \/ s \in pending_admit \/ s \in Parked
    BY <1>1, <1>4, <1>12 DEF Parked
  <2> QED BY <1>5, <1>7, <1>11, <1>13, <2>1
<1> QED BY <1>17, <1>18, <1>20, <1>21, <1>22, <1>23 DEF Places

\* The parts of Places, to be cited one by one.
LEMMA PlaceFacts ==
  ASSUME TypeOK, Places
  PROVE  /\ AllInjective(pending) /\ AllInjective(parked) /\ AllInjective(accept) /\ AllInjective(found)
         /\ pending_admit = Queued(pending) /\ Parked = Queued(parked)
         /\ \A s \in pending_admit : admit[s] = "none"
         /\ \A s \in Queued(accept) : s \notin pending_admit /\ admit[s] # "parked" /\ s \notin delivered
         /\ \A s \in delivered : s \notin pending_admit /\ admit[s] # "parked"
         /\ \A s \in Streams : Somewhere(s) \/ admit[s] # "none" => s \in Found
         /\ \A s \in Found : Somewhere(s) \/ closed[s] = Dirs(s) \/ ~RxOpen(Class(s))
         /\ retained \subseteq pending_admit \cup Parked
         /\ Found \subseteq Streams /\ pending_admit \subseteq Streams /\ delivered \subseteq Streams
         /\ Queued(accept) \subseteq Streams /\ Parked \subseteq Streams
         /\ pending \in Queues /\ parked \in Queues /\ accept \in Queues /\ found \in Queues
         /\ pending_admit \subseteq Found /\ Parked \subseteq Found
         /\ Queued(accept) \subseteq Found /\ delivered \subseteq Found
<1>1. /\ pending \in Queues /\ parked \in Queues /\ accept \in Queues /\ found \in Queues
      /\ pending_admit \subseteq Streams /\ delivered \subseteq Streams
  BY DEF TypeOK, TypeWorker, TypeShared, TypeFront
<1>2. Found \subseteq Streams /\ Queued(accept) \subseteq Streams /\ Parked \subseteq Streams
  BY <1>1, QueueFacts DEF Found, Parked
<1>3. /\ pending_admit = Queued(pending) /\ Parked = Queued(parked)
      /\ \A s \in Streams : Somewhere(s) => s \in Found
  BY DEF Places
<1>4. /\ pending_admit \subseteq Found /\ Parked \subseteq Found
      /\ Queued(accept) \subseteq Found /\ delivered \subseteq Found
  BY <1>1, <1>2, <1>3 DEF Somewhere
<1> QED BY <1>1, <1>2, <1>4 DEF Places

\* A pending or parked stream is registered: it goes into the channel.
LEMMA AdmitPlaces ==
  ASSUME TypeOK, Places, NEW c \in Classes, NEW s \in Of(c), Register(s),
         \/ /\ pending[c] # <<>> /\ s = Head(pending[c]) /\ pending' = Popped(pending, c)
            /\ pending_admit' = pending_admit \ {s} /\ UNCHANGED parked
         \/ /\ parked[c] # <<>> /\ s = Head(parked[c]) /\ parked' = Popped(parked, c)
            /\ UNCHANGED <<pending, pending_admit>>,
         UNCHANGED <<found, delivered, closed, conn>>
  PROVE  Places'
<1>1. s \in Streams
  BY ClassFacts
<1>2. /\ accept' = Pushed(accept, c, s)
      /\ \A t \in Streams : t # s => admit'[t] = admit[t]
      /\ admit'[s] = "registered" /\ retained' = retained \ {s}
  BY Registered
<1>3. s \in pending_admit \/ s \in Parked
  BY Pop1, PlaceFacts
<1>4. s \notin Queued(accept) /\ s \notin delivered /\ s \in Found
  BY <1>3, PlaceFacts DEF Parked
<1>5. /\ Queued(pending') = Queued(pending) \ {s} /\ AllInjective(pending')
      /\ pending_admit' = pending_admit \ {s}
  <2>1. CASE pending[c] # <<>> /\ s = Head(pending[c]) /\ pending' = Popped(pending, c)
             /\ pending_admit' = pending_admit \ {s}
    BY <2>1, Pop1, PlaceFacts
  <2>2. CASE parked[c] # <<>> /\ s = Head(parked[c]) /\ UNCHANGED <<pending, pending_admit>>
    <3>1. s \in Parked
      BY <2>2, Pop1, PlaceFacts
    <3>2. s \notin pending_admit
      BY <3>1, PlaceFacts DEF Parked
    <3> QED BY <2>2, <3>2, PlaceFacts
  <2> QED BY <2>1, <2>2
<1>6. Queued(parked') = Queued(parked) \ {s} /\ AllInjective(parked')
  <2>1. CASE parked[c] # <<>> /\ s = Head(parked[c]) /\ parked' = Popped(parked, c)
    BY <2>1, Pop1, PlaceFacts
  <2>2. CASE pending[c] # <<>> /\ s = Head(pending[c]) /\ UNCHANGED parked
    <3>1. s \in pending_admit
      BY <2>2, Pop1, PlaceFacts
    <3>2. s \notin Parked
      BY <3>1, PlaceFacts DEF Parked
    <3> QED BY <2>2, <3>2, PlaceFacts
  <2> QED BY <2>1, <2>2
<1>7. Queued(accept') = Queued(accept) \cup {s} /\ AllInjective(accept')
  BY <1>2, <1>4, Push, PlaceFacts
<1>8. Parked' = Parked \ {s}
  BY <1>1, <1>2 DEF Parked
<1>9. Found' = Found
  BY DEF Found
<1>10. \A t : Somewhere(t)' <=> Somewhere(t) \/ t = s
  BY <1>5, <1>6, <1>7 DEF Somewhere
<1>11. AllInjective(found')
  BY PlaceFacts
<1>12. /\ pending_admit' = Queued(pending)' /\ Parked' = Queued(parked)'
       /\ \A t \in pending_admit' : admit'[t] = "none"
  BY <1>2, <1>5, <1>6, <1>8, PlaceFacts
<1>13. /\ \A t \in Queued(accept)' : t \notin pending_admit' /\ admit'[t] # "parked" /\ t \notin delivered'
       /\ \A t \in delivered' : t \notin pending_admit' /\ admit'[t] # "parked"
  BY <1>1, <1>2, <1>4, <1>5, <1>7, PlaceFacts
<1>14. \A t \in Streams : Somewhere(t)' \/ admit'[t] # "none" => t \in Found'
  BY <1>2, <1>4, <1>9, <1>10, PlaceFacts
<1>15. \A t \in Found' : Somewhere(t)' \/ closed'[t] = Dirs(t) \/ ~RxOpen(Class(t))'
  BY <1>9, <1>10, PlaceFacts DEF RxOpen
<1>16. retained' \subseteq pending_admit' \cup Parked'
  BY <1>2, <1>5, <1>8, PlaceFacts
<1> QED BY <1>5, <1>6, <1>7, <1>11, <1>12, <1>13, <1>14, <1>15, <1>16 DEF Places

\* Pending or parked streams are shut down and leave their queue.
LEMMA RefusePlaces ==
  ASSUME TypeOK, Places, NEW W, W \subseteq pending_admit \cup Parked,
         pending' \in Queues, parked' \in Queues, AllInjective(pending'), AllInjective(parked'),
         Queued(pending') = Queued(pending) \ W, Queued(parked') = Queued(parked) \ W,
         pending_admit' = pending_admit \ W, retained' = retained \ W,
         \A s \in Streams : admit'[s] = IF s \in W THEN "none" ELSE admit[s],
         \A s \in Streams : closed'[s] = IF s \in W THEN Dirs(s) ELSE closed[s],
         UNCHANGED <<found, accept, delivered, conn>>
  PROVE  Places'
<1>1. Parked' = Parked \ W
  BY DEF Parked
<1>2. Found' = Found /\ Queued(accept') = Queued(accept)
  BY DEF Found
<1>3. \A t : t \notin W => (Somewhere(t)' <=> Somewhere(t))
  BY DEF Somewhere
<1>4. \A t : Somewhere(t)' => Somewhere(t)
  BY DEF Somewhere
<1>5. AllInjective(accept') /\ AllInjective(found')
  BY PlaceFacts
<1>6. /\ pending_admit' = Queued(pending)' /\ Parked' = Queued(parked)'
      /\ \A t \in pending_admit' : admit'[t] = "none"
  BY <1>1, PlaceFacts
<1>7. /\ \A t \in Queued(accept)' : t \notin pending_admit' /\ admit'[t] # "parked" /\ t \notin delivered'
      /\ \A t \in delivered' : t \notin pending_admit' /\ admit'[t] # "parked"
  BY <1>2, PlaceFacts
<1>8. \A t \in Streams : Somewhere(t)' \/ admit'[t] # "none" => t \in Found'
  BY <1>2, <1>4, PlaceFacts
<1>9. \A t \in Found' : Somewhere(t)' \/ closed'[t] = Dirs(t) \/ ~RxOpen(Class(t))'
  BY <1>2, <1>3, PlaceFacts DEF RxOpen
<1>10. retained' \subseteq pending_admit' \cup Parked'
  BY <1>1, PlaceFacts
<1> QED BY <1>5, <1>6, <1>7, <1>8, <1>9, <1>10 DEF Places

\* phase2_admission.
LEMMA Phase2Places ==
  ASSUME TypeOK, Places, phase2_admission
  PROVE  Places'
<1>1. UNCHANGED <<found, delivered, conn>>
  BY DEF phase2_admission, frontVars
<1>2. CASE Phase2Ends
  BY <1>1, <1>2, QuietPlaces DEF Phase2Ends, queueVars, shutVars, RxOpen
<1>3. ASSUME NEW c \in Classes, NEW s \in Of(c), Phase2Takes(c, s)
      PROVE  /\ pending[c] # <<>> /\ s = Head(pending[c]) /\ pending' = Popped(pending, c)
             /\ pending_admit' = pending_admit \ {s}
             /\ pending' \in Queues /\ AllInjective(pending') /\ s \in pending_admit /\ s \in Streams
             /\ Queued(pending') = Queued(pending) \ {s}
             /\ admit[s] = "none" /\ s \notin Parked /\ s \notin Queued(accept)
             /\ s \notin delivered /\ s \in Found
  <2>1. /\ pending[c] # <<>> /\ s = Head(pending[c]) /\ pending' = Popped(pending, c)
        /\ pending_admit' = pending_admit \ {s}
    BY <1>3 DEF Phase2Takes
  <2>2. /\ pending' \in Queues /\ AllInjective(pending') /\ s \in pending_admit /\ s \in Streams
        /\ Queued(pending') = Queued(pending) \ {s}
    BY <2>1, Pop1, PlaceFacts
  <2> QED BY <2>1, <2>2, PlaceFacts DEF Parked
<1>4. ASSUME NEW c \in Classes, NEW s \in Of(c), Phase2Takes(c, s), Phase2Admits(c, s)
      PROVE  Places'
  <2>1. Register(s) /\ UNCHANGED <<parked, closed>>
    BY <1>4 DEF Phase2Admits, shutVars
  <2> QED BY <1>1, <1>3, <1>4, <2>1, AdmitPlaces
<1>5. ASSUME NEW c \in Classes, NEW s \in Of(c), Phase2Takes(c, s), Phase2Refuses(c, s)
      PROVE  Places'
  <2>1. /\ shutdown_peer_directions({s}) /\ retained' = retained \ {s}
        /\ UNCHANGED <<parked, admit, done, accept, status>>
    BY <1>5 DEF Phase2Refuses
  <2>2. \A t \in Streams : closed'[t] = IF t \in {s} THEN Dirs(t) ELSE closed[t]
    BY <2>1, Shut
  <2>3. \A t \in Streams : admit'[t] = IF t \in {s} THEN "none" ELSE admit[t]
    BY <1>3, <1>5, <2>1
  <2>4. Queued(parked') = Queued(parked) \ {s} /\ AllInjective(parked') /\ parked' \in Queues
    BY <1>3, <1>5, <2>1, PlaceFacts
  <2>5. {s} \subseteq pending_admit \cup Parked
    BY <1>3, <1>5
  <2> QED BY <1>1, <1>3, <1>5, <2>1, <2>2, <2>3, <2>4, <2>5, RefusePlaces
<1>6. ASSUME NEW c \in Classes, NEW s \in Of(c), Phase2Takes(c, s), Phase2Parks(c, s)
      PROVE  Places'
  <2>1. /\ admit' = [admit EXCEPT ![s] = "parked"] /\ parked' = Pushed(parked, c, s)
        /\ UNCHANGED <<retained, accept, closed>>
    BY <1>6 DEF Phase2Parks, shutVars
  <2>2. /\ pending' \in Queues /\ AllInjective(pending') /\ s \in pending_admit /\ s \in Streams
        /\ Queued(pending') = Queued(pending) \ {s} /\ pending_admit' = pending_admit \ {s}
        /\ s \notin Parked /\ s \notin Queued(accept) /\ s \notin delivered /\ s \in Found
    BY <1>3, <1>6
  <2>3. admit'[s] = "parked" /\ \A t \in Streams : t # s => admit'[t] = admit[t]
    BY <2>1, <2>2 DEF TypeOK, TypeWorker
  <2>4. Queued(parked') = Queued(parked) \cup {s} /\ AllInjective(parked')
    BY <2>1, <2>2, Push, PlaceFacts
  <2>5. Parked' = Parked \cup {s}
    BY <2>2, <2>3 DEF Parked
  <2>6. Found' = Found /\ Queued(accept') = Queued(accept)
    BY <1>1, <2>1 DEF Found
  <2>7. \A t : Somewhere(t)' <=> Somewhere(t) \/ t = s
    BY <1>1, <2>2, <2>4, <2>6 DEF Somewhere
  <2>8. AllInjective(accept') /\ AllInjective(found')
    BY <1>1, <2>1, PlaceFacts
  <2>9. /\ pending_admit' = Queued(pending)' /\ Parked' = Queued(parked)'
        /\ \A t \in pending_admit' : admit'[t] = "none"
    BY <2>2, <2>3, <2>4, <2>5, PlaceFacts
  <2>10. /\ \A t \in Queued(accept)' : t \notin pending_admit' /\ admit'[t] # "parked" /\ t \notin delivered'
         /\ \A t \in delivered' : t \notin pending_admit' /\ admit'[t] # "parked"
    BY <1>1, <2>2, <2>3, <2>6, PlaceFacts
  <2>11. \A t \in Streams : Somewhere(t)' \/ admit'[t] # "none" => t \in Found'
    BY <2>2, <2>3, <2>6, <2>7, PlaceFacts
  <2>12. \A t \in Found' : Somewhere(t)' \/ closed'[t] = Dirs(t) \/ ~RxOpen(Class(t))'
    BY <1>1, <2>1, <2>6, <2>7, PlaceFacts DEF RxOpen
  <2>13. retained' \subseteq pending_admit' \cup Parked'
    BY <2>1, <2>2, <2>5, PlaceFacts
  <2> QED BY <2>2, <2>4, <2>8, <2>9, <2>10, <2>11, <2>12, <2>13 DEF Places
<1> QED BY <1>2, <1>4, <1>5, <1>6, Phase2Cases

\* promote_parked.
LEMMA PromotePlaces ==
  ASSUME TypeOK, Places, promote_parked \/ promote_retry
  PROVE  Places'
<1>1. CASE promote_parked
  BY <1>1, QuietPlaces DEF promote_parked, queueVars, frontVars, RxOpen
<1>2. CASE promote_retry
  <2>1. UNCHANGED <<found, delivered, conn, pending, pending_admit>>
    BY <1>2 DEF promote_retry, frontVars
  <2>2. CASE RetryStops
    BY <2>1, <2>2, QuietPlaces DEF RetryStops, shutVars, RxOpen
  <2>3. prefer \in Classes
    BY DEF TypeOK, TypeWorker
  <2>4. ASSUME NEW s \in Of(prefer), parked[prefer] # <<>>, s = Head(parked[prefer]),
               parked' = Popped(parked, prefer), RetryAdmits(prefer, s)
        PROVE  Places'
    <3>1. Register(s) /\ UNCHANGED closed
      BY <2>4 DEF RetryAdmits, shutVars
    <3> QED BY <2>1, <2>3, <2>4, <3>1, AdmitPlaces
  <2>5. ASSUME NEW s \in Of(prefer), parked[prefer] # <<>>, s = Head(parked[prefer]),
               parked' = Popped(parked, prefer), RetryRefuses(prefer, s)
        PROVE  Places'
    <3>1. /\ shutdown_peer_directions({s}) /\ retained' = retained \ {s}
          /\ admit' = [admit EXCEPT ![s] = "none"] /\ UNCHANGED accept
      BY <2>5 DEF RetryRefuses
    <3>2. \A t \in Streams : closed'[t] = IF t \in {s} THEN Dirs(t) ELSE closed[t]
      BY <3>1, Shut
    <3>3. \A t \in Streams : admit'[t] = IF t \in {s} THEN "none" ELSE admit[t]
      BY <3>1 DEF TypeOK, TypeWorker
    <3>4. /\ Queued(parked') = Queued(parked) \ {s} /\ AllInjective(parked') /\ parked' \in Queues
          /\ s \in Parked
      BY <2>3, <2>5, Pop1, PlaceFacts
    <3>5. s \notin pending_admit
      BY <3>4, PlaceFacts DEF Parked
    <3>6. /\ pending' \in Queues /\ AllInjective(pending') /\ Queued(pending') = Queued(pending) \ {s}
          /\ pending_admit' = pending_admit \ {s}
      BY <2>1, <3>5, PlaceFacts
    <3>7. {s} \subseteq pending_admit \cup Parked
      BY <3>4
    <3> QED BY <2>1, <3>1, <3>2, <3>3, <3>4, <3>6, <3>7, RefusePlaces
  <2> QED BY <1>2, <2>2, <2>4, <2>5, RetryCases
<1> QED BY <1>1, <1>2

\* apply_inbox.
LEMMA ApplyPlaces ==
  ASSUME TypeOK, Places, apply_inbox
  PROVE  Places'
<1>1. UNCHANGED <<found, delivered, conn, accept>>
  BY DEF apply_inbox, frontVars
<1>2. CASE ApplyEnds
  BY <1>1, <1>2, QuietPlaces DEF ApplyEnds, queueVars, shutVars, RxOpen
<1>3. ASSUME NEW m \in Cmds, ApplyResume(m) \/ ApplyFinish(m)
      PROVE  Places'
  BY <1>1, <1>3, QuietPlaces DEF ApplyResume, ApplyFinish, queueVars, shutVars, RxOpen
<1>4. ASSUME NEW m \in Cmds, ApplyDropped(m)
      PROVE  Places'
  <2>1. /\ pending' \in Queues /\ parked' \in Queues
        /\ \A c \in Classes : pending'[c] = <<>> /\ parked'[c] = <<>>
        /\ Queued(pending') = {} /\ Queued(parked') = {} /\ pending_admit' = {}
        /\ \A s \in Streams :
             admit'[s] = IF s \in Parked \cup pending_admit THEN "none" ELSE admit[s]
        /\ shutdown_peer_directions(Parked \cup pending_admit)
        /\ retained' = retained \ (Parked \cup pending_admit)
    BY <1>4, Cleaned DEF ApplyDropped
  <2> DEFINE W == Parked \cup pending_admit
  <2>2. \A s \in Streams : closed'[s] = IF s \in W THEN Dirs(s) ELSE closed[s]
    BY <2>1, Shut
  <2>3. IsInjective(<<>>)
    BY DEF IsInjective
  <2>4. AllInjective(pending') /\ AllInjective(parked')
    BY <2>1, <2>3 DEF AllInjective
  <2>5. /\ Queued(pending') = Queued(pending) \ W /\ Queued(parked') = Queued(parked) \ W
        /\ pending_admit' = pending_admit \ W
    BY <2>1, PlaceFacts
  <2> QED BY <1>1, <2>1, <2>2, <2>4, <2>5, RefusePlaces
<1>5. ASSUME NEW m \in Cmds, ApplyStop(m)
      PROVE  Places'
  <2>1. m.arg \in Streams
    BY <1>5, CmdShape DEF ApplyStop
  <2>2. \A s \in Streams : admit'[s] = admit[s] \/ (admit[s] = "registered" /\ admit'[s] = "none")
    <3>1. MarkDone({m.arg}, "recv") /\ \A t \in {m.arg} : t \in Streams /\ "recv" \in Dirs(t)
      BY <1>5, <2>1, ClassFacts DEF ApplyStop
    <3> QED BY <3>1, Marked
  <2>3. closed' = [closed EXCEPT ![m.arg] = closed[m.arg] \cup {"recv"}]
    BY <1>5 DEF ApplyStop
  <2>4. \A s \in Streams : closed[s] = Dirs(s) => closed'[s] = Dirs(s)
    BY <2>1, <2>3, ClassFacts DEF TypeOK, TypeQuiche
  <2>5. UNCHANGED <<pending, parked, pending_admit, retained>>
    BY <1>5 DEF ApplyStop, queueVars
  <2> QED BY <1>1, <2>2, <2>4, <2>5, QuietPlaces DEF RxOpen
<1> QED BY <1>2, <1>3, <1>4, <1>5, ApplyCases

\* A handoff leaves the channel: taken by the acceptor, or dropped with it.
LEMMA LeavePlaces ==
  ASSUME TypeOK, Places, NEW c \in Classes, accept[c] # <<>>, accept' = Popped(accept, c),
         \/ delivered' = delivered \cup {Head(accept[c])}
         \/ delivered' = delivered /\ ~RxOpen(c),
         UNCHANGED <<pending, parked, found, pending_admit, retained, admit, closed, conn>>
  PROVE  Places'
<1>0. Head(accept[c]) \in Streams
  BY Pop1, PlaceFacts
<1>a. PICK s \in Streams : s = Head(accept[c])
  BY <1>0
<1>1. /\ s \in Queued(accept) /\ AllInjective(accept')
      /\ Queued(accept') = Queued(accept) \ {s} /\ Class(s) = c
  BY <1>a, Pop1, PlaceFacts
<1>2. delivered' = delivered \cup {s} \/ (delivered' = delivered /\ ~RxOpen(c))
  BY <1>a
<1>3. Parked' = Parked /\ Found' = Found
  BY DEF Parked, Found
<1>4. \A t : t # s => (Somewhere(t)' <=> Somewhere(t))
  BY <1>1, <1>2 DEF Somewhere
<1>5. Somewhere(s)' \/ ~RxOpen(Class(s))
  BY <1>1, <1>2 DEF Somewhere
<1>6. \A t : Somewhere(t)' => Somewhere(t)
  BY <1>1, <1>2 DEF Somewhere
<1>7. AllInjective(pending') /\ AllInjective(parked') /\ AllInjective(found')
  BY PlaceFacts
<1>8. /\ pending_admit' = Queued(pending)' /\ Parked' = Queued(parked)'
      /\ \A t \in pending_admit' : admit'[t] = "none"
  BY <1>3, PlaceFacts
<1>9. /\ \A t \in Queued(accept)' : t \notin pending_admit' /\ admit'[t] # "parked" /\ t \notin delivered'
      /\ \A t \in delivered' : t \notin pending_admit' /\ admit'[t] # "parked"
  BY <1>1, <1>2, PlaceFacts
<1>10. \A t \in Streams : Somewhere(t)' \/ admit'[t] # "none" => t \in Found'
  BY <1>3, <1>6, PlaceFacts
<1>11. \A t \in Found' : Somewhere(t)' \/ closed'[t] = Dirs(t) \/ ~RxOpen(Class(t))'
  BY <1>3, <1>4, <1>5, PlaceFacts DEF RxOpen
<1>12. retained' \subseteq pending_admit' \cup Parked'
  BY <1>3, PlaceFacts
<1> QED BY <1>1, <1>7, <1>8, <1>9, <1>10, <1>11, <1>12 DEF Places

\* A stream stays in one place.
LEMMA StepPlaces ==
  ASSUME TypeOK, Places, Ends, Next
  PROVE  Places'
<1>1. CASE Packets \/ Wake \/ WorkerExits \/ on_conn_close
  BY <1>1, QuietPlaces DEF Packets, Wake, WorkerExits, on_conn_close, queueVars, frontVars, RxOpen
<1>2. CASE stage_send
  <2>1. \A s \in Streams : admit'[s] = admit[s] \/ (admit[s] = "registered" /\ admit'[s] = "none")
    <3>1. \A s \in finishing : s \in Streams /\ "send" \in Dirs(s)
      BY ClassFacts DEF TypeOK, TypeWorker
    <3>2. MarkDone(finishing, "send")
      BY <1>2 DEF stage_send
    <3> QED BY <3>1, <3>2, Marked
  <2>2. closed' = [s \in Streams |-> IF s \in finishing THEN closed[s] \cup {"send"} ELSE closed[s]]
    BY <1>2 DEF stage_send
  <2>3. \A s \in Streams : closed[s] = Dirs(s) => closed'[s] = Dirs(s)
    BY <2>2, ClassFacts DEF TypeOK, TypeWorker
  <2>4. UNCHANGED <<pending, parked, accept, found, pending_admit, delivered, retained, conn>>
    BY <1>2 DEF stage_send, queueVars, frontVars
  <2> QED BY <2>1, <2>3, <2>4, QuietPlaces DEF RxOpen
<1>3. CASE Accepting
  <2>1. UNCHANGED <<pending, parked, found, pending_admit, retained, admit, closed, conn>>
    BY <1>3 DEF Accepting, AcceptPoll, AcceptSignal, AcceptNudge, AcceptTerminal, AcceptRecheck,
                AcceptClosed, UNCHANGED_ByAccept, queueVars
  <2>2. acls \in Classes
    BY DEF TypeOK, TypeFront
  <2>3. \/ UNCHANGED <<accept, delivered>>
        \/ \E c \in Classes : accept[c] # <<>> /\ Pop(c)
    BY <1>3, <2>2 DEF Accepting, AcceptPoll, AcceptSignal, AcceptNudge, AcceptTerminal, AcceptRecheck,
                AcceptClosed
  <2>4. CASE UNCHANGED <<accept, delivered>>
    BY <2>1, <2>4, QuietPlaces DEF RxOpen
  <2>5. ASSUME NEW c \in Classes, accept[c] # <<>>, Pop(c)
        PROVE  Places'
    <3>1. accept' = Popped(accept, c) /\ delivered' = delivered \cup {Head(accept[c])}
      BY <2>5, PopElems
    <3> QED BY <2>1, <2>5, <3>1, LeavePlaces
  <2> QED BY <2>3, <2>4, <2>5
<1>4. CASE Drops
  <2>1. UNCHANGED <<pending, parked, found, pending_admit, retained, admit, closed, delivered>>
    BY <1>4 DEF Drops, ConnectionDrop, Dropping, DropReceiver, DropHandoff, StreamDrop,
                UNCHANGED_ByDrop, queueVars
  <2>2. CASE ConnectionDrop \/ \E s \in Streams : StreamDrop(s)
    <3>1. UNCHANGED accept /\ \A c \in Classes : RxOpen(c)' => RxOpen(c)
      BY <2>2 DEF ConnectionDrop, StreamDrop, RxOpen
    <3> QED BY <2>1, <3>1, QuietPlaces
  <2>3. ASSUME NEW c \in Classes, DropReceiver(c)
        PROVE  Places'
    <3>1. UNCHANGED accept /\ \A d \in Classes : RxOpen(d)' => RxOpen(d)
      BY <2>3 DEF DropReceiver, RxOpen, Classes
    <3> QED BY <2>1, <3>1, QuietPlaces
  <2>4. ASSUME NEW c \in Classes, DropHandoff(c)
        PROVE  Places'
    <3>1. accept[c] # <<>> /\ accept' = Popped(accept, c) /\ ~RxOpen(c) /\ UNCHANGED conn
      BY <2>4 DEF DropHandoff, Popped
    <3> QED BY <2>1, <3>1, LeavePlaces
  <2> QED BY <1>4, <2>2, <2>3, <2>4 DEF Drops, Dropping
<1> QED BY <1>1, <1>2, <1>3, <1>4, NextCases, ScanPlaces, Phase2Places, PromotePlaces, ApplyPlaces

-----------------------------------------------------------------------------
(* How directions end.                                                     *)

\* Steps that end nothing: their commands are about found streams.
LEMMA QuietEnds ==
  ASSUME TypeOK, Ends,
         UNCHANGED <<opened, stopped, readable, writable, closed, done, status, finishing, found,
                     admit, pending_admit, retained>>,
         wpc' = "wait" => finishing = {},
         \A m \in Range(cmd)' : m.op \in {"Finish", "StopSending"} => m \in Range(cmd) \/ m.arg \in Found
  PROVE  Ends'
<1>1. Found' = Found
  BY DEF Found
<1>2. Grounds'
  BY <1>1 DEF Ends, Grounds
<1>3. \A s \in Streams : EndOf(s)'
  BY <1>1 DEF Ends, EndOf, Gone
<1> QED BY <1>2, <1>3 DEF Ends

\* Packets: nothing arrives for a direction that ended.
LEMMA PacketsEnds ==
  ASSUME TypeOK, Ends, LateStop = FALSE, Packets
  PROVE  Ends'
<1>1. PICK data \in SUBSET (Streams \ opened), stop \in SUBSET (Bidi \ stopped) :
        /\ \A s \in data \cup stop : closed[s] # Dirs(s)
        /\ \A s \in stop : LateStop \/ "send" \notin closed[s]
        /\ opened' = opened \cup data
        /\ stopped' = stopped \cup stop
        /\ readable' = readable \cup data
        /\ writable' = writable \cup (data \cap (Bidi \ stopped)) \cup stop
  BY DEF Packets
<1>2. /\ UNCHANGED <<closed, done, status, finishing, admit, pending_admit, retained, cmd>>
      /\ Found' = Found /\ finishing = {} /\ wpc' = "intake"
  BY DEF Packets, queueVars, Found, Ends, Grounds
<1>3. Grounds'
  BY <1>1, <1>2 DEF Ends, Grounds
<1>4. ASSUME NEW s \in Streams
      PROVE  EndOf(s)'
  <2>1. EndOf(s) /\ closed[s] \subseteq Dirs(s)
    BY DEF Ends, TypeOK, TypeQuiche
  <2>2. "recv" \in closed[s] => closed[s] = Dirs(s)
    <3>1. "recv" \in closed[s] /\ s \in Bidi => "send" \in closed[s]
      BY <1>2, <2>1 DEF EndOf
    <3>2. CASE s \in Bidi
      BY <2>1, <3>1, <3>2 DEF Dirs
    <3>3. CASE s \notin Bidi
      BY <2>1, <3>3 DEF Dirs
    <3> QED BY <3>2, <3>3
  <2>3. "recv" \in closed[s] => s \notin data /\ s \notin stop
    BY <1>1, <2>2
  <2>4. "send" \in closed[s] => s \notin data \ stopped /\ s \notin stop
    BY <1>1, <2>1 DEF EndOf, Ends, Grounds
  <2>5. s \in retained => s \in stopped
    BY DEF TypeOK, TypeWorker
  <2>6. "send" \in done[s] \/ s \in retained \/ "send" \in closed[s] => s \notin writable'
    BY <1>1, <2>1, <2>4, <2>5 DEF EndOf
  <2>7. Gone(s)' => Gone(s)
    BY <1>2 DEF Gone
  <2> QED BY <1>1, <1>2, <2>1, <2>3, <2>6, <2>7 DEF EndOf
<1> QED BY <1>3, <1>4 DEF Ends

\* intake_readable.
LEMMA IntakeEnds ==
  ASSUME TypeOK, Ends, intake_readable
  PROVE  Ends'
<1>1. PICK ids \in SUBSET Streams : IntakeTakes(ids)
  BY IntakeCase
<1>2. PICK new \in SUBSET Streams : new = {s \in ids : Unknown(s)}
  OBVIOUS
<1>3. Discover(new) /\ new \subseteq opened \cup stopped
  BY <1>1, <1>2, NewIds DEF IntakeTakes
<1>4. Found' = Found \cup new /\ pending_admit' = pending_admit \cup new
  <2>1. PICK q \in Queues : Queued(q) = new /\ pending_admit' = pending_admit \cup new
                            /\ found' = Joined(found, q)
    BY <1>3, Discovered
  <2>2. found \in Queues
    BY DEF TypeOK, TypeWorker
  <2>3. Queued(found') = Queued(found) \cup Queued(q)
    BY <2>1, <2>2, Join
  <2> QED BY <2>1, <2>3 DEF Found
<1>5. /\ UNCHANGED <<opened, stopped, writable, closed, retained, admit, done, finishing, cmd, status>>
      /\ readable' = readable \ ids /\ wpc' = "phase2"
  BY <1>1 DEF IntakeTakes
<1>6. Grounds'
  BY <1>3, <1>4, <1>5 DEF Ends, Grounds
<1>7. ASSUME NEW s \in Streams
      PROVE  EndOf(s)'
  <2>1. EndOf(s)
    BY DEF Ends
  <2>2. Gone(s)' => Gone(s)
    BY <1>4, <1>5 DEF Gone
  <2> QED BY <1>4, <1>5, <2>1, <2>2 DEF EndOf
<1> QED BY <1>6, <1>7 DEF Ends

\* stage_writable: what it marks or retains was taken off the cursor.
LEMMA WritableEnds ==
  ASSUME TypeOK, Ends, stage_writable
  PROVE  Ends'
<1>1. PICK ids \in SUBSET Bidi : WritableTakes(ids)
  BY WritableCase
<1>2. PICK new \in SUBSET Streams : new = {s \in ids : Unknown(s)}
  BY ClassFacts
<1>3. Discover(new) /\ new \subseteq opened \cup stopped
  BY <1>1, <1>2, NewIds, ClassFacts DEF WritableTakes
<1>4. Found' = Found \cup new /\ pending_admit' = pending_admit \cup new
  <2>1. PICK q \in Queues : Queued(q) = new /\ pending_admit' = pending_admit \cup new
                            /\ found' = Joined(found, q)
    BY <1>3, Discovered
  <2>2. found \in Queues
    BY DEF TypeOK, TypeWorker
  <2>3. Queued(found') = Queued(found) \cup Queued(q)
    BY <2>1, <2>2, Join
  <2> QED BY <2>1, <2>3 DEF Found
<1>5. PICK live \in SUBSET Bidi : live = Stopped(ids)
  BY DEF Stopped
<1>6. live \subseteq ids /\ live \subseteq stopped
  BY <1>5 DEF Stopped
<1>7. /\ UNCHANGED <<opened, stopped, readable, closed, finishing, cmd>>
      /\ writable' = writable \ ids /\ wpc' = "send"
      /\ \A s \in Streams : status'[s] = IF s \in live THEN "stopped" ELSE status[s]
      /\ retained' \subseteq retained \cup ids /\ MarkDone(live, "send")
  BY <1>1, <1>5 DEF WritableTakes
<1>8. /\ \A s \in Streams : ~(s \in live /\ admit[s] = "registered") =>
               done'[s] = done[s] /\ admit'[s] = admit[s]
      /\ \A s \in Streams : s \in live /\ admit[s] = "registered" =>
               \/ Dirs(s) \subseteq done[s] \cup {"send"} /\ done'[s] = {} /\ admit'[s] = "none"
               \/ done'[s] = done[s] \cup {"send"} /\ admit'[s] = "registered"
  <2>1. \A s \in live : s \in Streams /\ "send" \in Dirs(s)
    BY ClassFacts
  <2> QED BY <1>7, <2>1, Marked
<1>9. Grounds'
  BY <1>3, <1>4, <1>7 DEF Ends, Grounds
<1>10. ASSUME NEW s \in Streams
       PROVE  EndOf(s)'
  <2>1. EndOf(s)
    BY DEF Ends
  <2>2. CASE s \in live /\ admit[s] = "registered"
    <3>1. "recv" \in done'[s] \/ admit'[s] = "none" => "recv" \in done[s]
      BY <1>8, <2>2, ClassFacts
    <3>2. s \notin writable' /\ s \in stopped' /\ status'[s] = "stopped"
      BY <1>6, <1>7, <2>2
    <3>3. admit'[s] = "none" => "recv" \in closed[s] /\ s \notin readable
      BY <2>1, <3>1 DEF EndOf
    <3>4. "recv" \in done'[s] => "recv" \in closed'[s]
      BY <1>7, <2>1, <3>1 DEF EndOf
    <3> QED BY <1>4, <1>7, <2>1, <3>2, <3>3, <3>4 DEF EndOf, Gone
  <2>3. CASE ~(s \in live /\ admit[s] = "registered")
    <3>1. done'[s] = done[s] /\ admit'[s] = admit[s]
      BY <1>8, <2>3
    <3>2. Gone(s)' => Gone(s)
      BY <1>4, <3>1 DEF Gone
    <3>3. status[s] = "stopped" => status'[s] = "stopped"
      BY <1>7
    <3> QED BY <1>4, <1>7, <2>1, <3>1, <3>2, <3>3 DEF EndOf
  <2> QED BY <2>2, <2>3
<1> QED BY <1>9, <1>10 DEF Ends

\* A stream is registered with what its PeerStream retained.
LEMMA AdmitEnds ==
  ASSUME TypeOK, Ends, NEW c \in Classes, NEW s \in Of(c), Register(s),
         pending_admit \ {s} \subseteq pending_admit', wpc' # "wait",
         UNCHANGED <<opened, stopped, readable, writable, closed, finishing, found, cmd>>
  PROVE  Ends'
<1>1. Found' = Found
  BY DEF Found
<1>2. Grounds'
  BY <1>1 DEF Ends, Grounds
<1>3. /\ \A t \in Streams : t # s => /\ admit'[t] = admit[t] /\ done'[t] = done[t]
                                     /\ status'[t] = status[t]
      /\ admit'[s] = "registered" /\ done'[s] = IF s \in retained THEN {"send"} ELSE {}
      /\ status'[s] = IF s \in retained THEN "stopped" ELSE status[s]
      /\ retained' = retained \ {s}
  BY Registered
<1>4. ASSUME NEW t \in Streams, t # s
      PROVE  EndOf(t)'
  <2>1. EndOf(t) /\ (Gone(t)' => Gone(t))
    BY <1>1, <1>3, <1>4 DEF Ends, Gone
  <2> QED BY <1>1, <1>3, <1>4, <2>1 DEF EndOf
<1>5. EndOf(s)'
  <2>1. s \in Streams /\ EndOf(s) /\ retained \subseteq stopped
    BY ClassFacts DEF Ends, TypeOK, TypeWorker
  <2>2. CASE s \in retained
    BY <1>1, <1>3, <2>1, <2>2 DEF EndOf, Gone
  <2>3. CASE s \notin retained
    BY <1>1, <1>3, <2>1, <2>3 DEF EndOf, Gone
  <2> QED BY <2>2, <2>3
<1> QED BY <1>2, <1>4, <1>5 DEF Ends

\* Pending or parked streams are shut down.
LEMMA RefuseEnds ==
  ASSUME TypeOK, Ends, NEW W, W \subseteq Found, shutdown_peer_directions(W),
         retained' = retained \ W,
         \A s \in Streams : s \notin W => admit'[s] = admit[s],
         pending_admit \ W \subseteq pending_admit', wpc' # "wait",
         Range(cmd)' \subseteq Range(cmd),
         UNCHANGED <<opened, stopped, done, status, finishing, found>>
  PROVE  Ends'
<1>1. Found' = Found
  BY DEF Found
<1>2. /\ \A s \in Streams : closed'[s] = IF s \in W THEN Dirs(s) ELSE closed[s]
      /\ readable' = readable \ W /\ writable' = writable \ W
  BY Shut
<1>3. Grounds'
  BY <1>1, <1>2 DEF Ends, Grounds
<1>4. ASSUME NEW s \in Streams
      PROVE  EndOf(s)'
  <2>1. EndOf(s) /\ done[s] \subseteq Dirs(s)
    BY DEF Ends, TypeOK, TypeWorker
  <2>2. CASE s \in W
    <3>1. closed'[s] = Dirs(s) /\ s \notin readable' /\ s \notin writable' /\ s \in Found'
      BY <1>1, <1>2, <2>2
    <3>2. "recv" \in closed'[s] /\ (s \in Bidi => "send" \in closed'[s])
      BY <3>1, ClassFacts
    <3> QED BY <2>1, <3>1, <3>2 DEF EndOf
  <2>3. CASE s \notin W
    <3>1. closed'[s] = closed[s] /\ (Gone(s)' => Gone(s))
      BY <1>1, <1>2, <2>3 DEF Gone
    <3> QED BY <1>1, <1>2, <2>1, <2>3, <3>1 DEF EndOf
  <2> QED BY <2>2, <2>3
<1> QED BY <1>3, <1>4 DEF Ends

\* phase2_admission.
LEMMA Phase2EndsWell ==
  ASSUME TypeOK, Places, Ends, phase2_admission
  PROVE  Ends'
<1>1. wpc = "phase2" /\ Phase2Rest
  BY Phase2Cases
<1>2. CASE Phase2Ends
  BY <1>1, <1>2, QuietEnds DEF Phase2Ends, Phase2Rest, queueVars, shutVars
<1>3. ASSUME NEW c \in Classes, NEW s \in Of(c), Phase2Takes(c, s),
             Phase2Admits(c, s) \/ Phase2Parks(c, s) \/ Phase2Refuses(c, s)
      PROVE  Ends'
  <2>1. /\ s \in Streams /\ s \in pending_admit /\ s \in Found
        /\ pending_admit' = pending_admit \ {s} /\ wpc' = "phase2"
    BY <1>1, <1>3, PlaceFacts, Pop1 DEF Phase2Takes
  <2>2. CASE Phase2Admits(c, s)
    <3>1. Register(s) /\ UNCHANGED <<opened, stopped, readable, writable, closed, finishing, found, cmd>>
      BY <1>1, <2>2 DEF Phase2Admits, Phase2Rest, shutVars
    <3> QED BY <2>1, <3>1, AdmitEnds
  <2>3. CASE Phase2Parks(c, s)
    <3>1. /\ UNCHANGED <<opened, stopped, readable, writable, closed, finishing, found, cmd, done, retained, status>>
          /\ Found' = Found
          /\ \A t \in Streams : admit'[t] = IF t = s THEN "parked" ELSE admit[t]
      BY <1>1, <2>1, <2>3 DEF Phase2Parks, Phase2Rest, shutVars, Found, TypeOK, TypeWorker
    <3>2. Grounds'
      BY <2>1, <3>1 DEF Ends, Grounds
    <3>3. ASSUME NEW t \in Streams PROVE EndOf(t)'
      <4>1. Gone(t)' => Gone(t)
        BY <2>1, <3>1 DEF Gone
      <4> QED BY <3>1, <4>1 DEF Ends, EndOf
    <3> QED BY <3>2, <3>3 DEF Ends
  <2>4. CASE Phase2Refuses(c, s)
    <3>1. /\ shutdown_peer_directions({s}) /\ retained' = retained \ {s}
          /\ UNCHANGED <<opened, stopped, done, status, finishing, found, cmd, admit>>
      BY <1>1, <2>4 DEF Phase2Refuses, Phase2Rest
    <3>2. {s} \subseteq Found /\ Range(cmd)' \subseteq Range(cmd)
      BY <2>1, <3>1
    <3> QED BY <2>1, <3>1, <3>2, RefuseEnds
  <2> QED BY <1>3, <2>2, <2>3, <2>4
<1> QED BY <1>2, <1>3, Phase2Cases

\* promote_parked.
LEMMA PromoteEnds ==
  ASSUME TypeOK, Places, Ends, promote_parked \/ promote_retry
  PROVE  Ends'
<1>1. CASE promote_parked
  <2>1. wpc' # "wait"
    BY <1>1, Onward DEF promote_parked
  <2> QED BY <1>1, <2>1, QuietEnds DEF promote_parked, queueVars, quicheVars
<1>2. CASE promote_retry
  <2>1. wpc = "retry" /\ RetryRest
    BY <1>2, RetryCases
  <2>2. CASE RetryStops
    <3>1. wpc' # "wait"
      BY <2>2, Onward DEF RetryStops
    <3> QED BY <2>1, <2>2, <3>1, QuietEnds DEF RetryStops, RetryRest, shutVars
  <2>3. ASSUME NEW s \in Of(prefer), parked[prefer] # <<>>, s = Head(parked[prefer]),
               RetryAdmits(prefer, s) \/ RetryRefuses(prefer, s)
        PROVE  Ends'
    <3>1. prefer \in Classes
      BY DEF TypeOK, TypeWorker
    <3>2. s \in Streams /\ s \in Parked /\ s \in Found
      BY <2>3, <3>1, PlaceFacts, Pop1
    <3>3. CASE RetryAdmits(prefer, s)
      <4>1. /\ Register(s) /\ wpc' # "wait" /\ pending_admit \ {s} \subseteq pending_admit'
            /\ UNCHANGED <<opened, stopped, readable, writable, closed, finishing, found, cmd>>
        BY <2>1, <3>3 DEF RetryAdmits, RetryRest, shutVars
      <4> QED BY <3>1, <4>1, AdmitEnds
    <3>4. CASE RetryRefuses(prefer, s)
      <4>1. /\ shutdown_peer_directions({s}) /\ retained' = retained \ {s}
            /\ UNCHANGED <<opened, stopped, done, status, finishing, found, cmd, pending_admit>>
            /\ \A t \in Streams : t \notin {s} => admit'[t] = admit[t]
        BY <2>1, <3>4 DEF RetryRefuses, RetryRest, TypeOK, TypeWorker
      <4>2. wpc' # "wait"
        BY <3>4, Onward DEF RetryRefuses
      <4>3. {s} \subseteq Found /\ Range(cmd)' \subseteq Range(cmd) /\ pending_admit \ {s} \subseteq pending_admit'
        BY <3>2, <4>1
      <4> QED BY <4>1, <4>2, <4>3, RefuseEnds
    <3> QED BY <2>3, <3>3, <3>4
  <2> QED BY <1>2, <2>2, <2>3, RetryCases
<1> QED BY <1>1, <1>2

\* A StopSending that is applied ends Read of a stream whose Finish was taken.
LEMMA StopEnds ==
  ASSUME TypeOK, Ends, Paired, NEW m \in Cmds, ApplyTakes(m), ApplyStop(m), ApplyRest, wpc # "wait"
  PROVE  Ends'
<1>1. m.arg \in Streams /\ m \in Range(cmd) /\ Range(cmd)' \subseteq Range(cmd)
  <2>1. cmd \in Seq(Cmds)
    BY DEF TypeOK, TypeShared
  <2> QED BY <2>1, TailElems, CmdShape DEF ApplyTakes, ApplyStop
<1>2. PICK s \in Streams : s = m.arg
  BY <1>1
<1>3. s \in Found
  BY <1>1, <1>2 DEF Ends, Grounds, ApplyStop
<1>4. s \in Bidi => s \in finishing \/ "send" \in closed[s]
  <2>1. SUFFICES ASSUME s \in Bidi \ Taken PROVE FALSE
    BY DEF Taken
  <2>2. cmd \in Seq(Cmds) /\ cmd # <<>>
    BY DEF TypeOK, TypeShared, ApplyTakes
  <2>3. 1 \in DOMAIN cmd /\ cmd[1] = m
    BY <2>2, TailElems DEF ApplyTakes
  <2>4. \E j \in 1..1 : cmd[j].op = "Finish" /\ cmd[j].arg = cmd[1].arg
    BY <1>2, <2>1, <2>3 DEF Paired, FinishFirst, ApplyStop
  <2> QED BY <2>3, <2>4 DEF ApplyStop
<1>5. /\ UNCHANGED <<opened, stopped, writable, finishing, retained, status, pending_admit, wpc>>
      /\ readable' = readable \ {s} /\ Found' = Found
      /\ \A t \in Streams : closed'[t] = IF t = s THEN closed[t] \cup {"recv"} ELSE closed[t]
  BY <1>2 DEF ApplyStop, ApplyRest, ApplyTakes, queueVars, Found, TypeOK, TypeQuiche
<1>6. /\ \A t \in Streams : ~(t = s /\ admit[t] = "registered") =>
               done'[t] = done[t] /\ admit'[t] = admit[t]
      /\ admit[s] = "registered" =>
               \/ Dirs(s) \subseteq done[s] \cup {"recv"} /\ done'[s] = {} /\ admit'[s] = "none"
               \/ done'[s] = done[s] \cup {"recv"} /\ admit'[s] = "registered"
  <2>1. MarkDone({s}, "recv") /\ \A t \in {s} : t \in Streams /\ "recv" \in Dirs(t)
    BY <1>2, ClassFacts DEF ApplyStop
  <2> QED BY <2>1, Marked
<1>7. Grounds'
  BY <1>1, <1>5 DEF Ends, Grounds
<1>8. ASSUME NEW t \in Streams, t # s
      PROVE  EndOf(t)'
  <2>1. EndOf(t) /\ (Gone(t)' => Gone(t))
    BY <1>5, <1>6, <1>8 DEF Ends, Gone
  <2> QED BY <1>5, <1>6, <1>8, <2>1 DEF EndOf
<1>9. EndOf(s)'
  <2>1. EndOf(s) /\ "recv" \in closed'[s] /\ s \notin readable'
    BY <1>5 DEF Ends
  <2>2. s \in Bidi => s \in finishing' \/ "send" \in closed'[s]
    BY <1>4, <1>5
  <2>0. closed'[s] = closed[s] \cup {"recv"}
    BY <1>5
  <2>3. "send" \in closed'[s] => "send" \in closed[s]
    BY <2>0
  <2>4. "send" \in closed[s] => "send" \in closed'[s]
    BY <1>5
  <2>5. "send" \in done'[s] => "send" \in done[s]
    BY <1>6
  <2>6. ASSUME Gone(s)' PROVE s \notin writable
    <3>1. CASE Gone(s)
      BY <2>1, <3>1 DEF EndOf
    <3>2. CASE ~Gone(s)
      <4>1. admit[s] = "registered" /\ admit'[s] = "none"
        BY <1>5, <1>6, <2>6, <3>2 DEF Gone
      <4>2. s \in Bidi => "send" \in done[s]
        BY <1>6, <4>1, ClassFacts
      <4>3. s \in Bidi => s \notin writable
        BY <2>1, <4>2 DEF EndOf
      <4> QED BY <4>3 DEF TypeOK, TypeQuiche
    <3> QED BY <3>1, <3>2
  <2>7. closed'[s] # {} => s \in Found'
    BY <1>3, <1>5
  <2> QED BY <1>5, <2>1, <2>2, <2>3, <2>4, <2>5, <2>6, <2>7 DEF EndOf
<1> QED BY <1>7, <1>8, <1>9 DEF Ends

\* apply_inbox.
LEMMA ApplyEndsWell ==
  ASSUME TypeOK, Places, Ends, Paired, apply_inbox
  PROVE  Ends'
<1>1. wpc = "apply" /\ ApplyRest
  BY ApplyCases
<1>2. CASE ApplyEnds
  BY <1>1, <1>2, QuietEnds DEF ApplyEnds, ApplyRest, queueVars, shutVars
<1>3. ASSUME NEW m \in Cmds, ApplyTakes(m),
             ApplyResume(m) \/ ApplyDropped(m) \/ ApplyStop(m) \/ ApplyFinish(m)
      PROVE  Ends'
  <2>1. m \in Range(cmd) /\ Range(cmd') \subseteq Range(cmd) /\ wpc' # "wait"
    <3>1. cmd \in Seq(Cmds)
      BY DEF TypeOK, TypeShared
    <3> QED BY <1>1, <1>3, <3>1, TailElems DEF ApplyTakes
  <2>2. CASE ApplyResume(m)
    BY <1>1, <2>1, <2>2, QuietEnds DEF ApplyResume, ApplyRest, queueVars, shutVars
  <2>3. CASE ApplyDropped(m)
    <3>1. PICK W \in SUBSET Streams : W = Parked \cup pending_admit
      BY PlaceFacts
    <3>2. /\ shutdown_peer_directions(W) /\ retained' = retained \ W /\ pending_admit' = {}
          /\ \A s \in Streams : s \notin W => admit'[s] = admit[s]
      BY <2>3, <3>1, Cleaned DEF ApplyDropped
    <3>3. W \subseteq Found /\ pending_admit \ W \subseteq pending_admit'
      BY <3>1, <3>2, PlaceFacts
    <3>4. UNCHANGED <<opened, stopped, done, status, finishing, found>>
      BY <1>1, <2>3 DEF ApplyDropped, ApplyRest
    <3> QED BY <2>1, <3>2, <3>3, <3>4, RefuseEnds
  <2>4. CASE ApplyStop(m)
    BY <1>1, <1>3, <2>4, StopEnds
  <2>5. CASE ApplyFinish(m)
    <3>1. /\ UNCHANGED <<opened, stopped, readable, writable, closed, done, status, admit,
                         pending_admit, retained>>
          /\ finishing' = finishing \cup {m.arg} /\ Found' = Found
      BY <1>1, <2>5 DEF ApplyFinish, ApplyRest, queueVars, shutVars, Found
    <3>2. m.arg \in Found
      BY <2>1, <2>5 DEF Ends, Grounds, ApplyFinish
    <3>3. Grounds'
      BY <2>1, <3>1, <3>2 DEF Ends, Grounds
    <3>4. \A s \in Streams : EndOf(s)'
      BY <3>1 DEF Ends, EndOf, Gone
    <3> QED BY <3>3, <3>4 DEF Ends
  <2> QED BY <1>3, <2>2, <2>3, <2>4, <2>5
<1> QED BY <1>2, <1>3, ApplyCases

\* stage_send: the FIN of every dropped send half is sent.
LEMMA SendEnds ==
  ASSUME TypeOK, Ends, stage_send
  PROVE  Ends'
<1>1. /\ UNCHANGED <<opened, stopped, readable, retained, status, pending_admit, cmd>>
      /\ finishing' = {} /\ Found' = Found /\ writable' = writable \ finishing
      /\ \A s \in Streams : closed'[s] = IF s \in finishing THEN closed[s] \cup {"send"} ELSE closed[s]
  BY DEF stage_send, queueVars, Found
<1>2. \A s \in finishing : s \in Streams /\ "send" \in Dirs(s) /\ s \in Found
  BY ClassFacts DEF TypeOK, TypeWorker, Ends, Grounds
<1>3. /\ \A s \in Streams : ~(s \in finishing /\ admit[s] = "registered") =>
               done'[s] = done[s] /\ admit'[s] = admit[s]
      /\ \A s \in Streams : s \in finishing /\ admit[s] = "registered" =>
               \/ Dirs(s) \subseteq done[s] \cup {"send"} /\ done'[s] = {} /\ admit'[s] = "none"
               \/ done'[s] = done[s] \cup {"send"} /\ admit'[s] = "registered"
  <2>1. MarkDone(finishing, "send")
    BY DEF stage_send
  <2> QED BY <1>2, <2>1, Marked
<1>4. Grounds'
  BY <1>1 DEF Ends, Grounds
<1>5. ASSUME NEW s \in Streams, s \notin finishing
      PROVE  EndOf(s)'
  <2>1. EndOf(s) /\ (Gone(s)' => Gone(s))
    BY <1>1, <1>3, <1>5 DEF Ends, Gone
  <2> QED BY <1>1, <1>3, <1>5, <2>1 DEF EndOf
<1>6. ASSUME NEW s \in Streams, s \in finishing
      PROVE  EndOf(s)'
  <2>0. closed'[s] = closed[s] \cup {"send"}
    BY <1>1, <1>6
  <2>1. /\ EndOf(s) /\ "send" \in closed'[s] /\ s \notin writable' /\ s \in Found'
        /\ ("recv" \in closed'[s] <=> "recv" \in closed[s])
    BY <1>1, <1>2, <1>6, <2>0 DEF Ends
  <2>2. "recv" \in done'[s] => "recv" \in done[s]
    BY <1>3, <1>6
  <2>3. ASSUME Gone(s)' PROVE "recv" \in closed[s] /\ s \notin readable
    <3>1. CASE Gone(s)
      BY <2>1, <3>1 DEF EndOf
    <3>2. CASE ~Gone(s)
      <4>1. admit[s] = "registered" /\ admit'[s] = "none"
        BY <1>1, <1>3, <2>3, <3>2 DEF Gone
      <4>2. "recv" \in done[s]
        BY <1>3, <1>6, <4>1, ClassFacts
      <4> QED BY <2>1, <4>2 DEF EndOf
    <3> QED BY <3>1, <3>2
  <2> QED BY <1>1, <2>1, <2>2, <2>3 DEF EndOf
<1> QED BY <1>4, <1>5, <1>6 DEF Ends

\* A forgotten stream stays forgotten: every step keeps Ends.
LEMMA StepEnds ==
  ASSUME TypeOK, Places, Ends, Paired, LateStop = FALSE, Next
  PROVE  Ends'
<1>1. CASE Wake \/ WorkerExits \/ on_conn_close
  <2>1. wpc' # "wait" /\ Range(cmd') \subseteq Range(cmd)
    BY <1>1 DEF Wake, WorkerExits, on_conn_close, Range
  <2>2. UNCHANGED <<opened, stopped, readable, writable, closed, done, status, finishing, found,
                    admit, pending_admit, retained>>
    BY <1>1 DEF Wake, WorkerExits, on_conn_close, quicheVars, queueVars
  <2> QED BY <2>1, <2>2, QuietEnds
<1>2. CASE Accepting
  <2>1. UNCHANGED <<opened, stopped, readable, writable, closed, done, status, finishing, found,
                    admit, pending_admit, retained, wpc>>
    BY <1>2 DEF Accepting, AcceptPoll, AcceptSignal, AcceptNudge, AcceptTerminal, AcceptRecheck,
                AcceptClosed, UNCHANGED_ByAccept, queueVars, quicheVars
  <2>2. acls \in Classes /\ AcceptResume(acls) \in Cmds /\ AcceptResume(acls).op = "AcceptResume"
    BY CmdMakers DEF TypeOK, TypeFront
  <2>3. UNCHANGED cmd \/ Send(<<AcceptResume(acls)>>)
    BY <1>2 DEF Accepting, AcceptPoll, AcceptSignal, AcceptNudge, AcceptTerminal, AcceptRecheck,
                AcceptClosed
  <2>4. \A m \in Range(cmd)' : m.op \in {"Finish", "StopSending"} => m \in Range(cmd)
    <3>1. CASE Send(<<AcceptResume(acls)>>)
      <4>1. <<AcceptResume(acls)>> \in Seq(Cmds) /\ Range(<<AcceptResume(acls)>>) = {AcceptResume(acls)}
        BY <2>2 DEF Range
      <4>2. Range(cmd') \subseteq Range(cmd) \cup {AcceptResume(acls)}
        BY <3>1, <4>1, SendElems
      <4> QED BY <2>2, <4>2
    <3> QED BY <2>3, <3>1
  <2>5. wpc' = "wait" => finishing = {}
    BY <2>1 DEF Ends, Grounds
  <2> QED BY <2>1, <2>4, <2>5, QuietEnds
<1>3. CASE Drops
  <2>1. UNCHANGED <<opened, stopped, readable, writable, closed, done, status, finishing, found,
                    admit, pending_admit, retained, wpc>>
    BY <1>3 DEF Drops, ConnectionDrop, Dropping, DropReceiver, DropHandoff, StreamDrop,
                UNCHANGED_ByDrop, queueVars, quicheVars
  <2>2. wpc' = "wait" => finishing = {}
    BY <2>1 DEF Ends, Grounds
  <2>3. CASE ConnectionDrop
    <3>1. /\ <<ConnectionDropped>> \in Seq(Cmds) /\ Range(<<ConnectionDropped>>) = {ConnectionDropped}
          /\ ConnectionDropped.op = "ConnectionDropped"
      BY CmdMakers DEF Range
    <3>2. Range(cmd') \subseteq Range(cmd) \cup {ConnectionDropped}
      BY <2>3, <3>1, SendElems DEF ConnectionDrop
    <3> QED BY <2>1, <2>2, <3>1, <3>2, QuietEnds
  <2>4. CASE \E c \in Classes : DropReceiver(c)
    <3>1. UNCHANGED cmd
      BY <2>4 DEF DropReceiver
    <3> QED BY <2>1, <2>2, <3>1, QuietEnds
  <2>5. ASSUME NEW s \in Streams, s \in Found, Send(HandoffCleanup(s))
        PROVE  Ends'
    <3>1. Range(cmd') \subseteq Range(cmd) \cup Range(HandoffCleanup(s))
      BY <2>5, Cleanup, SendElems
    <3>2. \A m \in Range(HandoffCleanup(s)) : m.arg \in Found
      BY <2>5, Cleanup
    <3> QED BY <2>1, <2>2, <3>1, <3>2, QuietEnds
  <2>6. CASE \E c \in Classes : DropHandoff(c)
    <3>1. PICK c \in Classes : DropHandoff(c)
      BY <2>6
    <3>2. Head(accept[c]) \in Streams /\ Head(accept[c]) \in Found
      BY <3>1, PlaceFacts, Pop1 DEF DropHandoff
    <3> QED BY <2>5, <3>1, <3>2 DEF DropHandoff
  <2>7. CASE \E s \in Streams : StreamDrop(s)
    BY <2>5, <2>7, PlaceFacts DEF StreamDrop
  <2> QED BY <1>3, <2>3, <2>4, <2>6, <2>7 DEF Drops, Dropping
<1> QED BY <1>1, <1>2, <1>3, NextCases, PacketsEnds, IntakeEnds, WritableEnds, Phase2EndsWell,
           PromoteEnds, ApplyEndsWell, SendEnds

-----------------------------------------------------------------------------
(* The Finish of a bidi stream goes before its StopSending.                *)

\* The first command is taken; if it is a Finish, its stream is.
LEMMA FirstTail ==
  ASSUME NEW q \in Seq(Cmds), q # <<>>, NEW T, NEW U, T \subseteq U, FinishFirst(q, T),
         Head(q).op = "Finish" => Head(q).arg \in U
  PROVE  FinishFirst(Tail(q), U)
<1>1. /\ Len(q) \in Nat \ {0} /\ Head(q) = q[1]
      /\ DOMAIN q = 1..Len(q) /\ DOMAIN Tail(q) = 1..(Len(q) - 1)
      /\ \A i \in 1..(Len(q) - 1) : Tail(q)[i] = q[i + 1] /\ i + 1 \in 1..Len(q)
  BY TailElems
<1> DEFINE r == Tail(q)
<1> HIDE DEF r
<1>2. /\ DOMAIN r = 1..(Len(q) - 1)
      /\ \A i \in 1..(Len(q) - 1) : r[i] = q[i + 1] /\ i + 1 \in 1..Len(q)
  BY <1>1 DEF r
<1>3. ASSUME NEW i \in DOMAIN r, r[i].op = "StopSending", r[i].arg \in Bidi \ U
      PROVE  \E j \in 1..i : r[j].op = "Finish" /\ r[j].arg = r[i].arg
  <2>1. i \in 1..(Len(q) - 1) /\ i + 1 \in DOMAIN q /\ r[i] = q[i + 1]
    BY <1>1, <1>2, <1>3
  <2>2. PICK j \in 1..(i + 1) : q[j].op = "Finish" /\ q[j].arg = q[i + 1].arg
    BY <1>3, <2>1 DEF FinishFirst
  <2>3. j # 1
    BY <1>1, <1>3, <2>1, <2>2
  <2>4. j - 1 \in 1..i /\ j - 1 \in 1..(Len(q) - 1) /\ (j - 1) + 1 = j
    BY <1>1, <2>1, <2>3
  <2>5. r[j - 1] = q[j]
    BY <1>2, <2>4
  <2> QED BY <2>1, <2>2, <2>4, <2>5
<1>4. FinishFirst(r, U)
  BY <1>3 DEF FinishFirst
<1> QED BY <1>4 DEF r

\* Two sequences with the property are put together.
LEMMA FirstJoin ==
  ASSUME NEW q \in Seq(Cmds), NEW t \in Seq(Cmds), NEW T, FinishFirst(q, T), FinishFirst(t, T)
  PROVE  FinishFirst(q \o t, T)
<1>1. /\ Len(q) \in Nat /\ Len(t) \in Nat
      /\ DOMAIN q = 1..Len(q) /\ DOMAIN t = 1..Len(t) /\ DOMAIN (q \o t) = 1..(Len(q) + Len(t))
      /\ \A i \in 1..Len(q) : (q \o t)[i] = q[i]
      /\ \A i \in 1..(Len(q) + Len(t)) :
           i \notin 1..Len(q) => i - Len(q) \in 1..Len(t) /\ (q \o t)[i] = t[i - Len(q)]
  BY ConcatElems
<1> DEFINE r == q \o t
<1> HIDE DEF r
<1>2. /\ DOMAIN r = 1..(Len(q) + Len(t))
      /\ \A i \in 1..Len(q) : r[i] = q[i]
      /\ \A i \in 1..(Len(q) + Len(t)) :
           i \notin 1..Len(q) => i - Len(q) \in 1..Len(t) /\ r[i] = t[i - Len(q)]
  BY <1>1 DEF r
<1>3. ASSUME NEW i \in DOMAIN r, r[i].op = "StopSending", r[i].arg \in Bidi \ T
      PROVE  \E j \in 1..i : r[j].op = "Finish" /\ r[j].arg = r[i].arg
  <2>1. CASE i \in 1..Len(q)
    <3>1. PICK j \in 1..i : q[j].op = "Finish" /\ q[j].arg = q[i].arg
      BY <1>1, <1>2, <1>3, <2>1 DEF FinishFirst
    <3>2. j \in 1..Len(q)
      BY <1>1, <2>1
    <3> QED BY <1>2, <2>1, <3>1, <3>2
  <2>2. CASE i \notin 1..Len(q)
    <3>1. i \in 1..(Len(q) + Len(t)) /\ i - Len(q) \in DOMAIN t /\ r[i] = t[i - Len(q)]
      BY <1>1, <1>2, <1>3, <2>2
    <3>2. PICK j \in 1..(i - Len(q)) : t[j].op = "Finish" /\ t[j].arg = t[i - Len(q)].arg
      BY <1>3, <3>1 DEF FinishFirst
    <3>3. /\ j + Len(q) \in 1..i /\ j + Len(q) \in 1..(Len(q) + Len(t)) /\ j + Len(q) \notin 1..Len(q)
          /\ (j + Len(q)) - Len(q) = j
      BY <1>1, <3>1
    <3>4. r[j + Len(q)] = t[j]
      BY <1>2, <3>3
    <3> QED BY <3>1, <3>2, <3>3, <3>4
  <2> QED BY <2>1, <2>2
<1>4. FinishFirst(r, T)
  BY <1>3 DEF FinishFirst
<1> QED BY <1>4 DEF r

\* What the front end sends has the property.
LEMMA FirstSent ==
  ASSUME NEW T
  PROVE  /\ \A s \in Streams : FinishFirst(HandoffCleanup(s), T)
         /\ \A m \in Cmds : m.op # "StopSending" => FinishFirst(<<m>>, T)
         /\ FinishFirst(<<>>, T)
<1>1. ASSUME NEW s \in Streams PROVE FinishFirst(HandoffCleanup(s), T)
  <2>1. CASE s \in Bidi
    <3>1. PICK q : q = <<Finish(s), StopSending(s)>>
      OBVIOUS
    <3>2. DOMAIN q = 1..2 /\ q[1] = Finish(s) /\ q[2] = StopSending(s)
      BY <3>1
    <3>3. FinishFirst(q, T)
      BY <2>1, <3>2, CmdMakers, ClassFacts DEF FinishFirst
    <3> QED BY <2>1, <3>1, <3>3 DEF HandoffCleanup
  <2>2. CASE s \notin Bidi
    <3>1. PICK q : q = <<StopSending(s)>>
      OBVIOUS
    <3>2. DOMAIN q = 1..1 /\ q[1] = StopSending(s) /\ q[1].arg = s
      BY <3>1, CmdMakers
    <3>3. FinishFirst(q, T)
      BY <2>2, <3>2 DEF FinishFirst
    <3> QED BY <2>2, <3>1, <3>3 DEF HandoffCleanup
  <2> QED BY <2>1, <2>2
<1>2. ASSUME NEW m \in Cmds, m.op # "StopSending" PROVE FinishFirst(<<m>>, T)
  <2>1. PICK q : q = <<m>>
    OBVIOUS
  <2>2. \A i \in DOMAIN q : q[i] = m
    BY <2>1
  <2>3. FinishFirst(q, T)
    BY <1>2, <2>2 DEF FinishFirst
  <2> QED BY <2>1, <2>3
<1>3. FinishFirst(<<>>, T)
  BY DEF FinishFirst
<1> QED BY <1>1, <1>2, <1>3

\* A Finish that was taken stays taken.
LEMMA TakenGrows ==
  ASSUME TypeOK, Next
  PROVE  Taken \subseteq Taken'
<1>1. SUFFICES (\A s \in Bidi : "send" \in closed[s] => "send" \in closed'[s])
               /\ (\A s \in finishing : s \in finishing' \/ "send" \in closed'[s])
  BY DEF Taken, TypeOK, TypeWorker
<1>2. CASE Packets \/ Wake \/ WorkerExits \/ on_conn_close \/ promote_parked
  BY <1>2 DEF Packets, Wake, WorkerExits, on_conn_close, promote_parked
<1>3. CASE intake_readable \/ stage_writable
  BY <1>3, IntakeCase, WritableCase DEF IntakeTakes, WritableTakes
<1>4. CASE stage_send
  <2>1. \A s \in Streams : closed'[s] = IF s \in finishing THEN closed[s] \cup {"send"} ELSE closed[s]
    BY <1>4 DEF stage_send
  <2>2. finishing \subseteq Streams /\ Bidi \subseteq Streams
    BY ClassFacts DEF TypeOK, TypeWorker
  <2>3. \A s \in finishing : "send" \in closed'[s]
    BY <2>1, <2>2
  <2>4. ASSUME NEW s \in Bidi, "send" \in closed[s] PROVE "send" \in closed'[s]
    BY <2>1, <2>2, <2>4
  <2> QED BY <2>3, <2>4
<1>5. ASSUME NEW S, shutdown_peer_directions(S), UNCHANGED finishing
      PROVE  (\A s \in Bidi : "send" \in closed[s] => "send" \in closed'[s])
             /\ (\A s \in finishing : s \in finishing' \/ "send" \in closed'[s])
  BY <1>5, Shut, ClassFacts
<1>6. CASE phase2_admission
  <2>1. UNCHANGED closed \/ \E s \in Streams : shutdown_peer_directions({s})
    BY <1>6, Phase2Cases, ClassFacts DEF Phase2Ends, Phase2Admits, Phase2Parks, Phase2Refuses, shutVars
  <2>2. UNCHANGED finishing
    BY <1>6, Phase2Cases DEF Phase2Rest
  <2> QED BY <1>5, <2>1, <2>2
<1>7. CASE promote_retry
  <2>0. prefer \in Classes
    BY DEF TypeOK, TypeWorker
  <2>1. UNCHANGED closed \/ \E s \in Streams : shutdown_peer_directions({s})
    BY <1>7, <2>0, RetryCases, ClassFacts DEF RetryStops, RetryAdmits, RetryRefuses, shutVars
  <2>2. UNCHANGED finishing
    BY <1>7, RetryCases DEF RetryRest
  <2> QED BY <1>5, <2>1, <2>2
<1>8. CASE apply_inbox
  <2>1. CASE ApplyEnds
    BY <2>1 DEF ApplyEnds, shutVars
  <2>2. ASSUME NEW m \in Cmds, ApplyResume(m) \/ ApplyFinish(m)
        PROVE  UNCHANGED closed /\ finishing \subseteq finishing'
    BY <2>2 DEF ApplyResume, ApplyFinish, shutVars
  <2>3. ASSUME NEW m \in Cmds, ApplyDropped(m)
        PROVE  UNCHANGED finishing /\ shutdown_peer_directions(Parked \cup pending_admit)
    BY <2>3, Cleaned DEF ApplyDropped
  <2>4. ASSUME NEW m \in Cmds, ApplyStop(m)
        PROVE  UNCHANGED finishing /\ \A s \in Streams : closed[s] \subseteq closed'[s]
    BY <2>4, CmdShape DEF ApplyStop, TypeOK, TypeQuiche
  <2> QED BY <1>5, <1>8, <2>1, <2>2, <2>3, <2>4, ApplyCases, ClassFacts
<1>9. CASE Accepting
  BY <1>9 DEF Accepting, AcceptPoll, AcceptSignal, AcceptNudge, AcceptTerminal, AcceptRecheck,
              AcceptClosed, UNCHANGED_ByAccept
<1>10. CASE Drops
  BY <1>10 DEF Drops, ConnectionDrop, Dropping, DropReceiver, DropHandoff, StreamDrop, UNCHANGED_ByDrop
<1> QED BY <1>2, <1>3, <1>4, <1>6, <1>7, <1>8, <1>9, <1>10, NextCases

\* A StopSending is applied after the Finish of its stream: every step keeps it.
LEMMA StepPaired ==
  ASSUME TypeOK, Paired, Next
  PROVE  Paired'
<1>1. FinishFirst(cmd, Taken') /\ cmd \in Seq(Cmds)
  BY TakenGrows DEF Paired, FinishFirst, TypeOK, TypeShared
<1>2. ASSUME NEW cs \in Seq(Cmds), FinishFirst(cs, Taken'), Send(cs)
      PROVE  Paired'
  <2>1. cmd' = cmd \/ cmd' = cmd \o cs
    BY <1>2, SendElems
  <2>2. FinishFirst(cmd \o cs, Taken')
    BY <1>1, <1>2, FirstJoin
  <2> QED BY <1>1, <2>1, <2>2 DEF Paired
<1>3. CASE UNCHANGED cmd
  BY <1>1, <1>3 DEF Paired
<1>4. CASE Packets \/ Wake \/ stage_send \/ WorkerExits \/ promote_parked
  BY <1>3, <1>4 DEF Packets, Wake, stage_send, WorkerExits, promote_parked
<1>5. CASE on_conn_close
  BY <1>5, FirstSent DEF on_conn_close, Paired
<1>6. CASE intake_readable \/ stage_writable \/ phase2_admission \/ promote_retry
  BY <1>3, <1>6, IntakeCase, WritableCase, Phase2Cases, RetryCases
     DEF IntakeTakes, WritableTakes, Phase2Rest, RetryRest
<1>7. CASE apply_inbox
  <2>1. CASE ApplyEnds
    BY <1>3, <2>1 DEF ApplyEnds
  <2>2. ASSUME NEW m \in Cmds, ApplyTakes(m),
               ApplyResume(m) \/ ApplyDropped(m) \/ ApplyStop(m) \/ ApplyFinish(m)
        PROVE  Paired'
    <3>1. m.op = "Finish" => m.arg \in Taken'
      BY <2>2 DEF ApplyResume, ApplyDropped, ApplyStop, ApplyFinish, Taken
    <3>2. cmd # <<>> /\ m = Head(cmd) /\ cmd' = Tail(cmd)
      BY <2>2 DEF ApplyTakes
    <3>3. FinishFirst(Tail(cmd), Taken')
      BY <1>1, <3>1, <3>2, FirstTail
    <3> QED BY <3>2, <3>3 DEF Paired
  <2> QED BY <1>7, <2>1, <2>2, ApplyCases
<1>8. CASE Accepting
  <2>1. UNCHANGED cmd \/ Send(<<AcceptResume(acls)>>)
    BY <1>8 DEF Accepting, AcceptPoll, AcceptSignal, AcceptNudge, AcceptTerminal, AcceptRecheck,
                AcceptClosed
  <2>2. AcceptResume(acls) \in Cmds /\ AcceptResume(acls).op = "AcceptResume"
    BY CmdMakers DEF TypeOK, TypeFront
  <2>3. <<AcceptResume(acls)>> \in Seq(Cmds) /\ FinishFirst(<<AcceptResume(acls)>>, Taken')
    <3>1. PICK m \in Cmds : m = AcceptResume(acls)
      BY <2>2
    <3>2. <<m>> \in Seq(Cmds)
      OBVIOUS
    <3>3. FinishFirst(<<m>>, Taken')
      BY <2>2, <3>1, FirstSent
    <3> QED BY <3>1, <3>2, <3>3
  <2> QED BY <1>2, <1>3, <2>1, <2>3
<1>9. CASE Drops
  <2>1. CASE ConnectionDrop
    <3>1. <<ConnectionDropped>> \in Seq(Cmds) /\ FinishFirst(<<ConnectionDropped>>, Taken')
      BY CmdMakers, FirstSent
    <3> QED BY <1>2, <2>1, <3>1 DEF ConnectionDrop
  <2>2. CASE \E c \in Classes : DropReceiver(c)
    BY <1>3, <2>2 DEF DropReceiver
  <2>3. ASSUME NEW s \in Streams, Send(HandoffCleanup(s))
        PROVE  Paired'
    BY <1>2, <2>3, FirstSent, Cleanup
  <2>4. CASE \E c \in Classes : DropHandoff(c)
    <3>1. PICK c \in Classes : DropHandoff(c)
      BY <2>4
    <3>2. Head(accept[c]) \in Streams
      BY <3>1, Pop1 DEF DropHandoff, TypeOK, TypeShared
    <3> QED BY <2>3, <3>1, <3>2 DEF DropHandoff
  <2>5. CASE \E s \in Streams : StreamDrop(s)
    BY <2>3, <2>5 DEF StreamDrop
  <2> QED BY <1>9, <2>1, <2>2, <2>4, <2>5 DEF Drops, Dropping
<1> QED BY <1>4, <1>5, <1>6, <1>7, <1>8, <1>9, NextCases

-----------------------------------------------------------------------------
(* A STOP_SENDING is kept.                                                 *)

\* The STOP_SENDING of s is kept by the PeerStream or the handle, or is moot.
Kept(s) == s \in retained \/ status[s] = "stopped" \/ "send" \in closed[s]

\* It is enough that a step keeps it for those it was kept for, and for those
\* it takes off the cursor.
LEMMA KeptOn ==
  ASSUME TypeOK, StopKept, TypeOK',
         \A s \in Bidi : Kept(s) => Kept(s)',
         \A s \in Bidi : s \in stopped' /\ s \notin writable' /\ ~Kept(s)' => s \in stopped /\ s \notin writable
  PROVE  StopKept'
<1>1. \A s \in stopped \ writable : Kept(s)
  BY DEF StopKept, Kept
<1>2. stopped' \subseteq Bidi
  BY DEF TypeOK, TypeQuiche
<1>3. \A s \in stopped' \ writable' : Kept(s)'
  BY <1>1, <1>2
<1> QED BY <1>3 DEF StopKept, Kept

\* The streams of S are shut down: no STOP_SENDING matters to them any more.
LEMMA RefuseKeeps ==
  ASSUME TypeOK, StopKept, TypeOK', NEW S, shutdown_peer_directions(S), retained' = retained \ S,
         UNCHANGED <<stopped, status>>
  PROVE  StopKept'
<1>1. /\ \A s \in Streams : closed'[s] = IF s \in S THEN Dirs(s) ELSE closed[s]
      /\ writable' = writable \ S
  BY Shut
<1>2. ASSUME NEW s \in Bidi, s \in S
      PROVE  Kept(s)'
  <2>1. closed'[s] = Dirs(s) /\ "send" \in Dirs(s)
    BY <1>1, <1>2, ClassFacts
  <2> QED BY <2>1 DEF Kept
<1>3. ASSUME NEW s \in Bidi, s \notin S
      PROVE  Kept(s)' <=> Kept(s)
  <2>1. closed'[s] = closed[s]
    BY <1>1, <1>3, ClassFacts
  <2> QED BY <1>3, <2>1 DEF Kept
<1> QED BY <1>1, <1>2, <1>3, KeptOn

\* The retained STOP_SENDING of a registered stream goes into its status cell.
LEMMA AdmitKeeps ==
  ASSUME TypeOK, StopKept, TypeOK', NEW c \in Classes, NEW s \in Of(c), Register(s),
         UNCHANGED <<stopped, writable, closed>>
  PROVE  StopKept'
<1>1. /\ \A t \in Streams : t # s => status'[t] = status[t]
      /\ status'[s] = IF s \in retained THEN "stopped" ELSE status[s]
      /\ retained' = retained \ {s}
  BY Registered
<1>2. ASSUME NEW t \in Bidi, Kept(t)
      PROVE  Kept(t)'
  <2>1. CASE t = s
    BY <1>1, <1>2, <2>1 DEF Kept
  <2>2. CASE t # s
    BY <1>1, <1>2, <2>2, ClassFacts DEF Kept
  <2> QED BY <2>1, <2>2
<1> QED BY <1>2, KeptOn

\* stage_writable.
LEMMA WritableKeeps ==
  ASSUME TypeOK, StopKept, Ends, TypeOK', stage_writable
  PROVE  StopKept'
<1>1. PICK ids \in SUBSET Bidi : WritableTakes(ids)
  BY WritableCase
<1>2. /\ UNCHANGED <<stopped, closed>> /\ writable' = writable \ ids
      /\ \A s \in Streams : status'[s] = IF s \in Stopped(ids) THEN "stopped" ELSE status[s]
      /\ retained' = retained \cup {s \in ids \cap stopped : admit[s] # "registered"}
  BY <1>1 DEF WritableTakes
<1>3. ASSUME NEW s \in Bidi, Kept(s)
      PROVE  Kept(s)'
  BY <1>2, <1>3, ClassFacts DEF Kept
<1>4. ASSUME NEW s \in Bidi, s \in ids, s \in stopped
      PROVE  Kept(s)'
  <2>1. s \in Streams /\ EndOf(s)
    BY ClassFacts DEF Ends
  <2>2. CASE admit[s] # "registered"
    BY <1>2, <1>4, <2>2 DEF Kept
  <2>3. CASE admit[s] = "registered" /\ "send" \notin done[s]
    <3>1. s \in Stopped(ids)
      BY <1>4, <2>3 DEF Stopped
    <3> QED BY <1>2, <2>1, <3>1 DEF Kept
  <2>4. CASE admit[s] = "registered" /\ "send" \in done[s]
    <3>1. Kept(s)
      BY <2>1, <2>4 DEF EndOf, Kept
    <3> QED BY <1>3, <3>1
  <2> QED BY <2>2, <2>3, <2>4
<1> QED BY <1>2, <1>3, <1>4, KeptOn

\* Every step keeps a STOP_SENDING.
LEMMA StepStopKept ==
  ASSUME TypeOK, StopKept, Ends, Next
  PROVE  StopKept'
<1>0. TypeOK'
  BY StepTypes
<1>1. ASSUME UNCHANGED <<retained, status, closed>>, writable \subseteq writable',
             \A s \in Bidi : s \in stopped' => s \in stopped \/ s \in writable'
      PROVE  StopKept'
  <2>1. \A s \in Bidi : Kept(s) => Kept(s)'
    BY <1>1 DEF Kept
  <2> QED BY <1>0, <1>1, <2>1, KeptOn
<1>2. CASE Packets \/ Wake \/ WorkerExits \/ on_conn_close \/ promote_parked
  BY <1>1, <1>2 DEF Packets, Wake, WorkerExits, on_conn_close, promote_parked, quicheVars
<1>3. CASE intake_readable
  BY <1>1, <1>3, IntakeCase DEF IntakeTakes
<1>4. CASE stage_send
  <2>1. /\ \A s \in Streams : closed'[s] = IF s \in finishing THEN closed[s] \cup {"send"} ELSE closed[s]
        /\ writable' = writable \ finishing /\ UNCHANGED <<stopped, retained, status>>
    BY <1>4 DEF stage_send
  <2>2. ASSUME NEW s \in Bidi, s \in finishing PROVE Kept(s)'
    <3>1. closed'[s] = closed[s] \cup {"send"}
      BY <2>1, <2>2, ClassFacts
    <3> QED BY <3>1 DEF Kept
  <2>3. ASSUME NEW s \in Bidi, s \notin finishing PROVE Kept(s)' <=> Kept(s)
    <3>1. closed'[s] = closed[s]
      BY <2>1, <2>3, ClassFacts
    <3> QED BY <2>1, <3>1 DEF Kept
  <2> QED BY <1>0, <2>1, <2>2, <2>3, KeptOn
<1>5. CASE phase2_admission
  <2>1. Phase2Rest
    BY <1>5, Phase2Cases
  <2>2. CASE Phase2Ends
    BY <1>1, <2>1, <2>2 DEF Phase2Ends, Phase2Rest, shutVars
  <2>3. ASSUME NEW c \in Classes, NEW s \in Of(c), Phase2Admits(c, s)
        PROVE  StopKept'
    BY <1>0, <2>1, <2>3, AdmitKeeps DEF Phase2Admits, Phase2Rest, shutVars
  <2>4. ASSUME NEW c \in Classes, NEW s \in Of(c), Phase2Parks(c, s)
        PROVE  StopKept'
    BY <1>1, <2>1, <2>4 DEF Phase2Parks, Phase2Rest, shutVars
  <2>5. ASSUME NEW c \in Classes, NEW s \in Of(c), Phase2Refuses(c, s)
        PROVE  StopKept'
    BY <1>0, <2>1, <2>5, RefuseKeeps DEF Phase2Refuses, Phase2Rest
  <2> QED BY <1>5, <2>2, <2>3, <2>4, <2>5, Phase2Cases
<1>6. CASE promote_retry
  <2>1. RetryRest /\ prefer \in Classes
    BY <1>6, RetryCases DEF TypeOK, TypeWorker
  <2>2. CASE RetryStops
    BY <1>1, <2>1, <2>2 DEF RetryStops, RetryRest, shutVars
  <2>3. ASSUME NEW s \in Of(prefer), RetryAdmits(prefer, s)
        PROVE  StopKept'
    BY <1>0, <2>1, <2>3, AdmitKeeps DEF RetryAdmits, RetryRest, shutVars
  <2>4. ASSUME NEW s \in Of(prefer), RetryRefuses(prefer, s)
        PROVE  StopKept'
    BY <1>0, <2>1, <2>4, RefuseKeeps DEF RetryRefuses, RetryRest
  <2> QED BY <1>6, <2>2, <2>3, <2>4, RetryCases
<1>7. CASE apply_inbox
  <2>1. ApplyRest
    BY <1>7, ApplyCases
  <2>2. CASE ApplyEnds
    BY <1>1, <2>1, <2>2 DEF ApplyEnds, ApplyRest, shutVars
  <2>3. ASSUME NEW m \in Cmds, ApplyResume(m) \/ ApplyFinish(m)
        PROVE  StopKept'
    BY <1>1, <2>1, <2>3 DEF ApplyResume, ApplyFinish, ApplyRest, shutVars
  <2>4. ASSUME NEW m \in Cmds, ApplyDropped(m)
        PROVE  StopKept'
    <3>1. /\ shutdown_peer_directions(Parked \cup pending_admit)
          /\ retained' = retained \ (Parked \cup pending_admit)
      BY <2>4, Cleaned DEF ApplyDropped
    <3>2. PICK W : W = Parked \cup pending_admit
      OBVIOUS
    <3>3. UNCHANGED <<stopped, status>>
      BY <2>1 DEF ApplyRest
    <3>4. shutdown_peer_directions(W) /\ retained' = retained \ W
      BY <3>1, <3>2
    <3> QED BY <1>0, <3>3, <3>4, RefuseKeeps
  <2>5. ASSUME NEW m \in Cmds, ApplyStop(m)
        PROVE  StopKept'
    <3>1. \A s \in Streams : closed[s] \subseteq closed'[s]
      BY <2>5, CmdShape DEF ApplyStop, TypeOK, TypeQuiche
    <3>2. UNCHANGED <<stopped, writable, retained, status>>
      BY <2>1, <2>5 DEF ApplyStop, ApplyRest
    <3>3. \A s \in Bidi : Kept(s) => Kept(s)'
      BY <3>1, <3>2, ClassFacts DEF Kept
    <3> QED BY <1>0, <3>2, <3>3, KeptOn
  <2> QED BY <1>7, <2>2, <2>3, <2>4, <2>5, ApplyCases
<1>8. CASE Accepting
  BY <1>1, <1>8 DEF Accepting, AcceptPoll, AcceptSignal, AcceptNudge, AcceptTerminal, AcceptRecheck,
              AcceptClosed, UNCHANGED_ByAccept, quicheVars
<1>9. CASE Drops
  BY <1>1, <1>9 DEF Drops, ConnectionDrop, Dropping, DropReceiver, DropHandoff, StreamDrop,
              UNCHANGED_ByDrop, quicheVars
<1> QED BY <1>0, <1>2, <1>3, <1>4, <1>5, <1>6, <1>7, <1>8, <1>9, NextCases, WritableKeeps

-----------------------------------------------------------------------------
(* The order within a class.                                               *)

\* The oldest one leaves a queue.
LEMMA OrderedTail ==
  ASSUME NEW q \in Seq(Streams), q # <<>>, NEW f, Ordered(q, f), DOMAIN f \subseteq Nat
  PROVE  Ordered(Tail(q), f)
<1>1. /\ Len(q) \in Nat \ {0} /\ DOMAIN q = 1..Len(q) /\ DOMAIN Tail(q) = 1..(Len(q) - 1)
      /\ \A i \in 1..(Len(q) - 1) : Tail(q)[i] = q[i + 1] /\ i + 1 \in 1..Len(q)
  BY TailElems
<1>2. ASSUME NEW i \in DOMAIN f, NEW j \in DOMAIN f, NEW k \in DOMAIN Tail(q), NEW n \in DOMAIN Tail(q),
             Tail(q)[k] = f[i], Tail(q)[n] = f[j], i < j
      PROVE  k < n
  <2>1. q[k + 1] = f[i] /\ q[n + 1] = f[j] /\ k + 1 \in DOMAIN q /\ n + 1 \in DOMAIN q
    BY <1>1, <1>2
  <2>2. k + 1 < n + 1
    BY <1>2, <2>1 DEF Ordered
  <2> QED BY <1>1, <2>2
<1> QED BY <1>2 DEF Ordered

\* The oldest pending one leaves, or the oldest parked one.
LEMMA AgedTake ==
  ASSUME NEW q \in Seq(Streams), NEW p \in Seq(Streams), NEW f \in Seq(Streams), AgedIn(q, p, f)
  PROVE  /\ q # <<>> => AgedIn(Tail(q), p, f)
         /\ p # <<>> => AgedIn(q, Tail(p), f)
<1>1. DOMAIN f \subseteq Nat
  OBVIOUS
<1>2. ASSUME q # <<>> PROVE AgedIn(Tail(q), p, f)
  <2>1. Ordered(Tail(q), f) /\ Range(Tail(q)) \subseteq Range(q)
    BY <1>1, <1>2, OrderedTail, TailElems DEF AgedIn
  <2> QED BY <2>1 DEF AgedIn
<1>3. ASSUME p # <<>> PROVE AgedIn(q, Tail(p), f)
  <2>1. Ordered(Tail(p), f) /\ Range(Tail(p)) \subseteq Range(p)
    BY <1>1, <1>3, OrderedTail, TailElems DEF AgedIn
  <2> QED BY <2>1 DEF AgedIn
<1> QED BY <1>2, <1>3

\* The oldest pending one is parked.
LEMMA AgedPark ==
  ASSUME NEW q \in Seq(Streams), q # <<>>, NEW p \in Seq(Streams), NEW f \in Seq(Streams),
         IsInjective(f), AgedIn(q, p, f)
  PROVE  AgedIn(Tail(q), Append(p, Head(q)), f)
<1>1. PICK s \in Streams : s = Head(q) /\ s = q[1] /\ s \in Range(q)
  BY TailElems
<1>2. /\ Len(q) \in Nat \ {0} /\ DOMAIN q = 1..Len(q) /\ DOMAIN Tail(q) = 1..(Len(q) - 1)
      /\ \A i \in 1..(Len(q) - 1) : Tail(q)[i] = q[i + 1] /\ i + 1 \in 1..Len(q)
      /\ Range(Tail(q)) \subseteq Range(q)
  BY TailElems
<1>3. PICK r : r = Append(p, s)
  OBVIOUS
<1>4. /\ Len(p) \in Nat /\ DOMAIN p = 1..Len(p) /\ DOMAIN r = 1..(Len(p) + 1)
      /\ \A i \in 1..Len(p) : r[i] = p[i]
      /\ r[Len(p) + 1] = s /\ Range(r) = Range(p) \cup {s}
  BY <1>3, AppendElems
<1>5. DOMAIN f \subseteq Nat
  OBVIOUS
<1>6. ASSUME NEW i \in DOMAIN f, NEW j \in DOMAIN f, NEW k \in DOMAIN r, NEW n \in DOMAIN r,
             r[k] = f[i], r[n] = f[j], i < j
      PROVE  k < n
  <2>1. CASE k \in 1..Len(p) /\ n \in 1..Len(p)
    BY <1>4, <1>6, <2>1 DEF AgedIn, Ordered
  <2>2. CASE k \in 1..Len(p) /\ n \notin 1..Len(p)
    BY <1>4, <2>2
  <2>3. CASE k \notin 1..Len(p) /\ n \in 1..Len(p)
    <3>1. r[k] = s /\ f[j] \in Range(p)
      <4>1. k = Len(p) + 1
        BY <1>4, <2>3
      <4> QED BY <1>4, <1>6, <2>3, <4>1 DEF Range
    <3>2. f[i] \notin Range(q)
      BY <1>6, <3>1 DEF AgedIn
    <3> QED BY <1>1, <1>6, <3>1, <3>2
  <2>4. CASE k \notin 1..Len(p) /\ n \notin 1..Len(p)
    <3>1. k = n
      BY <1>4, <2>4
    <3>2. i = j
      BY <1>6, <3>1 DEF IsInjective
    <3> QED BY <1>5, <1>6, <3>2
  <2> QED BY <2>1, <2>2, <2>3, <2>4
<1>7. ASSUME NEW i \in DOMAIN f, NEW j \in DOMAIN f, i < j, f[j] \in Range(r)
      PROVE  f[i] \notin Range(Tail(q))
  <2>1. CASE f[j] \in Range(p)
    BY <1>2, <1>7, <2>1 DEF AgedIn
  <2>2. CASE f[j] = s
    <3>1. SUFFICES ASSUME NEW n \in DOMAIN Tail(q), f[i] = Tail(q)[n]
                   PROVE  FALSE
      BY DEF Range
    <3>2. q[n + 1] = f[i] /\ n + 1 \in DOMAIN q /\ 1 \in DOMAIN q /\ n \in Nat
      BY <1>2, <3>1
    <3>3. n + 1 < 1
      BY <1>1, <1>7, <2>2, <3>2 DEF AgedIn, Ordered
    <3> QED BY <3>2, <3>3
  <2> QED BY <1>4, <1>7, <2>1, <2>2
<1>8. Ordered(Tail(q), f)
  BY <1>5, OrderedTail DEF AgedIn
<1>9. Ordered(r, f)
  BY <1>6 DEF Ordered
<1> QED BY <1>1, <1>3, <1>7, <1>8, <1>9 DEF AgedIn

\* New ids are found, and queued in the order they were found in.
LEMMA AgedJoin ==
  ASSUME NEW q \in Seq(Streams), NEW p \in Seq(Streams), NEW f \in Seq(Streams), NEW t \in Seq(Streams),
         IsInjective(t), Range(f) \cap Range(t) = {},
         Range(q) \subseteq Range(f), Range(p) \subseteq Range(f), AgedIn(q, p, f)
  PROVE  AgedIn(q \o t, p, f \o t)
<1>1. PICK a : a = q \o t
  OBVIOUS
<1>2. PICK b : b = f \o t
  OBVIOUS
<1>3. /\ Len(q) \in Nat /\ Len(t) \in Nat
      /\ DOMAIN q = 1..Len(q) /\ DOMAIN t = 1..Len(t) /\ DOMAIN a = 1..(Len(q) + Len(t))
      /\ \A i \in 1..Len(q) : a[i] = q[i]
      /\ \A i \in 1..(Len(q) + Len(t)) :
           i \notin 1..Len(q) => i - Len(q) \in 1..Len(t) /\ a[i] = t[i - Len(q)]
      /\ Range(a) = Range(q) \cup Range(t)
  BY <1>1, ConcatElems
<1>4. /\ Len(f) \in Nat /\ DOMAIN f = 1..Len(f) /\ DOMAIN b = 1..(Len(f) + Len(t))
      /\ \A i \in 1..Len(f) : b[i] = f[i]
      /\ \A i \in 1..(Len(f) + Len(t)) :
           i \notin 1..Len(f) => i - Len(f) \in 1..Len(t) /\ b[i] = t[i - Len(f)]
  BY <1>2, ConcatElems
<1>5. ASSUME NEW i \in DOMAIN b
      PROVE  (i \in 1..Len(f) <=> b[i] \in Range(f)) /\ (i \notin 1..Len(f) <=> b[i] \in Range(t))
  <2>1. i \in 1..Len(f) => b[i] \in Range(f)
    BY <1>4 DEF Range
  <2>2. i \notin 1..Len(f) => b[i] \in Range(t)
    BY <1>3, <1>4 DEF Range
  <2> QED BY <2>1, <2>2
<1>6. ASSUME NEW k \in DOMAIN a
      PROVE  (k \in 1..Len(q) <=> a[k] \in Range(f)) /\ (k \notin 1..Len(q) <=> a[k] \in Range(t))
  <2>1. k \in 1..Len(q) => a[k] \in Range(q)
    BY <1>3 DEF Range
  <2>2. k \notin 1..Len(q) => a[k] \in Range(t)
    BY <1>3 DEF Range
  <2> QED BY <2>1, <2>2
<1>7. ASSUME NEW i \in DOMAIN b, NEW j \in DOMAIN b, NEW k \in DOMAIN a, NEW n \in DOMAIN a,
             a[k] = b[i], a[n] = b[j], i < j
      PROVE  k < n
  <2>1. (k \in 1..Len(q) <=> i \in 1..Len(f)) /\ (n \in 1..Len(q) <=> j \in 1..Len(f))
    BY <1>5, <1>6, <1>7
  <2>2. CASE i \in 1..Len(f) /\ j \in 1..Len(f)
    <3>1. q[k] = f[i] /\ q[n] = f[j] /\ k \in DOMAIN q /\ n \in DOMAIN q
      BY <1>3, <1>4, <1>7, <2>1, <2>2
    <3> QED BY <1>4, <1>7, <2>2, <3>1 DEF AgedIn, Ordered
  <2>3. CASE i \in 1..Len(f) /\ j \notin 1..Len(f)
    BY <1>3, <2>1, <2>3
  <2>4. CASE i \notin 1..Len(f) /\ j \in 1..Len(f)
    BY <1>4, <1>7, <2>4
  <2>5. CASE i \notin 1..Len(f) /\ j \notin 1..Len(f)
    <3>1. /\ i - Len(f) \in DOMAIN t /\ k - Len(q) \in DOMAIN t /\ t[k - Len(q)] = t[i - Len(f)]
          /\ j - Len(f) \in DOMAIN t /\ n - Len(q) \in DOMAIN t /\ t[n - Len(q)] = t[j - Len(f)]
      BY <1>3, <1>4, <1>7, <2>1, <2>5
    <3>2. k - Len(q) = i - Len(f) /\ n - Len(q) = j - Len(f)
      BY <3>1 DEF IsInjective
    <3> QED BY <1>3, <1>4, <1>7, <3>2
  <2> QED BY <2>2, <2>3, <2>4, <2>5
<1>8. ASSUME NEW i \in DOMAIN b, NEW j \in DOMAIN b, NEW k \in DOMAIN p, NEW n \in DOMAIN p,
             p[k] = b[i], p[n] = b[j], i < j
      PROVE  k < n
  <2>1. p[k] \in Range(f) /\ p[n] \in Range(f)
    BY DEF Range
  <2>2. i \in 1..Len(f) /\ j \in 1..Len(f)
    BY <1>5, <1>8, <2>1
  <2> QED BY <1>4, <1>8, <2>2 DEF AgedIn, Ordered
<1>9. ASSUME NEW i \in DOMAIN b, NEW j \in DOMAIN b, i < j, b[j] \in Range(p)
      PROVE  b[i] \notin Range(a)
  <2>1. j \in 1..Len(f)
    BY <1>5, <1>9
  <2>2. i \in 1..Len(f)
    BY <1>4, <1>9, <2>1
  <2>3. b[i] = f[i] /\ b[j] = f[j] /\ f[i] \notin Range(q)
    BY <1>4, <1>9, <2>1, <2>2 DEF AgedIn
  <2>4. f[i] \notin Range(t)
    BY <1>5, <2>2, <2>3
  <2> QED BY <1>3, <2>3, <2>4
<1>10. AgedIn(a, p, b)
  BY <1>7, <1>8, <1>9 DEF AgedIn, Ordered
<1> QED BY <1>1, <1>2, <1>10

\* Every step keeps the order of discovery.
LEMMA StepAged ==
  ASSUME TypeOK, Places, Ends, Aged, Next
  PROVE  Aged'
<1>1. /\ pending \in Queues /\ parked \in Queues /\ found \in Queues /\ AllInjective(found)
      /\ \A c \in Classes : /\ pending[c] \in Seq(Streams) /\ parked[c] \in Seq(Streams)
                            /\ found[c] \in Seq(Streams) /\ IsInjective(found[c])
  BY PlaceFacts, QueueFacts DEF AllInjective
<1>2. CASE UNCHANGED <<pending, parked, found>>
  BY <1>2 DEF Aged
<1>3. CASE Packets \/ Wake \/ WorkerExits \/ on_conn_close \/ promote_parked \/ stage_send
  BY <1>2, <1>3 DEF Packets, Wake, WorkerExits, on_conn_close, promote_parked, stage_send, queueVars
<1>4. CASE Accepting
  BY <1>2, <1>4 DEF Accepting, AcceptPoll, AcceptSignal, AcceptNudge, AcceptTerminal, AcceptRecheck,
              AcceptClosed, UNCHANGED_ByAccept, queueVars
<1>5. CASE Drops
  BY <1>2, <1>5 DEF Drops, ConnectionDrop, Dropping, DropReceiver, DropHandoff, StreamDrop,
              UNCHANGED_ByDrop, queueVars
<1>6. CASE intake_readable \/ stage_writable
  <2>1. PICK ids \in SUBSET Streams : IntakeTakes(ids) \/ (ids \subseteq Bidi /\ WritableTakes(ids))
    BY <1>6, IntakeCase, WritableCase, ClassFacts
  <2>2. PICK ids2 \in SUBSET Streams : ids2 = {s \in ids : Unknown(s)}
    OBVIOUS
  <2>3. Discover(ids2) /\ UNCHANGED parked /\ ids2 \cap Found = {}
    BY <2>1, <2>2, NewIds DEF IntakeTakes, WritableTakes
  <2>4. PICK new \in Queues : /\ Queued(new) = ids2 /\ AllInjective(new)
                              /\ pending' = Joined(pending, new) /\ found' = Joined(found, new)
    BY <2>3, Discovered
  <2>5. ASSUME NEW c \in Classes
        PROVE  AgedIn(pending[c] \o new[c], parked[c], found[c] \o new[c])
    <3>1. new[c] \in Seq(Streams) /\ IsInjective(new[c])
      BY <2>4, QueueFacts DEF AllInjective
    <3>2. Range(found[c]) \cap Range(new[c]) = {}
      BY <1>1, <2>3, <2>4, QueueFacts DEF Found
    <3>3. /\ \A s \in Range(pending[c]) : s \in Of(c) /\ s \in Queued(pending)
          /\ \A s \in Range(parked[c]) : s \in Of(c) /\ s \in Queued(parked)
      BY <1>1, QueueFacts
    <3>4. /\ \A s \in Range(pending[c]) : s \in Of(c) /\ s \in Found
          /\ \A s \in Range(parked[c]) : s \in Of(c) /\ s \in Found
      BY <3>3, PlaceFacts
    <3>5. Range(pending[c]) \subseteq Range(found[c]) /\ Range(parked[c]) \subseteq Range(found[c])
      BY <1>1, <3>4, QueueFacts DEF Found
    <3>6. AgedIn(pending[c], parked[c], found[c])
      BY DEF Aged
    <3> QED BY <1>1, <3>1, <3>2, <3>5, <3>6, AgedJoin
  <2> QED BY <2>3, <2>4, <2>5 DEF Aged, Joined
<1>7. CASE phase2_admission
  <2>1. UNCHANGED found
    BY <1>7, Phase2Cases DEF Phase2Rest
  <2>2. CASE Phase2Ends
    BY <1>2, <2>1, <2>2 DEF Phase2Ends, queueVars
  <2>3. ASSUME NEW c \in Classes, NEW s \in Of(c), Phase2Takes(c, s),
               Phase2Admits(c, s) \/ Phase2Parks(c, s) \/ Phase2Refuses(c, s)
        PROVE  Aged'
    <3>1. /\ pending[c] # <<>> /\ s = Head(pending[c])
          /\ pending'[c] = Tail(pending[c])
          /\ \A d \in Classes : d # c => pending'[d] = pending[d]
      BY <1>1, <2>3, Pop1 DEF Phase2Takes
    <3>2. AgedIn(pending[c], parked[c], found[c])
      BY DEF Aged
    <3>3. CASE Phase2Admits(c, s) \/ Phase2Refuses(c, s)
      <4>1. UNCHANGED parked
        BY <3>3 DEF Phase2Admits, Phase2Refuses
      <4>2. AgedIn(Tail(pending[c]), parked[c], found[c])
        BY <1>1, <3>1, <3>2, AgedTake
      <4> QED BY <2>1, <3>1, <4>1, <4>2 DEF Aged
    <3>4. CASE Phase2Parks(c, s)
      <4>1. /\ parked'[c] = Append(parked[c], Head(pending[c]))
            /\ \A d \in Classes : d # c => parked'[d] = parked[d]
        BY <1>1, <3>1, <3>4, Push DEF Phase2Parks
      <4>2. AgedIn(Tail(pending[c]), Append(parked[c], Head(pending[c])), found[c])
        BY <1>1, <3>1, <3>2, AgedPark
      <4> QED BY <2>1, <3>1, <4>1, <4>2 DEF Aged
    <3> QED BY <2>3, <3>3, <3>4
  <2> QED BY <1>7, <2>2, <2>3, Phase2Cases
<1>8. CASE promote_retry
  <2>1. UNCHANGED <<found, pending>> /\ prefer \in Classes
    BY <1>8, RetryCases DEF RetryRest, TypeOK, TypeWorker
  <2>2. CASE RetryStops
    BY <1>2, <2>1, <2>2 DEF RetryStops
  <2>3. ASSUME parked[prefer] # <<>>, parked' = Popped(parked, prefer)
        PROVE  Aged'
    <3>1. PICK c \in Classes : c = prefer
      BY <2>1
    <3>2. /\ parked[c] # <<>> /\ parked'[c] = Tail(parked[c])
          /\ \A d \in Classes : d # c => parked'[d] = parked[d]
      BY <1>1, <2>3, <3>1, Pop1
    <3>3. AgedIn(pending[c], Tail(parked[c]), found[c])
      BY <1>1, <3>2, AgedTake DEF Aged
    <3> QED BY <2>1, <3>2, <3>3 DEF Aged
  <2> QED BY <1>8, <2>2, <2>3, RetryCases
<1>9. CASE apply_inbox
  <2>1. UNCHANGED found
    BY <1>9, ApplyCases DEF ApplyRest
  <2>2. CASE UNCHANGED queueVars
    BY <1>2, <2>1, <2>2 DEF queueVars
  <2>3. ASSUME clean_undelivered_peer_streams
        PROVE  Aged'
    <3>1. \A c \in Classes : pending'[c] = <<>> /\ parked'[c] = <<>>
      BY <2>3, Cleaned
    <3> QED BY <3>1 DEF Aged, AgedIn, Ordered, Range
  <2> QED BY <1>9, <2>2, <2>3, ApplyCases DEF ApplyEnds, ApplyResume, ApplyDropped, ApplyStop, ApplyFinish
<1> QED BY <1>3, <1>4, <1>5, <1>6, <1>7, <1>8, <1>9, NextCases

\* A stream that a step registers was the oldest pending or the oldest parked
\* stream of its class.
LEMMA WhoRegisters ==
  ASSUME TypeOK, Next, NEW t \in Streams, admit[t] # "registered", admit'[t] = "registered"
  PROVE  \E c \in Classes : \/ pending[c] # <<>> /\ t = Head(pending[c])
                            \/ parked[c] # <<>> /\ t = Head(parked[c])
<1>1. ASSUME \A s \in Streams : admit'[s] = admit[s] \/ admit'[s] # "registered"
      PROVE  FALSE
  BY <1>1
<1>2. ~(Packets \/ Wake \/ WorkerExits \/ on_conn_close \/ promote_parked \/ intake_readable)
  BY <1>1, IntakeCase DEF Packets, Wake, WorkerExits, on_conn_close, promote_parked, IntakeTakes
<1>3. ~Accepting
  BY <1>1 DEF Accepting, AcceptPoll, AcceptSignal, AcceptNudge, AcceptTerminal, AcceptRecheck,
              AcceptClosed, UNCHANGED_ByAccept
<1>4. ~Drops
  BY <1>1 DEF Drops, ConnectionDrop, Dropping, DropReceiver, DropHandoff, StreamDrop, UNCHANGED_ByDrop
<1>5. ASSUME NEW S, NEW d \in {"recv", "send"}, MarkDone(S, d), \A s \in S : s \in Streams /\ d \in Dirs(s)
      PROVE  FALSE
  BY <1>1, <1>5, Marked
<1>6. ~stage_send
  <2>1. \A s \in finishing : s \in Streams /\ "send" \in Dirs(s)
    BY ClassFacts DEF TypeOK, TypeWorker
  <2> QED BY <1>5, <2>1 DEF stage_send
<1>7. ~stage_writable
  <2>1. SUFFICES ASSUME NEW ids \in SUBSET Bidi, WritableTakes(ids) PROVE FALSE
    BY WritableCase
  <2>2. PICK live : live = Stopped(ids)
    OBVIOUS
  <2>3. \A s \in live : s \in Streams /\ "send" \in Dirs(s)
    BY <2>2, ClassFacts DEF Stopped
  <2> QED BY <1>5, <2>1, <2>2, <2>3 DEF WritableTakes
<1>8. ~apply_inbox
  <2>1. SUFFICES ASSUME apply_inbox PROVE FALSE
    OBVIOUS
  <2>2. ~ApplyEnds
    BY <1>1 DEF ApplyEnds
  <2>3. ASSUME NEW m \in Cmds, ApplyResume(m) \/ ApplyFinish(m) PROVE FALSE
    BY <1>1, <2>3 DEF ApplyResume, ApplyFinish
  <2>4. ASSUME NEW m \in Cmds, ApplyDropped(m) PROVE FALSE
    BY <1>1, <2>4, Cleaned DEF ApplyDropped
  <2>5. ASSUME NEW m \in Cmds, ApplyStop(m) PROVE FALSE
    <3>1. MarkDone({m.arg}, "recv") /\ \A s \in {m.arg} : s \in Streams /\ "recv" \in Dirs(s)
      BY <2>5, CmdShape, ClassFacts DEF ApplyStop
    <3> QED BY <1>5, <3>1
  <2> QED BY <2>1, <2>2, <2>3, <2>4, <2>5, ApplyCases
<1>9. CASE phase2_admission
  <2>1. ~Phase2Ends
    BY <1>1 DEF Phase2Ends
  <2>a. PICK c \in Classes : \E s \in Of(c) :
          Phase2Takes(c, s) /\ (Phase2Admits(c, s) \/ Phase2Parks(c, s) \/ Phase2Refuses(c, s))
    BY <1>9, <2>1, Phase2Cases
  <2>2. PICK s \in Of(c) :
          Phase2Takes(c, s) /\ (Phase2Admits(c, s) \/ Phase2Parks(c, s) \/ Phase2Refuses(c, s))
    BY <2>a
  <2>3. ~Phase2Refuses(c, s)
    BY <1>1 DEF Phase2Refuses
  <2>4. ~Phase2Parks(c, s)
    BY <1>1 DEF Phase2Parks, TypeOK, TypeWorker
  <2>5. Register(s)
    BY <2>2, <2>3, <2>4 DEF Phase2Admits
  <2>6. t = s
    BY <2>5, Registered
  <2> QED BY <2>2, <2>6 DEF Phase2Takes
<1>10. CASE promote_retry
  <2>1. prefer \in Classes
    BY DEF TypeOK, TypeWorker
  <2>2. ~RetryStops
    BY <1>1 DEF RetryStops
  <2>3. PICK s \in Of(prefer) : /\ parked[prefer] # <<>> /\ s = Head(parked[prefer])
                                /\ RetryAdmits(prefer, s) \/ RetryRefuses(prefer, s)
    BY <1>10, <2>2, RetryCases
  <2>4. ~RetryRefuses(prefer, s)
    BY <1>1 DEF RetryRefuses, TypeOK, TypeWorker
  <2>5. Register(s)
    BY <2>3, <2>4 DEF RetryAdmits
  <2>6. t = s
    BY <2>1, <2>5, Registered
  <2> QED BY <2>1, <2>3, <2>6
<1> QED BY <1>2, <1>3, <1>4, <1>6, <1>7, <1>8, <1>9, <1>10, NextCases

\* So none that was found earlier is overtaken, unless it was parked before.
LEMMA StepInOrder ==
  ASSUME TypeOK, Places, Aged, Next,
         NEW c \in Classes, NEW j \in 1..Len(found[c]), NEW i \in 1..(j - 1),
         admit[found[c][j]] # "registered", admit'[found[c][j]] = "registered"
  PROVE  /\ found[c][i] \notin pending_admit
         /\ found[c][i] \in Parked => found[c][j] \notin Parked
<1>1. /\ found[c] \in Seq(Streams) /\ pending[c] \in Seq(Streams) /\ parked[c] \in Seq(Streams)
      /\ Range(found[c]) \subseteq Of(c)
      /\ \A d \in Classes : \A s \in Of(c) : /\ s \in Range(pending[d]) => d = c
                                             /\ s \in Range(parked[d]) => d = c
  BY PlaceFacts, QueueFacts, ClassFacts
<1>2. i \in DOMAIN found[c] /\ j \in DOMAIN found[c] /\ i < j
  BY <1>1
<1>3. PICK older \in Of(c) : older = found[c][i]
  BY <1>1, <1>2 DEF Range
<1>4. PICK newer \in Of(c) : newer = found[c][j]
  BY <1>1, <1>2 DEF Range
<1>5. PICK d \in Classes : \/ pending[d] # <<>> /\ newer = Head(pending[d])
                           \/ parked[d] # <<>> /\ newer = Head(parked[d])
  BY <1>4, WhoRegisters, ClassFacts
<1>6. \/ pending[c] # <<>> /\ newer = Head(pending[c])
      \/ parked[c] # <<>> /\ newer = Head(parked[c])
  <2>1. pending[d] # <<>> => Head(pending[d]) \in Range(pending[d])
    BY PlaceFacts, QueueFacts, TailElems
  <2>2. parked[d] # <<>> => Head(parked[d]) \in Range(parked[d])
    BY PlaceFacts, QueueFacts, TailElems
  <2> QED BY <1>1, <1>5, <2>1, <2>2
<1>7. /\ older \in pending_admit <=> older \in Range(pending[c])
      /\ newer \in pending_admit <=> newer \in Range(pending[c])
      /\ older \in Parked <=> older \in Range(parked[c])
      /\ newer \in Parked <=> newer \in Range(parked[c])
  BY PlaceFacts, QueueFacts
<1>8. AgedIn(pending[c], parked[c], found[c])
  BY DEF Aged
<1>9. ASSUME NEW q \in Seq(Streams), q # <<>>, newer = Head(q), Ordered(q, found[c])
      PROVE  older \notin Range(q)
  <2>1. SUFFICES ASSUME NEW n \in DOMAIN q, older = q[n] PROVE FALSE
    BY DEF Range
  <2>2. 1 \in DOMAIN q /\ q[1] = newer /\ DOMAIN q = 1..Len(q) /\ Len(q) \in Nat
    BY <1>9, TailElems
  <2>3. n < 1
    BY <1>2, <1>3, <1>4, <1>9, <2>1, <2>2 DEF Ordered
  <2> QED BY <2>2, <2>3
<1>10. CASE pending[c] # <<>> /\ newer = Head(pending[c])
  <2>1. older \notin Range(pending[c])
    BY <1>1, <1>8, <1>9, <1>10 DEF AgedIn
  <2>2. newer \in pending_admit
    BY <1>1, <1>7, <1>10, TailElems
  <2>3. newer \notin Parked
    BY <2>2, PlaceFacts DEF Parked
  <2> QED BY <1>3, <1>4, <1>7, <2>1, <2>3
<1>11. CASE parked[c] # <<>> /\ newer = Head(parked[c])
  <2>1. older \notin Range(parked[c])
    BY <1>1, <1>8, <1>9, <1>11 DEF AgedIn
  <2>2. newer \in Range(parked[c])
    BY <1>1, <1>11, TailElems
  <2>3. older \notin Range(pending[c])
    BY <1>2, <1>3, <1>4, <1>8, <2>2 DEF AgedIn
  <2> QED BY <1>3, <1>7, <2>1, <2>3
<1> QED BY <1>6, <1>10, <1>11

-----------------------------------------------------------------------------
(* The theorems.                                                           *)

\* Nothing is found at first.
LEMMA InitInv == Init => IInv
<1> SUFFICES ASSUME Init PROVE IInv
  OBVIOUS
<1>1. TypeOK
  BY InitTypes
<1>2. /\ Queued(pending) = {} /\ Queued(parked) = {} /\ Queued(accept) = {} /\ Found = {}
      /\ Parked = {} /\ delivered = {} /\ retained = {} /\ pending_admit = {}
      /\ \A c \in Classes : pending[c] = <<>> /\ parked[c] = <<>> /\ accept[c] = <<>> /\ found[c] = <<>>
      /\ Range(cmd) = {}
  BY DEF Init, Queued, Range, Found, Parked, Classes
<1>3. Nudged /\ Sealed
  BY <1>2 DEF Init, Nudged, Sealed, OnItsWay
<1>4. Places
  <2>1. IsInjective(<<>>)
    BY DEF IsInjective
  <2> QED BY <1>2, <2>1 DEF Init, Places, AllInjective, Somewhere
<1>5. Ends
  BY <1>2 DEF Init, Ends, Grounds, EndOf, Gone
<1>6. Paired
  BY FirstSent DEF Init, Paired
<1>7. StopKept
  BY DEF Init, StopKept
<1>8. Aged
  BY <1>2 DEF Aged, AgedIn, Ordered, Range
<1> QED BY <1>1, <1>3, <1>4, <1>5, <1>6, <1>7, <1>8 DEF IInv, BaseInv

\* A step that changes nothing keeps everything.
LEMMA Stutter ==
  ASSUME UNCHANGED vars
  PROVE  (BaseInv => BaseInv') /\ (IInv => IInv')
<1> USE DEF vars, quicheVars, queueVars, phaseVars, frontVars
<1>1. TypeOK => TypeOK'
  BY DEF TypeOK, TypeQuiche, TypeWorker, TypeShared, TypeFront
<1>2. Nudged => Nudged'
  BY DEF Nudged, OnItsWay
<1>3. Sealed => Sealed'
  BY DEF Sealed
<1>4. Places => Places'
  BY DEF Places, Parked, Found, Somewhere, RxOpen
<1>5. Ends => Ends'
  BY DEF Ends, Grounds, EndOf, Gone, Found
<1>6. Paired => Paired'
  BY DEF Paired, Taken
<1>7. StopKept => StopKept'
  BY DEF StopKept
<1>8. Aged => Aged'
  BY DEF Aged
<1> QED BY <1>1, <1>2, <1>3, <1>4, <1>5, <1>6, <1>7, <1>8 DEF IInv, BaseInv

(* The types, the nudges and the seal, with or without late stops.          *)
THEOREM BaseInvariant == Spec => []BaseInv
<1>1. Init => BaseInv
  BY InitInv DEF IInv
<1>2. BaseInv /\ [Next]_vars => BaseInv'
  BY StepTypes, StepNudged, StepSealed, Stutter DEF BaseInv
<1> QED BY <1>1, <1>2, PTL DEF Spec

(* The variables of the worker, the channels and the acceptor keep their    *)
(* types: among them, a retained STOP_SENDING was sent by the peer, every   *)
(* queue holds streams of its own class, and only a direction that a stream *)
(* has is ever ended.                                                       *)
THEOREM TypeCorrect == Spec => []TypeOK
<1>1. BaseInv => TypeOK
  BY DEF BaseInv
<1> QED BY <1>1, BaseInvariant, PTL

(* NoLostAcceptResume: the worker does not go to sleep on a parked stream   *)
(* whose channel is empty without the nudge of the acceptor on its way      *)
(* (promote_parked clears the resume bit before it retries, and the         *)
(* acceptor swaps the bit after it took a handoff).                         *)
THEOREM NoResumeIsLost == Spec => []NoLostAcceptResume
<1>1. BaseInv => NoLostAcceptResume
  <2> SUFFICES ASSUME BaseInv, NEW c \in Classes, wpc = "wait", ~needs_iteration,
                      parked[c] # <<>>, conn = "live"
               PROVE  \/ accept[c] # <<>>
                      \/ AcceptResume(c) \in Range(cmd)
                      \/ apc \in {"signal", "nudge"} /\ acls = c
    BY DEF NoLostAcceptResume
  <2>1. Nudged
    BY DEF BaseInv
  <2>2. /\ accept[c] # <<>> \/ OnItsWay(c) \/ (apc = "signal" /\ acls = c) \/ resume[c]
        /\ resume[c] => OnItsWay(c)
    BY <2>1 DEF Nudged
  <2> QED BY <2>2 DEF OnItsWay
<1> QED BY <1>1, BaseInvariant, PTL

(* TerminalIsLast: poll_accept_* reports the end of the connection with the *)
(* channel of its class drained, and never the internal error, because the  *)
(* worker publishes the terminal before the senders of the accept channels  *)
(* are dropped.                                                             *)
THEOREM TerminalComesLast == Spec => []TerminalIsLast
<1>1. BaseInv => TerminalIsLast
  BY DEF BaseInv, Sealed, TerminalIsLast
<1> QED BY <1>1, BaseInvariant, PTL

\* A step keeps the whole invariant when quiche has no late stops.
LEMMA StepInv ==
  ASSUME LateStop = FALSE, IInv, [Next]_vars
  PROVE  IInv'
<1>1. CASE UNCHANGED vars
  BY <1>1, Stutter
<1>2. CASE Next
  BY <1>2, StepTypes, StepNudged, StepSealed, StepPlaces, StepEnds, StepPaired, StepStopKept, StepAged
     DEF IInv, BaseInv
<1> QED BY <1>1, <1>2

(* The whole invariant, for a quiche that keeps the premise of contract A:  *)
(* a stream whose send half has finished is not returned as writable for a  *)
(* STOP_SENDING that comes later.                                           *)
THEOREM Invariant ==
  ASSUME LateStop = FALSE
  PROVE  Spec => []IInv
<1>1. Init => IInv
  BY InitInv
<1>2. IInv /\ [Next]_vars => IInv'
  BY StepInv
<1> QED BY <1>1, <1>2, PTL DEF Spec

\* A found stream is in one place, or in none and shut down.
LEMMA InOnePlace ==
  ASSUME TypeOK, Places
  PROVE  OnePlace
<1> DEFINE P(s) == {p \in {"pending", "parked", "accept", "delivered"} :
        \/ p = "pending"   /\ s \in Queued(pending)
        \/ p = "parked"    /\ s \in Queued(parked)
        \/ p = "accept"    /\ s \in Queued(accept)
        \/ p = "delivered" /\ s \in delivered}
<1>1. ASSUME NEW s \in Found
      PROVE  \/ Cardinality(P(s)) = 1
             \/ P(s) = {} /\ (closed[s] = Dirs(s) \/ ~RxOpen(Class(s)))
  <2>1. /\ s \in Queued(pending) => /\ s \notin Queued(parked) /\ s \notin Queued(accept)
                                    /\ s \notin delivered
        /\ s \in Queued(parked) => s \notin Queued(accept) /\ s \notin delivered
        /\ s \in Queued(accept) => s \notin delivered
    BY PlaceFacts DEF Parked
  <2>2. CASE s \in Queued(pending)
    <3>1. P(s) = {"pending"}
      BY <2>1, <2>2
    <3> QED BY <3>1, FS_Singleton
  <2>3. CASE s \in Queued(parked)
    <3>1. P(s) = {"parked"}
      BY <2>1, <2>3
    <3> QED BY <3>1, FS_Singleton
  <2>4. CASE s \in Queued(accept)
    <3>1. P(s) = {"accept"}
      BY <2>1, <2>4
    <3> QED BY <3>1, FS_Singleton
  <2>5. CASE s \in delivered
    <3>1. P(s) = {"delivered"}
      BY <2>1, <2>5
    <3> QED BY <3>1, FS_Singleton
  <2>6. CASE ~Somewhere(s)
    <3>1. P(s) = {}
      BY <2>6 DEF Somewhere
    <3>2. closed[s] = Dirs(s) \/ ~RxOpen(Class(s))
      BY <2>6, PlaceFacts
    <3> QED BY <3>1, <3>2
  <2> QED BY <2>2, <2>3, <2>4, <2>5, <2>6 DEF Somewhere
<1>2. /\ \A c \in Classes : IsInjective(pending[c])
      /\ \A c \in Classes : IsInjective(parked[c])
      /\ \A c \in Classes : IsInjective(accept[c])
      /\ \A c \in Classes : IsInjective(found[c])
  BY PlaceFacts DEF AllInjective
<1>3. pending_admit = Queued(pending) /\ Parked = Queued(parked) /\ retained \subseteq pending_admit \cup Parked
  BY PlaceFacts
<1> QED BY <1>1, <1>2, <1>3 DEF OnePlace

(* OnePlace: phase2_admission, promote_parked, the acceptor and the         *)
(* destructors hand a discovered stream on exactly once, and one that left  *)
(* every place without reaching the application was shut down in each       *)
(* direction it has.                                                        *)
THEOREM AStreamIsInOnePlace ==
  ASSUME LateStop = FALSE
  PROVE  Spec => []OnePlace
<1>1. IInv => OnePlace
  BY InOnePlace DEF IInv, BaseInv
<1> QED BY <1>1, Invariant, PTL

(* StopKept: a STOP_SENDING that stage_writable took off quiche's           *)
(* destructive cursor is in the PeerStream or the status cell from then on, *)
(* whenever the stream is admitted.                                         *)
THEOREM NoStopIsLost ==
  ASSUME LateStop = FALSE
  PROVE  Spec => []StopKept
<1>1. IInv => StopKept
  BY DEF IInv
<1> QED BY <1>1, Invariant, PTL

(* InClassOrder: admission registers the streams of a class in the order of *)
(* their discovery, except that it may pass a stream that is parked, and    *)
(* never one parked stream before an older parked one.                      *)
THEOREM AdmissionIsInOrder ==
  ASSUME LateStop = FALSE
  PROVE  Spec => InClassOrder
<1> DEFINE InOrder ==
      \A c \in Classes : \A j \in 1..Len(found[c]) : \A i \in 1..(j - 1) :
        LET older == found[c][i] IN LET newer == found[c][j] IN
        (admit[newer] # "registered" /\ admit'[newer] = "registered")
        => /\ older \notin pending_admit
           /\ older \in Parked => newer \notin Parked
<1>1. IInv /\ [Next]_vars => [InOrder]_vars
  BY StepInOrder DEF IInv, BaseInv
<1>2. [][InOrder]_vars => InClassOrder
  BY DEF InClassOrder
<1> QED BY <1>1, <1>2, Invariant, PTL DEF Spec
=============================================================================
