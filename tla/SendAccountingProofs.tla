------------------------ MODULE SendAccountingProofs ------------------------
(***************************************************************************)
(* The send-byte cap, for every number of streams and writes, every cap    *)
(* and all sizes.                                                          *)
(*                                                                         *)
(* Wakeups: NoLostWake alone is not inductive, it says nothing of a sender *)
(* whose write does not fit yet.  Listening adds that a sender between its *)
(* registration and its wakeup is in the waiter map or in the hands of a   *)
(* permit that drained the map.                                            *)
(*                                                                         *)
(* Bytes: the residency is a sum over the counted permits (SumInv), so the *)
(* facts about sums over finite sets come first.  OneUnit needs the sum:   *)
(* an admission over the cap finds residency zero, hence no other bytes.   *)
(***************************************************************************)
EXTENDS SendAccounting, FiniteSetTheorems, WellFoundedInduction, TLAPS

Listening ==
  \A s \in Streams :
    fpc[s] \in {"recheck", "parked"} /\ ~woken[s] =>
      s \in waiters \/ \E p \in Permits : s \in wakers[p]

\* Only a permit that drained the map holds wakers.
DrainedOnly == \A p \in Permits : pstate[p] # "wake" => wakers[p] = {}

\* The permit of a write that is not admitted does not exist, and poll_ready
\* still owns the one it was just given.
Owned ==
  \A p \in Permits :
    /\ p[2] > n[p[1]] => pstate[p] = "none"
    /\ p[2] = n[p[1]] /\ fpc[p[1]] \in {"poll", "reserve", "register", "recheck", "parked"}
         => pstate[p] = "none"
    /\ p[2] = n[p[1]] /\ fpc[p[1]] \in {"unregister", "send"} => pstate[p] = "held"

WaitInv == DrainedOnly /\ Listening /\ NoLostWake

\* A poll that is under way has a write, and a dropped handle no waker.
Begun ==
  /\ \A s \in Streams : fpc[s] \in {"poll", "reserve", "register", "recheck", "parked",
                                    "unregister", "send"} => n[s] > 0
  /\ \A s \in waiters : fpc[s] # "dropped"

IInv == TypeOK /\ Owned /\ Begun /\ WaitInv

\* The sum of f over S, as NothingLeaks states it, and its recursion.
Total(f, S) == MapThenSumSet(LAMBDA p : f[p], S)

Pick(s) == CHOOSE x \in s : TRUE

SumEq(h, f, D) == h = [s \in D |-> IF s = {} THEN 0 ELSE f[Pick(s)] + h[s \ {Pick(s)}]]

Iter(f, S) == CHOOSE h : SumEq(h, f, SUBSET S)

\* The residency is a sum over finitely many permits.
SumInv == IsFiniteSet(Counted) /\ resident = Total(pbytes, Counted)

\* Above the cap there is one permit with bytes, and no other.
OneUnit ==
  resident > Cap =>
    \E q \in Counted : \A p \in Counted : pbytes[p] > 0 <=> p = q

-----------------------------------------------------------------------------
(* Sums over finite sets *)

\* The community module's sum is the value of a recursive function.
LEMMA TotalIsSum ==
  ASSUME NEW f, NEW S
  PROVE  Total(f, S) = Iter(f, S)[S]
BY DEF Iter, Total, MapThenSumSet, MapThenFoldSet, SumEq, Pick

\* Induction over the subsets of a finite set, as a smallest counterexample.
LEMMA SmallestSubset ==
  ASSUME NEW S, IsFiniteSet(S), NEW T \in SUBSET (SUBSET S), T # {}
  PROVE  \E x \in T : \A y \in T : y \subseteq x => y = x
<1>1. IsWellFoundedOn(StrictSubsetOrdering(S), SUBSET S) 
  BY FS_StrictSubsetOrderingWellFounded, FS_FiniteSubsetsOfFinite
<1>2. PICK x \in T : \A y \in T : ~(<<y, x>> \in StrictSubsetOrdering(S))
  BY <1>1, WFMin
<1>3. ASSUME NEW y \in T, y \subseteq x, y # x PROVE FALSE
  <2>1. <<y, x>> \in StrictSubsetOrdering(S)
    BY <1>3 DEF StrictSubsetOrdering
  <2> QED BY <1>2, <2>1
<1> QED BY <1>3

\* Induction over the naturals, as a smallest counterexample.
LEMMA SmallestNumber ==
  ASSUME NEW T \in SUBSET Nat, T # {}
  PROVE  \E x \in T : \A y \in T : x <= y
<1> DEFINE Below == {ss \in Nat \X Nat : ss[1] < ss[2]}
<1>1. IsWellFoundedOn(Below, Nat)
  BY NatLessThanWellFounded DEF OpToRel
<1>2. \A x, y \in T : y < x => <<y, x>> \in Below
  OBVIOUS
<1> HIDE DEF Below
<1>3. PICK x \in T : \A y \in T : ~(<<y, x>> \in Below)
  BY <1>1, WFMin
<1>4. ASSUME NEW y \in T PROVE x <= y
  <2>1. x \in Nat /\ y \in Nat /\ ~(y < x)
    BY <1>2, <1>3
  <2> QED BY <2>1
<1> QED BY <1>4

\* The element the sum takes next is one of the set.
LEMMA PickIn == \A s : s # {} => Pick(s) \in s
BY DEF Pick

\* The recursive definition of a sum has a solution: it is built for the
\* subsets of one size from the one for the smaller subsets.
LEMMA SumExists ==
  ASSUME NEW f, NEW S, IsFiniteSet(S)
  PROVE  \E h : SumEq(h, f, SUBSET S)
<1> DEFINE D(m) == {s \in SUBSET S : Cardinality(s) <= m}
           Bad == {m \in Nat : ~ \E h : SumEq(h, f, D(m))}
<1>0. \A s \in SUBSET S : IsFiniteSet(s) /\ Cardinality(s) \in Nat /\ Cardinality(s) <= Cardinality(S)
  BY FS_Subset, FS_CardinalityType
<1>1. Bad = {}
  <2> SUFFICES ASSUME Bad # {} PROVE FALSE
    OBVIOUS
  <2>1. PICK m \in Bad : \A j \in Bad : m <= j
    <3>1. Bad \in SUBSET Nat
      OBVIOUS
    <3> HIDE DEF Bad
    <3> QED BY <3>1, SmallestNumber
  <2>2. CASE m = 0
    <3>1. \A s \in D(0) : s = {}
      BY <1>0, FS_EmptySet
    <3> DEFINE h == [s \in D(0) |-> 0]
    <3>2. h = [s \in D(0) |-> IF s = {} THEN 0 ELSE f[Pick(s)] + h[s \ {Pick(s)}]]
      <4> HIDE DEF D
      <4> QED BY <3>1
    <3> HIDE DEF h
    <3>3. SumEq(h, f, D(0))
      BY <3>2 DEF SumEq
    <3> QED BY <2>1, <2>2, <3>3
  <2>3. CASE m # 0
    <3>1. m - 1 \in Nat /\ m - 1 \notin Bad
      <4>1. m \in Nat /\ m - 1 \in Nat /\ ~(m <= m - 1)
        BY <2>3
      <4> HIDE DEF Bad
      <4> QED BY <2>1, <4>1
    <3>2. PICK g : SumEq(g, f, D(m - 1))
      BY <3>1
    <3> DEFINE h == [s \in D(m) |-> IF s = {} THEN 0 ELSE f[Pick(s)] + g[s \ {Pick(s)}]]
    <3>3. ASSUME NEW s \in D(m), s # {} PROVE s \ {Pick(s)} \in D(m - 1)
      <4>1. Pick(s) \in s /\ IsFiniteSet(s) /\ s \ {Pick(s)} \in SUBSET S
        BY <1>0, <3>3, PickIn
      <4>2. Cardinality(s \ {Pick(s)}) = Cardinality(s) - 1
        BY <4>1, FS_RemoveElement
      <4> QED BY <1>0, <4>1, <4>2
    <3>4. ASSUME NEW s \in D(m - 1) PROVE s \in D(m) /\ h[s] = g[s]
      <4>1. s \in D(m)
        BY <1>0
      <4>2. g[s] = IF s = {} THEN 0 ELSE f[Pick(s)] + g[s \ {Pick(s)}]
        BY <3>2 DEF SumEq
      <4> QED BY <4>1, <4>2
    <3>5. \A s \in D(m) : s # {} => h[s \ {Pick(s)}] = g[s \ {Pick(s)}]
      BY <3>3, <3>4
    <3>6. h = [s \in D(m) |-> IF s = {} THEN 0 ELSE f[Pick(s)] + h[s \ {Pick(s)}]]
      <4> HIDE DEF D
      <4> QED BY <3>5
    <3>7. SumEq(h, f, D(m))
      BY <3>6 DEF SumEq
    <3> QED BY <2>1, <3>7
  <2> QED BY <2>2, <2>3
<1>2. D(Cardinality(S)) = SUBSET S
  BY <1>0
<1>3. Cardinality(S) \in Nat
  BY FS_CardinalityType
<1> QED BY <1>1, <1>2, <1>3

\* So the function that the definition chooses satisfies its equation.
LEMMA IterIsSum ==
  ASSUME NEW f, NEW S, IsFiniteSet(S)
  PROVE  SumEq(Iter(f, S), f, SUBSET S)
BY SumExists DEF Iter

\* The recursion unfolds at any element, not only the picked one.
LEMMA SumUnfolds ==
  ASSUME NEW f, NEW S, IsFiniteSet(S), \A x \in S : f[x] \in Nat,
         NEW h, SumEq(h, f, SUBSET S)
  PROVE  /\ \A s \in SUBSET S : h[s] \in Nat
         /\ \A s \in SUBSET S : \A x \in s : h[s] = f[x] + h[s \ {x}]
<1>1. \A s \in SUBSET S : h[s] = IF s = {} THEN 0 ELSE f[Pick(s)] + h[s \ {Pick(s)}]
  BY DEF SumEq
<1>2. \A s \in SUBSET S : h[s] \in Nat
  <2> DEFINE Bad == {s \in SUBSET S : h[s] \notin Nat}
  <2> SUFFICES ASSUME Bad # {} PROVE FALSE
    OBVIOUS
  <2>1. Bad \in SUBSET (SUBSET S)
    OBVIOUS
  <2>2. PICK s \in Bad : \A t \in Bad : t \subseteq s => t = s
    <3> HIDE DEF Bad
    <3> QED BY <2>1, SmallestSubset
  <2>3. s # {} /\ Pick(s) \in s
    <3>1. s \in SUBSET S /\ h[s] \notin Nat
      OBVIOUS
    <3>2. s = {} => h[s] = 0
      BY <1>1, <3>1
    <3>3. s # {}
      BY <3>1, <3>2
    <3> QED BY <3>3, PickIn
  <2>4. s \ {Pick(s)} \notin Bad /\ s \ {Pick(s)} \in SUBSET S
    BY <2>2, <2>3
  <2>5. h[s \ {Pick(s)}] \in Nat /\ f[Pick(s)] \in Nat
    BY <2>3, <2>4
  <2>6. h[s] = f[Pick(s)] + h[s \ {Pick(s)}] /\ h[s] \notin Nat
    BY <1>1, <2>3
  <2> QED BY <2>5, <2>6
<1>3. \A s \in SUBSET S : \A x \in s : h[s] = f[x] + h[s \ {x}]
  <2> DEFINE Bad == {s \in SUBSET S : \E x \in s : h[s] # f[x] + h[s \ {x}]}
  <2> SUFFICES ASSUME Bad # {} PROVE FALSE
    OBVIOUS
  <2>1. Bad \in SUBSET (SUBSET S)
    OBVIOUS
  <2>2. PICK s \in Bad : \A t \in Bad : t \subseteq s => t = s
    <3> HIDE DEF Bad
    <3> QED BY <2>1, SmallestSubset
  <2>3. PICK x \in s : h[s] # f[x] + h[s \ {x}]
    BY <2>2
  <2> DEFINE p == Pick(s)
             u == s \ {p}
             v == s \ {x}
             w == (s \ {p}) \ {x}
  <2>4. p \in s /\ h[s] = f[p] + h[u]
    BY <1>1, <2>3, PickIn
  <2>5. p # x
    BY <2>3, <2>4
  <2>6. /\ u \in SUBSET S /\ u \notin Bad /\ x \in u
        /\ v \in SUBSET S /\ v \notin Bad /\ p \in v
    BY <2>2, <2>3, <2>4, <2>5
  <2>7. h[u] = f[x] + h[w]
    BY <2>6
  <2>8. h[v] = f[p] + h[w]
    <3>1. v \ {p} = w
      OBVIOUS
    <3>2. h[v] = f[p] + h[v \ {p}]
      BY <2>6
    <3> QED BY <3>1, <3>2
  <2>9. f[p] \in Nat /\ f[x] \in Nat /\ h[w] \in Nat
    BY <1>2, <2>4, <2>6
  <2> HIDE DEF p, u, v, w
  <2>10. h[s] = f[x] + h[v]
    BY <2>4, <2>7, <2>8, <2>9
  <2> QED BY <2>3, <2>10 DEF v
<1> QED BY <1>2, <1>3

\* Two sums over the same values agree, over a set and over a larger one.
LEMMA SumsAgree ==
  ASSUME NEW f, NEW g, NEW R, IsFiniteSet(R), NEW S \in SUBSET R, \A x \in S : f[x] = g[x]
  PROVE  Iter(f, S)[S] = Iter(g, R)[S]
<1> DEFINE h == Iter(f, S)
           k == Iter(g, R)
           Bad == {s \in SUBSET S : h[s] # k[s]}
<1>1. IsFiniteSet(S) /\ SumEq(h, f, SUBSET S) /\ SumEq(k, g, SUBSET R)
  BY IterIsSum, FS_Subset
<1> HIDE DEF h, k
<1>2. \A s \in SUBSET S : /\ h[s] = IF s = {} THEN 0 ELSE f[Pick(s)] + h[s \ {Pick(s)}]
                          /\ k[s] = IF s = {} THEN 0 ELSE g[Pick(s)] + k[s \ {Pick(s)}]
  BY <1>1 DEF SumEq
<1>3. Bad = {}
  <2> SUFFICES ASSUME Bad # {} PROVE FALSE
    OBVIOUS
  <2>1. Bad \in SUBSET (SUBSET S)
    OBVIOUS
  <2>2. PICK s \in Bad : \A t \in Bad : t \subseteq s => t = s
    <3> HIDE DEF Bad
    <3> QED BY <1>1, <2>1, SmallestSubset
  <2>3. s # {} /\ Pick(s) \in s
    BY <1>2, PickIn
  <2>4. s \ {Pick(s)} \notin Bad /\ s \ {Pick(s)} \in SUBSET S
    BY <2>2, <2>3
  <2> QED BY <1>2, <2>3, <2>4
<1> QED BY <1>3 DEF h, k

\* What a sum over a finite set is: the facts the accounting relies on.
LEMMA TotalFacts ==
  ASSUME NEW f, NEW S, IsFiniteSet(S), \A x \in S : f[x] \in Nat
  PROVE  /\ Total(f, S) \in Nat
         /\ \A x \in S : Total(f, S) = f[x] + Total(f, S \ {x})
         /\ \A g : (\A x \in S : g[x] = f[x]) => Total(g, S) = Total(f, S)
<1> DEFINE h == Iter(f, S)
<1>1. SumEq(h, f, SUBSET S) /\ Total(f, S) = h[S] /\ S \in SUBSET S
  BY IterIsSum, TotalIsSum
<1>2. \A x \in S : Total(f, S \ {x}) = h[S \ {x}]
  BY TotalIsSum, SumsAgree
<1>3. ASSUME NEW g, \A x \in S : g[x] = f[x] PROVE Total(g, S) = h[S]
  BY <1>3, TotalIsSum, SumsAgree
<1> HIDE DEF h
<1>4. /\ \A s \in SUBSET S : h[s] \in Nat
      /\ \A s \in SUBSET S : \A x \in s : h[s] = f[x] + h[s \ {x}]
  BY <1>1, SumUnfolds
<1>5. Total(f, S) \in Nat
  BY <1>1, <1>4
<1>6. ASSUME NEW x \in S PROVE Total(f, S) = f[x] + Total(f, S \ {x})
  <2>1. h[S] = f[x] + h[S \ {x}]
    BY <1>1, <1>4
  <2> QED BY <1>1, <1>2, <2>1
<1>7. ASSUME NEW g, \A x \in S : g[x] = f[x] PROVE Total(g, S) = Total(f, S)
  BY <1>1, <1>3, <1>7
<1> QED BY <1>5, <1>6, <1>7

\* An empty sum is zero.
LEMMA EmptyTotal == \A f : Total(f, {}) = 0
<1> SUFFICES ASSUME NEW f PROVE Total(f, {}) = 0
  OBVIOUS
<1>1. SumEq(Iter(f, {}), f, SUBSET {}) /\ Total(f, {}) = Iter(f, {})[{}]
  BY IterIsSum, TotalIsSum, FS_EmptySet
<1> QED BY <1>1 DEF SumEq
\* A sum of zeros is zero.
LEMMA ZeroTotal ==
  ASSUME NEW f, NEW S, IsFiniteSet(S), \A x \in S : f[x] = 0
  PROVE  Total(f, S) = 0
<1> DEFINE Bad == {s \in SUBSET S : Total(f, s) # 0}
<1>1. Bad = {}
  <2> SUFFICES ASSUME Bad # {} PROVE FALSE
    OBVIOUS
  <2>1. Bad \in SUBSET (SUBSET S)
    OBVIOUS
  <2>2. PICK s \in Bad : \A t \in Bad : t \subseteq s => t = s
    <3> HIDE DEF Bad
    <3> QED BY <2>1, SmallestSubset
  <2>3. PICK x \in s : TRUE
    BY EmptyTotal
  <2>4. IsFiniteSet(s) /\ \A y \in s : f[y] \in Nat
    BY FS_Subset
  <2>5. Total(f, s) = f[x] + Total(f, s \ {x})
    BY <2>4, TotalFacts
  <2>6. s \ {x} \notin Bad /\ s \ {x} \in SUBSET S
    BY <2>2, <2>3
  <2> QED BY <2>5, <2>6
<1> QED BY <1>1

-----------------------------------------------------------------------------
(* The waiters *)

\* A larger residency lets no write in that did not fit before.
LEMMA FitsIsMonotone ==
  ASSUME NEW r \in Nat, NEW k \in Nat, NEW b \in Nat, Cap \in Nat,
         b = 0 \/ r + k + b <= Cap \/ r + k = 0
  PROVE  b = 0 \/ r + b <= Cap \/ r = 0
OBVIOUS

\* A permit is named by a stream and the number of a write.
LEMMA PermitShape ==
  /\ \A p \in Permits : p[1] \in Streams /\ p[2] \in 1..MaxWrites
  /\ \A p \in Permits : \A s \in Streams : \A m : p = <<s, m>> <=> p[1] = s /\ p[2] = m
BY DEF Permits

\* The initial states satisfy the inductive invariant.
LEMMA InitInvariant == Init => IInv
<1> SUFFICES ASSUME Init PROVE IInv
  OBVIOUS
<1>1. TypeOK
  <2>1. 0 \in 0..MaxWrites /\ 0 \in Nat
    BY AccountingAssumption
  <2> QED BY <2>1 DEF Init, TypeOK
<1>2. Owned
  <2>1. \A p \in Permits : p[1] \in Streams /\ ~(p[2] = 0)
    BY PermitShape
  <2>2. \A p \in Permits : pstate[p] = "none" /\ n[p[1]] = 0
    BY <2>1 DEF Init
  <2> QED BY <2>1, <2>2 DEF Owned
<1>3. WaitInv
  BY PermitShape DEF Init, WaitInv, DrainedOnly, Listening, NoLostWake
<1>4. Begun
  BY DEF Init, Begun
<1> QED BY <1>1, <1>2, <1>3, <1>4 DEF IInv

\* An admitted write keeps the types of what it changes.
LEMMA AdmitTypes ==
  ASSUME TypeOK, NEW s \in Streams, Admit(s)
  PROVE  /\ resident' \in Nat
         /\ pstate' \in [Permits -> {"none", "held", "release", "drain", "wake"}]
         /\ pbytes' \in [Permits -> Nat]
         /\ fpc' = [fpc EXCEPT ![s] = "unregister"]
<1>1. resident' \in Nat
  BY DEF TypeOK, Admit
<1>2. pstate' \in [Permits -> {"none", "held", "release", "drain", "wake"}]
  BY DEF TypeOK, Admit
<1>3. pbytes' \in [Permits -> Nat]
  BY DEF TypeOK, Admit
<1> QED BY <1>1, <1>2, <1>3 DEF Admit, Goto

\* Every action preserves the types.
LEMMA TypeStep == TypeOK /\ [Next]_vars => TypeOK'
<1> SUFFICES ASSUME TypeOK, [Next]_vars PROVE TypeOK'
  OBVIOUS
<1> USE AccountingAssumption DEF TypeOK, permitVars, Goto
<1>1. ASSUME NEW s \in Streams, Poll(s) PROVE TypeOK'
  <2>1. CASE PollStatus(s)
    BY <2>1 DEF PollStatus
  <2>2. CASE Reserve(s)
    <3>1. CASE Admit(s)
      <4>1. /\ resident' \in Nat
            /\ pstate' \in [Permits -> {"none", "held", "release", "drain", "wake"}]
            /\ pbytes' \in [Permits -> Nat]
            /\ fpc' = [fpc EXCEPT ![s] = "unregister"]
        BY <3>1, AdmitTypes
      <4> QED BY <2>2, <3>1, <4>1 DEF Reserve
    <3>2. CASE ~Admit(s)
      BY <2>2, <3>2 DEF Reserve
    <3> QED BY <3>1, <3>2
  <2>3. CASE register_waiter(s)
    BY <2>3 DEF register_waiter
  <2>4. CASE Recheck(s)
    <3>1. CASE Admit(s)
      <4>1. /\ resident' \in Nat
            /\ pstate' \in [Permits -> {"none", "held", "release", "drain", "wake"}]
            /\ pbytes' \in [Permits -> Nat]
            /\ fpc' = [fpc EXCEPT ![s] = "unregister"]
        BY <3>1, AdmitTypes
      <4> QED BY <2>4, <3>1, <4>1 DEF Recheck
    <3>2. CASE ~Admit(s)
      BY <2>4, <3>2 DEF Recheck
    <3> QED BY <3>1, <3>2
  <2>5. CASE unregister_waiter(s)
    BY <2>5 DEF unregister_waiter
  <2>6. CASE Submit(s)
    BY <2>6 DEF Submit
  <2> QED BY <1>1, <2>1, <2>2, <2>3, <2>4, <2>5, <2>6 DEF Poll
<1>2. ASSUME NEW s \in Streams, PollAgain(s) PROVE TypeOK'
  BY <1>2 DEF PollAgain
<1>3. ASSUME NEW s \in Streams, DropHandle(s) PROVE TypeOK'
  BY <1>3 DEF DropHandle, AfterHandle
<1>4. ASSUME NEW s \in Streams, NEW k \in Sizes, Stash(s, k) PROVE TypeOK'
  BY <1>4 DEF Stash
<1>5. ASSUME NEW p \in Permits, CompleteWrite(p) PROVE TypeOK'
  BY <1>5 DEF CompleteWrite
<1>6. ASSUME NEW p \in Permits, Dropper(p) PROVE TypeOK'
  <2>1. CASE ReleaseBytes(p)
    <3>1. Less(pbytes[p]) \in Nat
      BY DEF Less
    <3> QED BY <2>1, <3>1 DEF ReleaseBytes
  <2>2. CASE DrainWaiters(p)
    BY <2>2 DEF DrainWaiters, Taken
  <2>3. ASSUME NEW s \in Streams, WakeOne(p, s) PROVE TypeOK'
    BY <2>3 DEF WakeOne
  <2> QED BY <1>6, <2>1, <2>2, <2>3 DEF Dropper
<1>7. CASE PublishTerminals
  BY <1>7 DEF PublishTerminals
<1>8. CASE CloseChannel
  BY <1>8 DEF CloseChannel
<1>9. CASE UNCHANGED vars
  BY <1>9 DEF vars
<1> QED BY <1>1, <1>2, <1>3, <1>4, <1>5, <1>6, <1>7, <1>8, <1>9 DEF Next

\* No action gives a write a second permit or takes one back.
LEMMA OwnedStep ==
  ASSUME TypeOK, Owned, [Next]_vars
  PROVE  Owned'
<1> USE AccountingAssumption, PermitShape DEF TypeOK, Owned, permitVars, Goto
<1>1. ASSUME NEW s \in Streams, Poll(s) PROVE Owned'
  <2>0. ASSUME Admit(s), UNCHANGED n PROVE Owned'
    <3> SUFFICES ASSUME NEW p \in Permits
                 PROVE  (/\ p[2] > n[p[1]] => pstate[p] = "none"
                         /\ p[2] = n[p[1]] /\ fpc[p[1]] \in {"poll", "reserve", "register", "recheck", "parked"}
                              => pstate[p] = "none"
                         /\ p[2] = n[p[1]] /\ fpc[p[1]] \in {"unregister", "send"}
                              => pstate[p] = "held")'

      OBVIOUS
    <3>1. CASE p[1] = s /\ p[2] = n[s]
      <4>1. p = <<s, n[s]>>
        BY <3>1
      <4>2. pstate'[p] = "held" /\ fpc'[p[1]] = "unregister"
        BY <2>0, <3>1, <4>1 DEF Admit
      <4> QED BY <2>0, <3>1, <4>2
    <3>2. CASE ~(p[1] = s /\ p[2] = n[s])
      <4>1. p # <<s, n[s]>>
        BY <3>2
      <4>2. pstate'[p] = pstate[p]
        BY <2>0, <4>1 DEF Admit
      <4>3. p[1] # s => fpc'[p[1]] = fpc[p[1]]
        BY <2>0 DEF Admit
      <4> QED BY <2>0, <3>2, <4>2, <4>3 DEF Admit
    <3> QED BY <3>1, <3>2
  <2>1. CASE PollStatus(s)
    BY <2>1 DEF PollStatus
  <2>2. CASE Reserve(s)
    <3>1. CASE Admit(s)
      BY <2>0, <2>2, <3>1 DEF Reserve
    <3>2. CASE ~Admit(s)
      BY <2>2, <3>2 DEF Reserve
    <3> QED BY <3>1, <3>2
  <2>3. CASE register_waiter(s)
    BY <2>3 DEF register_waiter
  <2>4. CASE Recheck(s)
    <3>1. CASE Admit(s)
      BY <2>0, <2>4, <3>1 DEF Recheck
    <3>2. CASE ~Admit(s)
      BY <2>4, <3>2 DEF Recheck
    <3> QED BY <3>1, <3>2
  <2>5. CASE unregister_waiter(s)
    BY <2>5 DEF unregister_waiter
  <2>6. CASE Submit(s)
    BY <2>6 DEF Submit
  <2> QED BY <1>1, <2>1, <2>2, <2>3, <2>4, <2>5, <2>6 DEF Poll
<1>2. ASSUME NEW s \in Streams, PollAgain(s) PROVE Owned'
  BY <1>2 DEF PollAgain
<1>3. ASSUME NEW s \in Streams, DropHandle(s) PROVE Owned'
  BY <1>3 DEF DropHandle
<1>4. ASSUME NEW s \in Streams, NEW k \in Sizes, Stash(s, k) PROVE Owned'
  BY <1>4 DEF Stash
<1>5. ASSUME NEW p \in Permits, CompleteWrite(p) PROVE Owned'
  BY <1>5 DEF CompleteWrite
<1>6. ASSUME NEW p \in Permits, Dropper(p) PROVE Owned'
  <2>1. CASE ReleaseBytes(p)
    BY <2>1 DEF ReleaseBytes
  <2>2. CASE DrainWaiters(p)
    BY <2>2 DEF DrainWaiters
  <2>3. ASSUME NEW s \in Streams, WakeOne(p, s) PROVE Owned'
    BY <2>3 DEF WakeOne
  <2> QED BY <1>6, <2>1, <2>2, <2>3 DEF Dropper
<1>7. CASE PublishTerminals
  BY <1>7 DEF PublishTerminals
<1>8. CASE CloseChannel
  BY <1>8 DEF CloseChannel
<1>9. CASE UNCHANGED vars
  BY <1>9 DEF vars
<1> QED BY <1>1, <1>2, <1>3, <1>4, <1>5, <1>6, <1>7, <1>8, <1>9 DEF Next

\* What a waiting sender relies on, kept by every action.
LEMMA WaitStep ==
  ASSUME IInv, [Next]_vars
  PROVE  WaitInv'
<1> USE AccountingAssumption DEF IInv, WaitInv, DrainedOnly, TypeOK, permitVars, Goto, Listening, NoLostWake, Fits
<1>1. ASSUME NEW s \in Streams, Poll(s) PROVE WaitInv'
  <2>0. /\ fpc[s] \in {"reserve", "recheck"} => \A p \in Permits :
             p = <<s, n[s]>> => pstate[p] = "none"
        /\ fpc[s] = "send" => \A p \in Permits : p = <<s, n[s]>> => pstate[p] = "held"
    BY PermitShape DEF Owned
  <2>1. CASE PollStatus(s)
    BY <2>1 DEF PollStatus
  <2>2. CASE Reserve(s)
    BY <2>0, <2>2, FitsIsMonotone DEF Reserve, Admit
  <2>3. CASE register_waiter(s)
    BY <2>3 DEF register_waiter
  <2>4. CASE Recheck(s)
    BY <2>0, <2>4, FitsIsMonotone DEF Recheck, Admit
  <2>5. CASE unregister_waiter(s)
    BY <2>5 DEF unregister_waiter
  <2>6. CASE Submit(s)
    BY <2>0, <2>6 DEF Submit
  <2> QED BY <1>1, <2>1, <2>2, <2>3, <2>4, <2>5, <2>6 DEF Poll
<1>2. ASSUME NEW s \in Streams, PollAgain(s) PROVE WaitInv'
  BY <1>2 DEF PollAgain
<1>3. ASSUME NEW s \in Streams, DropHandle(s) PROVE WaitInv'
  BY <1>3 DEF DropHandle, AfterHandle
<1>4. ASSUME NEW s \in Streams, NEW k \in Sizes, Stash(s, k)
      PROVE  WaitInv'
  BY <1>4 DEF Stash
<1>5. ASSUME NEW p \in Permits, CompleteWrite(p) PROVE WaitInv'
  BY <1>5 DEF CompleteWrite
<1>6. ASSUME NEW p \in Permits, Dropper(p) PROVE WaitInv'
  <2>1. CASE ReleaseBytes(p)
    BY <2>1 DEF ReleaseBytes
  <2>2. CASE DrainWaiters(p)
    BY <2>2 DEF DrainWaiters, Taken
  <2>3. ASSUME NEW s \in Streams, WakeOne(p, s) PROVE WaitInv'
    BY <2>3 DEF WakeOne
  <2> QED BY <1>6, <2>1, <2>2, <2>3 DEF Dropper
<1>7. CASE PublishTerminals
  BY <1>7 DEF PublishTerminals
<1>8. CASE CloseChannel
  BY <1>8 DEF CloseChannel
<1>9. CASE UNCHANGED vars
  BY <1>9 DEF vars
<1> QED BY <1>1, <1>2, <1>3, <1>4, <1>5, <1>6, <1>7, <1>8, <1>9 DEF Next

\* Only send_data starts a poll, and a dropped handle is not registered again.
LEMMA BegunStep ==
  ASSUME TypeOK, Begun, [Next]_vars
  PROVE  Begun'
<1> USE AccountingAssumption DEF TypeOK, Begun, permitVars, Goto
<1>1. ASSUME NEW s \in Streams, Poll(s) PROVE Begun'
  <2>1. CASE PollStatus(s)
    BY <2>1 DEF PollStatus
  <2>2. CASE Reserve(s)
    BY <2>2 DEF Reserve, Admit
  <2>3. CASE register_waiter(s)
    BY <2>3 DEF register_waiter
  <2>4. CASE Recheck(s)
    BY <2>4 DEF Recheck, Admit
  <2>5. CASE unregister_waiter(s)
    BY <2>5 DEF unregister_waiter
  <2>6. CASE Submit(s)
    BY <2>6 DEF Submit
  <2> QED BY <1>1, <2>1, <2>2, <2>3, <2>4, <2>5, <2>6 DEF Poll
<1>2. ASSUME NEW s \in Streams, PollAgain(s) PROVE Begun'
  BY <1>2 DEF PollAgain
<1>3. ASSUME NEW s \in Streams, DropHandle(s) PROVE Begun'
  BY <1>3 DEF DropHandle, AfterHandle
<1>4. ASSUME NEW s \in Streams, NEW k \in Sizes, Stash(s, k) PROVE Begun'
  BY <1>4 DEF Stash
<1>5. ASSUME NEW p \in Permits, CompleteWrite(p) PROVE Begun'
  BY <1>5, PermitShape DEF CompleteWrite
<1>6. ASSUME NEW p \in Permits, Dropper(p) PROVE Begun'
  <2>1. CASE ReleaseBytes(p)
    BY <2>1 DEF ReleaseBytes
  <2>2. CASE DrainWaiters(p)
    BY <2>2 DEF DrainWaiters, Taken
  <2>3. ASSUME NEW s \in Streams, WakeOne(p, s) PROVE Begun'
    BY <2>3 DEF WakeOne
  <2> QED BY <1>6, <2>1, <2>2, <2>3 DEF Dropper
<1>7. CASE PublishTerminals
  BY <1>7 DEF PublishTerminals
<1>8. CASE CloseChannel
  BY <1>8 DEF CloseChannel
<1>9. CASE UNCHANGED vars
  BY <1>9 DEF vars
<1> QED BY <1>1, <1>2, <1>3, <1>4, <1>5, <1>6, <1>7, <1>8, <1>9 DEF Next

\* IInv holds in every reachable state.
THEOREM Invariant == Spec => []IInv
<1>1. Init => IInv
  BY InitInvariant
<1>2. IInv /\ [Next]_vars => IInv'
  BY TypeStep, OwnedStep, BegunStep, WaitStep DEF IInv
<1> QED BY <1>1, <1>2, PTL DEF Spec

\* The variables of the accounting keep their types.
THEOREM TypeCorrect == Spec => []TypeOK
<1>1. IInv => TypeOK
  BY DEF IInv
<1> QED BY Invariant, <1>1, PTL

\* register_waiter before the second try_reserve is enough: whatever permits
\* drop meanwhile, no sender sleeps on room that release() has made without
\* a wakeup being on its way.
THEOREM WakeupIsNeverLost == Spec => []NoLostWake
<1>1. IInv => NoLostWake
  BY DEF IInv, WaitInv
<1> QED BY Invariant, <1>1, PTL

-----------------------------------------------------------------------------
(* The bytes *)

\* A permit p with k bytes joins the counted ones.
Joins(p, k) ==
  /\ p \notin Counted /\ k \in Nat /\ Fits(k)
  /\ Counted' = Counted \cup {p}
  /\ pbytes'[p] = k /\ \A q \in Counted : pbytes'[q] = pbytes[q]
  /\ resident' = resident + k

\* A counted permit p leaves.
Leaves(p) ==
  /\ p \in Counted /\ Counted' = Counted \ {p}
  /\ UNCHANGED pbytes /\ resident' = Less(pbytes[p])

\* What a step may do to the counted permits: one joins, one leaves, or none.
LEMMA CountedMoves ==
  ASSUME IInv, [Next]_vars
  PROVE  \/ \E p, k : Joins(p, k)
         \/ \E p : Leaves(p)
         \/ UNCHANGED <<Counted, pbytes, resident>>
<1> USE AccountingAssumption DEF IInv, TypeOK, permitVars, Goto
<1>0. ASSUME NEW s \in Streams, Admit(s), fpc[s] \in {"reserve", "recheck"}
      PROVE  Joins(<<s, n[s]>>, size[s])
  <2> DEFINE p == <<s, n[s]>>
  <2>1. p \in Permits /\ pstate[p] = "none"
    <3>1. n[s] \in 1..MaxWrites
      BY <1>0 DEF Begun
    <3>2. p \in Permits /\ p[1] = s /\ p[2] = n[s]
      BY <3>1 DEF Permits
    <3> QED BY <1>0, <3>2 DEF Owned
  <2>2. /\ pstate' = [pstate EXCEPT ![p] = "held"]
        /\ pbytes' = [pbytes EXCEPT ![p] = size[s]]
    BY <1>0 DEF Admit
  <2> HIDE DEF p
  <2>3. Counted' = Counted \cup {p} /\ p \notin Counted
    BY <2>1, <2>2 DEF Counted
  <2>4. pbytes'[p] = size[s] /\ \A q \in Counted : pbytes'[q] = pbytes[q]
    BY <2>1, <2>2, <2>3 DEF Counted
  <2>5. resident' = resident + size[s] /\ size[s] \in Nat /\ Fits(size[s])
    BY <1>0 DEF Admit
  <2> QED BY <2>3, <2>4, <2>5 DEF Joins, p
<1>1. ASSUME NEW s \in Streams, Poll(s)
      PROVE  \/ \E p, k : Joins(p, k)
             \/ UNCHANGED <<Counted, pbytes, resident>>
  <2>1. CASE PollStatus(s)
    BY <2>1 DEF PollStatus, Counted
  <2>2. CASE Reserve(s)
    <3>1. CASE Admit(s)
      BY <1>0, <2>2, <3>1 DEF Reserve
    <3>2. CASE ~Admit(s)
      BY <2>2, <3>2 DEF Reserve, Counted
    <3> QED BY <3>1, <3>2
  <2>3. CASE register_waiter(s)
    BY <2>3 DEF register_waiter, Counted
  <2>4. CASE Recheck(s)
    <3>1. CASE Admit(s)
      BY <1>0, <2>4, <3>1 DEF Recheck
    <3>2. CASE ~Admit(s)
      BY <2>4, <3>2 DEF Recheck, Counted
    <3> QED BY <3>1, <3>2
  <2>5. CASE unregister_waiter(s)
    BY <2>5 DEF unregister_waiter, Counted
  <2>6. CASE Submit(s)
    <3> DEFINE p == <<s, n[s]>>
    <3>1. p \in Permits /\ pstate[p] = "held"
      <4>1. n[s] \in 1..MaxWrites /\ fpc[s] = "send"
        BY <2>6 DEF Begun, Submit
      <4>2. p \in Permits /\ p[1] = s /\ p[2] = n[s]
        BY <4>1 DEF Permits
      <4> QED BY <4>1, <4>2 DEF Owned
    <3>2. pstate' = pstate \/ pstate' = [pstate EXCEPT ![p] = "release"]
      BY <2>6 DEF Submit
    <3> HIDE DEF p
    <3>3. Counted' = Counted
      BY <3>1, <3>2 DEF Counted
    <3> QED BY <2>6, <3>3 DEF Submit
  <2> QED BY <1>1, <2>1, <2>2, <2>3, <2>4, <2>5, <2>6 DEF Poll
<1>2. ASSUME NEW s \in Streams, PollAgain(s) PROVE UNCHANGED <<Counted, pbytes, resident>>
  BY <1>2 DEF PollAgain, Counted
<1>3. ASSUME NEW s \in Streams, DropHandle(s) PROVE UNCHANGED <<Counted, pbytes, resident>>
  BY <1>3 DEF DropHandle, Counted
<1>4. ASSUME NEW s \in Streams, NEW k \in Sizes, Stash(s, k)
      PROVE  UNCHANGED <<Counted, pbytes, resident>>
  BY <1>4 DEF Stash, Counted
<1>5. ASSUME NEW p \in Permits, CompleteWrite(p) PROVE UNCHANGED <<Counted, pbytes, resident>>
  BY <1>5 DEF CompleteWrite, Counted
<1>6. ASSUME NEW p \in Permits, Dropper(p)
      PROVE  Leaves(p) \/ UNCHANGED <<Counted, pbytes, resident>>
  <2>1. CASE ReleaseBytes(p)
    BY <2>1 DEF ReleaseBytes, Leaves, Counted
  <2>2. CASE DrainWaiters(p)
    BY <2>2 DEF DrainWaiters, Counted
  <2>3. ASSUME NEW s \in Streams, WakeOne(p, s) PROVE UNCHANGED <<Counted, pbytes, resident>>
    BY <2>3 DEF WakeOne, Counted
  <2> QED BY <1>6, <2>1, <2>2, <2>3 DEF Dropper
<1>7. CASE PublishTerminals
  BY <1>7 DEF PublishTerminals, Counted
<1>8. CASE CloseChannel
  BY <1>8 DEF CloseChannel, Counted
<1>9. CASE UNCHANGED vars
  BY <1>9 DEF vars, Counted
<1> QED BY <1>1, <1>2, <1>3, <1>4, <1>5, <1>6, <1>7, <1>8, <1>9 DEF Next

\* Bytes are naturals, so the sum is one, and no permit has more than all.
LEMMA SumIsNat ==
  ASSUME TypeOK, SumInv
  PROVE  /\ resident \in Nat /\ \A p \in Counted : pbytes[p] \in Nat
         /\ \A p \in Counted : /\ resident = pbytes[p] + Total(pbytes, Counted \ {p})
                               /\ Total(pbytes, Counted \ {p}) \in Nat
<1>1. \A p \in Counted : pbytes[p] \in Nat
  BY DEF TypeOK, Counted
<1>2. resident \in Nat
  BY DEF TypeOK
<1>3. \A p \in Counted : resident = pbytes[p] + Total(pbytes, Counted \ {p})
  BY <1>1, TotalFacts DEF SumInv
<1>4. ASSUME NEW p \in Counted PROVE Total(pbytes, Counted \ {p}) \in Nat
  <2>1. IsFiniteSet(Counted \ {p}) /\ \A q \in Counted \ {p} : pbytes[q] \in Nat
    BY <1>1, FS_RemoveElement DEF SumInv
  <2> QED BY <2>1, TotalFacts
<1> QED BY <1>1, <1>2, <1>3, <1>4

\* try_reserve adds to the residency what its permit holds, release() takes
\* that away again, and the subtraction never saturates.
LEMMA SumStep ==
  ASSUME IInv, SumInv, OneUnit, [Next]_vars
  PROVE  SumInv' /\ OneUnit'
<1> USE AccountingAssumption
<1>0. TypeOK /\ TypeOK'
  BY TypeStep DEF IInv
<1>1. ASSUME NEW p, NEW k, Joins(p, k) PROVE SumInv' /\ OneUnit'
  <2>1. IsFiniteSet(Counted')
    BY <1>1, FS_AddElement DEF Joins, SumInv
  <2>2. \A q \in Counted' : pbytes'[q] \in Nat
    BY <1>1, SumIsNat, <1>0 DEF Joins
  <2>3. Total(pbytes', Counted') = pbytes'[p] + Total(pbytes', Counted' \ {p})
    BY <1>1, <2>1, <2>2, TotalFacts DEF Joins
  <2>4. Counted' \ {p} = Counted
    BY <1>1 DEF Joins
  <2>5. Total(pbytes', Counted) = Total(pbytes, Counted)
    BY <1>0, <1>1, SumIsNat, TotalFacts DEF Joins, SumInv
  <2>6. SumInv'
    BY <1>0, <1>1, <2>1, <2>3, <2>4, <2>5, SumIsNat DEF Joins, SumInv
  <2>7. OneUnit'
    <3> SUFFICES ASSUME resident' > Cap
                 PROVE  \E q \in Counted' : \A r \in Counted' : pbytes'[r] > 0 <=> r = q
      BY DEF OneUnit
    <3>1. CASE k = 0
      <4>1. PICK q \in Counted : \A r \in Counted : pbytes[r] > 0 <=> r = q
        BY <1>0, <1>1, <3>1 DEF OneUnit, Joins, TypeOK
      <4> QED BY <1>1, <3>1, <4>1 DEF Joins
    <3>2. CASE k # 0
      <4>1. resident = 0 /\ k > 0
        BY <1>0, <1>1, <3>2 DEF Joins, Fits, TypeOK
      <4>2. ASSUME NEW r \in Counted PROVE pbytes[r] = 0
        <5>1. /\ resident = pbytes[r] + Total(pbytes, Counted \ {r})
              /\ pbytes[r] \in Nat /\ Total(pbytes, Counted \ {r}) \in Nat
          BY <1>0, SumIsNat
        <5> QED BY <4>1, <5>1
      <4>3. p \in Counted' /\ \A r \in Counted' : pbytes'[r] > 0 <=> r = p
        BY <1>1, <4>1, <4>2 DEF Joins
      <4> QED BY <4>3
    <3> QED BY <3>1, <3>2
  <2> QED BY <2>6, <2>7
<1>2. ASSUME NEW p, Leaves(p) PROVE SumInv' /\ OneUnit'
  <2>0. /\ resident = pbytes[p] + Total(pbytes, Counted \ {p})
        /\ pbytes[p] \in Nat /\ Total(pbytes, Counted \ {p}) \in Nat
    BY <1>0, <1>2, SumIsNat DEF Leaves
  <2>1. /\ resident' = Total(pbytes, Counted \ {p}) /\ resident = pbytes[p] + resident'
        /\ resident' \in Nat
    BY <1>2, <2>0 DEF Leaves, Less
  <2>2. SumInv'
    BY <1>2, <2>1, FS_RemoveElement DEF Leaves, SumInv
  <2>3. OneUnit'
    <3> SUFFICES ASSUME resident' > Cap
                 PROVE  \E q \in Counted' : \A r \in Counted' : pbytes'[r] > 0 <=> r = q
      BY DEF OneUnit
    <3>1. PICK q \in Counted : \A r \in Counted : pbytes[r] > 0 <=> r = q
      <4>1. resident > Cap
        BY <2>0, <2>1
      <4> QED BY <4>1 DEF OneUnit
    <3>2. CASE q = p
      <4>1. \A r \in Counted \ {p} : pbytes[r] = 0
        BY <1>0, <3>1, <3>2, SumIsNat
      <4>2. resident' = 0
        BY <2>1, <4>1, ZeroTotal, FS_RemoveElement DEF SumInv
      <4> QED BY <4>2
    <3>3. CASE q # p
      BY <1>2, <3>1, <3>3 DEF Leaves
    <3> QED BY <3>2, <3>3
  <2> QED BY <2>2, <2>3
<1>3. CASE UNCHANGED <<Counted, pbytes, resident>>
  BY <1>3 DEF SumInv, OneUnit
<1> QED BY <1>1, <1>2, <1>3, CountedMoves

\* Nothing is counted at first.
LEMMA SumInit == Init => SumInv /\ OneUnit
<1> SUFFICES ASSUME Init PROVE SumInv /\ OneUnit
  OBVIOUS
<1>1. Counted = {} /\ resident = 0
  BY DEF Init, Counted
<1> QED BY <1>1, AccountingAssumption, EmptyTotal, FS_EmptySet DEF SumInv, OneUnit

\* The bytes add up in every reachable state.
THEOREM SumInvariant == Spec => [](SumInv /\ OneUnit)
<1>1. IInv /\ SumInv /\ OneUnit /\ [Next]_vars => (SumInv /\ OneUnit)'
  BY SumStep
<1> QED BY <1>1, SumInit, Invariant, PTL DEF Spec

\* Every permit gives back exactly what it took, once, however it dies, and
\* the waiter map has no waker of a dropped sender.
THEOREM BytesAreReturned == Spec => []NothingLeaks
<1>1. IInv /\ SumInv /\ OneUnit => NothingLeaks
  BY DEF IInv, Begun, SumInv, NothingLeaks, Total
<1> QED BY <1>1, Invariant, SumInvariant, PTL

\* The cap is exceeded only by one write that was admitted alone.
THEOREM CapIsExceededByOne == Spec => []OverCapIsOneUnit
<1>1. SumInv /\ OneUnit => OverCapIsOneUnit
  <2> SUFFICES ASSUME SumInv, OneUnit, resident > Cap
               PROVE  Cardinality({p \in Counted : pbytes[p] > 0}) = 1
    BY DEF OverCapIsOneUnit
  <2>1. PICK q \in Counted : \A p \in Counted : pbytes[p] > 0 <=> p = q
    BY DEF OneUnit
  <2>2. {p \in Counted : pbytes[p] > 0} = {q}
    BY <2>1
  <2> QED BY <2>2, FS_Singleton
<1> QED BY <1>1, SumInvariant, PTL
=============================================================================
