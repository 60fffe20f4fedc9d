-------------------------- MODULE CompositeRunProofs --------------------------
(***************************************************************************)
(* From the protocol to the end of its run, for every protocol, ceiling    *)
(* and output size: what the compiler makes passes the runtime's checks,   *)
(* and no run of it stops because of the plan                              *)
(* (runtime/api/composite_compiler.py, runtime/kernel/composite_runtime.py, *)
(* composite_artifacts.py, repair_tools.py).                               *)
(*                                                                         *)
(* The compiler places the actors in rounds. Placed grows and its rounds   *)
(* are the levels, none of them empty, so that stages are numbered without *)
(* gaps and every artifact is made in a stage before the one that reads    *)
(* it. The schedule sorts the calls by stage: a call's place is the number *)
(* of the calls before it. What a run has stored, delivered and read is    *)
(* then determined by its position in the schedule (Followed), which is    *)
(* the invariant; the books of the tools (ReceiptsChain, Charged, Tested)  *)
(* are kept beside it.                                                     *)
(***************************************************************************)
EXTENDS CompositeRun, WellFoundedInduction, FiniteSetTheorems, SequenceTheorems, TLAPS

-----------------------------------------------------------------------------
(* Induction over the natural numbers, for a formula at hand: the numbers  *)
(* where it fails have a least one.                                        *)
LEMMA LeastElement ==
  ASSUME NEW T, T \subseteq Nat, T # {}
  PROVE  \E m \in T : \A k \in T : m <= k
<1> DEFINE Less == {ss \in Nat \X Nat : ss[1] < ss[2]}
<1>1. \E m \in T : \A k \in T : ~(<<k, m>> \in OpToRel(<, Nat))
  BY NatLessThanWellFounded, WFMin, Zenon
<1>2. OpToRel(<, Nat) = Less
  BY Zenon DEF OpToRel
<1>3. PICK m \in T : \A k \in T : ~(<<k, m>> \in Less)
  BY <1>1, <1>2, Zenon
<1>4. ASSUME NEW k \in T
      PROVE  m <= k
  <2>1. k \in Nat /\ m \in Nat
    OBVIOUS
  <2>2. ~(k < m)
    BY <1>3, <2>1
  <2> QED
    BY <2>1, <2>2
<1> QED
  BY <1>4

LEMMA GreatestElement ==
  ASSUME NEW T, T \subseteq Nat, T # {}, NEW n \in Nat, \A k \in T : k <= n
  PROVE  \E m \in T : \A k \in T : k <= m
<1> DEFINE U == {u \in Nat : \A k \in T : k <= u}
<1>1. PICK u \in U : \A v \in U : u <= v
  <2>1. U # {} /\ U \subseteq Nat
    OBVIOUS
  <2> QED
    BY <2>1, LeastElement
<1>2. u \in T
  <2>1. SUFFICES ASSUME u \notin T
                 PROVE  FALSE
    OBVIOUS
  <2>2. \A k \in T : k \in Nat /\ k < u
    BY <2>1
  <2>3. u - 1 \in Nat
    <3>1. PICK k \in T : k \in Nat /\ k < u
      BY <2>2
    <3> QED
      BY <3>1
  <2>4. \A k \in T : k <= u - 1
    BY <2>2
  <2> QED
    BY <1>1, <2>3, <2>4
<1> QED
  BY <1>2

-----------------------------------------------------------------------------
(* The rounds of _compile_topology.                                        *)

Round(p, placed) == placed \cup {a \in Actor : Producers(p, a) \subseteq placed}

LEMMA PlacedByRounds ==
  ASSUME PlanAssumption, NEW p
  PROVE  /\ Placed(p)[0] = {}
         /\ \A n \in 0..(N - 1) : Placed(p)[n + 1] = Round(p, Placed(p)[n])
<1> DEFINE Rounds(f, m) ==
             f[0] = {} /\ \A n \in 0..m : n # 0 => f[n] = Round(p, f[n - 1])
           Missing == {m \in Nat : ~\E f : Rounds(f, m)}
<1>1. N \in Nat
  BY DEF PlanAssumption
<1>2. Missing = {}
  <2>1. SUFFICES ASSUME Missing # {}
                 PROVE  FALSE
    OBVIOUS
  <2>2. PICK m \in Missing : \A k \in Missing : m <= k
    BY <2>1, LeastElement
  <2>3. CASE m = 0
    <3>1. Rounds([n \in {0} |-> {}], 0)
      OBVIOUS
    <3> QED
      BY <2>3, <3>1
  <2>4. CASE m # 0
    <3>1. m - 1 \in Nat /\ m - 1 \notin Missing
      BY <2>2, <2>4
    <3>2. PICK f : Rounds(f, m - 1)
      BY <3>1
    <3> DEFINE g == [n \in 0..m |-> IF n = m THEN Round(p, f[m - 1]) ELSE f[n]]
    <3>3. g[0] = {}
      BY <2>4, <3>2
    <3>4. ASSUME NEW n \in 0..m, n # 0
          PROVE  g[n] = Round(p, g[n - 1])
      <4>1. n - 1 \in 0..(m - 1) /\ n - 1 \in 0..m /\ n - 1 # m
        BY <3>4
      <4>2. g[n - 1] = f[n - 1]
        BY <4>1
      <4>3. CASE n = m
        BY <4>2, <4>3
      <4>4. CASE n # m
        <5>1. n \in 0..(m - 1) /\ g[n] = f[n]
          BY <4>4
        <5> QED
          BY <3>2, <3>4, <4>2, <5>1
      <4> QED
        BY <4>3, <4>4
    <3>5. Rounds(g, m)
      BY <3>3, <3>4
    <3> QED
      BY <3>5
  <2> QED
    BY <2>3, <2>4
<1>3. PICK f : Rounds(f, N)
  BY <1>1, <1>2
<1> DEFINE Body(h) ==
             [n \in 0..N |->
                IF n = 0 THEN {}
                ELSE h[n - 1] \cup {a \in Actor : Producers(p, a) \subseteq h[n - 1]}]
           h0 == [n \in 0..N |-> f[n]]
<1>4. h0 = Body(h0)
  <2>1. ASSUME NEW n \in 0..N
        PROVE  f[n] = IF n = 0 THEN {}
                      ELSE h0[n - 1] \cup {a \in Actor : Producers(p, a) \subseteq h0[n - 1]}
    <3>1. CASE n = 0
      BY <1>3, <3>1
    <3>2. CASE n # 0
      <4>1. n - 1 \in 0..N
        BY <1>1, <3>2
      <4>2. h0[n - 1] = f[n - 1]
        BY <4>1
      <4>3. f[n] = Round(p, f[n - 1])
        BY <1>3, <3>2
      <4> QED
        BY <3>2, <4>2, <4>3 DEF Round
    <3> QED
      BY <3>1, <3>2
  <2> QED
    BY <2>1
<1>5. Placed(p) = Body(Placed(p))
  <2> HIDE DEF h0
  <2>1. \E h : h = Body(h)
    BY <1>4
  <2> QED
    BY <2>1, Zenon DEF Placed
<1> HIDE DEF Body
<1>6. ASSUME NEW n \in 0..N
      PROVE  Placed(p)[n] = IF n = 0 THEN {} ELSE Round(p, Placed(p)[n - 1])
  <2> DEFINE P == Placed(p)
  <2> HIDE DEF P
  <2>1. P = Body(P)
    BY <1>5 DEF P
  <2>2. Body(P)[n] = IF n = 0 THEN {} ELSE Round(p, P[n - 1])
    BY DEF Body, Round
  <2> QED
    BY <2>1, <2>2 DEF P
<1>7. 0 \in 0..N /\ \A n \in 0..(N - 1) : n + 1 \in 0..N /\ n + 1 # 0 /\ (n + 1) - 1 = n
  BY <1>1
<1>8. Placed(p)[0] = {}
  BY <1>6, <1>7
<1>9. ASSUME NEW n \in 0..(N - 1)
      PROVE  Placed(p)[n + 1] = Round(p, Placed(p)[n])
  BY <1>6, <1>7
<1> QED
  BY <1>8, <1>9

LEMMA PlacedGrows ==
  ASSUME PlanAssumption, NEW p, NEW m \in 0..N, NEW n \in 0..N, m <= n
  PROVE  Placed(p)[m] \subseteq Placed(p)[n]
<1> DEFINE P == Placed(p)
           Bad == {k \in m..N : ~(P[m] \subseteq P[k])}
<1>1. N \in Nat /\ m \in Nat /\ n \in m..N
  BY DEF PlanAssumption
<1>2. \A k \in 0..(N - 1) : P[k] \subseteq P[k + 1]
  BY PlacedByRounds DEF Round
<1> HIDE DEF P
<1>3. Bad = {}
  <2>1. SUFFICES ASSUME Bad # {}
                 PROVE  FALSE
    OBVIOUS
  <2>2. PICK k \in Bad : \A j \in Bad : k <= j
    <3>1. Bad \subseteq Nat
      BY <1>1
    <3> HIDE DEF Bad
    <3> QED
      BY <2>1, <3>1, LeastElement
  <2>3. k # m /\ k \in m..N
    BY <2>2
  <2>4. k - 1 \in m..N /\ k - 1 \in 0..(N - 1) /\ (k - 1) + 1 = k
    BY <1>1, <2>3
  <2>5. P[m] \subseteq P[k - 1]
    BY <2>2, <2>4
  <2> QED
    BY <1>2, <2>2, <2>4, <2>5
<1> QED
  BY <1>1, <1>3 DEF P

(* Every actor of a compiled protocol is placed in one round, after its    *)
(* producers.                                                              *)
LEMMA PhaseIs ==
  ASSUME PlanAssumption, NEW p, Placed(p)[N] = Actor, NEW a \in Actor
  PROVE  /\ Phase(p, a) \in 0..(N - 1)
         /\ a \in Placed(p)[Phase(p, a) + 1] /\ a \notin Placed(p)[Phase(p, a)]
         /\ Producers(p, a) \subseteq Placed(p)[Phase(p, a)]
         /\ \A n \in 0..(N - 1) :
              a \in Placed(p)[n + 1] /\ a \notin Placed(p)[n] => n = Phase(p, a)
<1> DEFINE P == Placed(p)
           At == {n \in 0..N : a \in P[n]}
<1>1. N \in Nat
  BY DEF PlanAssumption
<1>2. P[0] = {} /\ \A n \in 0..(N - 1) : P[n + 1] = Round(p, P[n])
  BY PlacedByRounds
<1>3. \A i, j \in 0..N : i <= j => P[i] \subseteq P[j]
  BY PlacedGrows
<1>4. P[N] = Actor
  OBVIOUS
<1>5. Phase(p, a) = CHOOSE n \in 0..(N - 1) : a \in P[n + 1] \ P[n]
  BY DEF Phase
<1> HIDE DEF P
<1>6. \E n \in 0..(N - 1) : a \in P[n + 1] \ P[n]
  <2>1. PICK m \in At : \A k \in At : m <= k
    <3>1. N \in At
      BY <1>1, <1>4
    <3>2. At \subseteq Nat
      BY <1>1
    <3> HIDE DEF At
    <3> QED
      BY <3>1, <3>2, LeastElement
  <2>2. m # 0 /\ m \in 0..N
    BY <1>2, <2>1
  <2>3. m - 1 \in 0..(N - 1) /\ m - 1 \in 0..N /\ (m - 1) + 1 = m
    BY <1>1, <2>2
  <2>4. a \notin P[m - 1]
    BY <2>1, <2>3
  <2> QED
    BY <2>1, <2>3, <2>4
<1> DEFINE n == Phase(p, a)
<1>7. n \in 0..(N - 1) /\ a \in P[n + 1] \ P[n]
  BY <1>5, <1>6
<1> HIDE DEF n
<1>8. Producers(p, a) \subseteq P[n]
  BY <1>2, <1>7 DEF Round
<1>9. ASSUME NEW k \in 0..(N - 1), a \in P[k + 1], a \notin P[k]
      PROVE  k = n
  <2>1. k < n => k + 1 <= n /\ k + 1 \in 0..N /\ n \in 0..N
    BY <1>1, <1>7
  <2>2. n < k => n + 1 <= k /\ n + 1 \in 0..N /\ k \in 0..N
    BY <1>1, <1>7
  <2>3. ~(k < n) /\ ~(n < k)
    BY <1>3, <1>7, <1>9, <2>1, <2>2
  <2> QED
    BY <1>1, <1>7, <2>3
<1> QED
  BY <1>7, <1>8, <1>9 DEF n, P

LEMMA ProducersAreEarlier ==
  ASSUME PlanAssumption, NEW p \in Protocol, Placed(p)[N] = Actor, NEW ch \in Primary(p)
  PROVE  /\ From(ch) \in Actor /\ To(ch) \in Actor
         /\ Phase(p, From(ch)) < Phase(p, To(ch))
<1>1. From(ch) \in Actor /\ To(ch) \in Actor
  BY DEF Primary, Protocol, PlanAssumption, From, To
<1> DEFINE m == Phase(p, From(ch))
           n == Phase(p, To(ch))
<1>2. /\ m \in 0..(N - 1) /\ From(ch) \notin Placed(p)[m]
      /\ n \in 0..(N - 1) /\ Producers(p, To(ch)) \subseteq Placed(p)[n]
  BY <1>1, PhaseIs
<1>3. From(ch) \in Producers(p, To(ch))
  BY DEF Producers
<1> HIDE DEF m, n
<1>4. ~(n <= m)
  <2>1. SUFFICES ASSUME n <= m
                 PROVE  FALSE
    OBVIOUS
  <2>2. n \in 0..N /\ m \in 0..N
    BY <1>2 DEF PlanAssumption
  <2>3. Placed(p)[n] \subseteq Placed(p)[m]
    BY <2>1, <2>2, PlacedGrows
  <2> QED
    BY <1>2, <1>3, <2>3
<1>5. m < n
  BY <1>2, <1>4 DEF PlanAssumption
<1> QED
  BY <1>1, <1>5 DEF m, n

(* No level is empty: a round that places nobody is the last.              *)
LEMMA LevelsAreFull ==
  ASSUME PlanAssumption, NEW p, Placed(p)[N] = Actor
  PROVE  LastLevel(p) \in Nat /\ Levels(p) = 0..LastLevel(p)
<1> DEFINE L == Levels(p)
<1>1. N \in Nat \ {0} /\ Actor # {}
  BY DEF PlanAssumption, Actor
<1>2. L \subseteq 0..(N - 1) /\ L # {}
  BY <1>1, PhaseIs DEF Levels
<1>3. L \subseteq Nat
  BY <1>1, <1>2
<1>4. PICK m \in L : \A k \in L : k <= m
  <2>1. N - 1 \in Nat /\ L \subseteq Nat /\ \A k \in L : k <= N - 1
    BY <1>1, <1>2
  <2> QED
    BY <1>2, <2>1, GreatestElement
<1>5. LastLevel(p) \in L /\ \A k \in L : k <= LastLevel(p)
  BY <1>4 DEF LastLevel
<1>6. LastLevel(p) = m /\ m \in Nat
  BY <1>1, <1>2, <1>4, <1>5
<1>7. ASSUME NEW n \in L, n # 0
      PROVE  n - 1 \in L
  <2>1. SUFFICES ASSUME n - 1 \notin L
                 PROVE  FALSE
    OBVIOUS
  <2>2. n \in 0..(N - 1) /\ n - 1 \in 0..(N - 1) /\ (n - 1) + 1 = n
    BY <1>1, <1>2, <1>7
  <2>3. PICK a \in Actor : Phase(p, a) = n
    BY DEF Levels
  <2>4. a \notin Placed(p)[n] /\ Producers(p, a) \subseteq Placed(p)[n]
    BY <2>3, PhaseIs
  <2>5. Placed(p)[n] = Round(p, Placed(p)[n - 1])
    BY <2>2, PlacedByRounds
  <2>6. \A b \in Placed(p)[n] : b \in Placed(p)[n - 1]
    <3>1. ASSUME NEW b \in Placed(p)[n], b \notin Placed(p)[n - 1]
          PROVE  FALSE
      <4>1. b \in Actor
        BY <2>5, <3>1 DEF Round
      <4>2. b \in Placed(p)[(n - 1) + 1]
        BY <2>2, <3>1
      <4>3. n - 1 = Phase(p, b)
        BY <2>2, <3>1, <4>1, <4>2, PhaseIs
      <4> QED
        BY <2>1, <4>1, <4>3 DEF Levels
    <3> QED
      BY <3>1
  <2>7. Producers(p, a) \subseteq Placed(p)[n - 1]
    BY <2>4, <2>6
  <2> QED
    BY <2>4, <2>5, <2>7 DEF Round
<1> HIDE DEF L
<1>8. ASSUME NEW k \in 0..m
      PROVE  k \in L
  <2> DEFINE Above == {j \in L : k <= j}
  <2>1. m \in Above
    BY <1>6
  <2>2. Above \subseteq Nat
    BY <1>3
  <2>3. PICK j \in Above : \A i \in Above : j <= i
    <3> HIDE DEF Above
    <3> QED
      BY <2>1, <2>2, LeastElement
  <2>4. j = k
    <3>1. SUFFICES ASSUME j # k
                   PROVE  FALSE
      OBVIOUS
    <3>2. j # 0 /\ j \in L /\ k <= j - 1 /\ j \in Nat
      BY <2>2, <2>3, <3>1
    <3>3. j - 1 \in Above
      BY <1>7, <3>2
    <3> QED
      BY <2>3, <3>2, <3>3
  <2> QED
    BY <2>3, <2>4
<1>9. L = 0..m
  <2>1. \A k \in L : k \in Nat /\ k <= m
    BY <1>3, <1>4
  <2>2. \A k \in L : k \in 0..m
    BY <1>6, <2>1
  <2> QED
    BY <1>8, <2>2
<1> QED
  BY <1>6, <1>9 DEF L

LEMMA DeliveriesAre ==
  ASSUME NEW p
  PROVE  /\ \A ch \in p.channels : \E d \in Deliveries(p) :
              d.artifact = ch /\ d.consumer = Consumer(p, ch)
         /\ \A d \in Deliveries(p) :
              d.artifact \in p.channels /\ d.consumer = Consumer(p, d.artifact)
<1> DEFINE D(ch) == [artifact |-> ch, producer |-> Initial(From(ch)),
                     consumer |-> Consumer(p, ch)]
<1>1. Deliveries(p) = {D(ch) : ch \in p.channels}
  BY DEF Deliveries
<1>2. \A ch : D(ch).artifact = ch /\ D(ch).consumer = Consumer(p, ch)
  OBVIOUS
<1> HIDE DEF D
<1> QED
  BY <1>1, <1>2

(* Every plan that the compiler makes passes the runtime's checks          *)
(* (composite_compiler.py against CompositeRuntime._validate_inputs).      *)
THEOREM CompiledIsAccepted ==
  ASSUME PlanAssumption, NEW p \in Protocol, Compiles(p)
  PROVE  RuntimeAccepts(p)
<1> DEFINE last == LastLevel(p)
<1>1. Placed(p)[N] = Actor
  BY DEF Compiles
<1>2. last \in Nat /\ Levels(p) = 0..last
  BY <1>1, LevelsAreFull
<1>3. \A a \in Actor : Phase(p, a) \in Nat /\ Phase(p, a) <= last
  BY <1>2 DEF Levels
<1>4. \A a : Initial(a) # Revision(p) /\ Initial(a)[1] = a
  BY DEF Initial, Revision
<1>5. /\ \A a \in Actor : StageIndex(p, Initial(a)) = Phase(p, a)
      /\ StageIndex(p, Revision(p)) = last + 1
  BY <1>4 DEF StageIndex
<1>6. p.final \in Actor /\ p.channels \subseteq Actor \X Actor \X Nat
  BY DEF Protocol, PlanAssumption
<1>7. Stages(p) = 0..(Cardinality(Stages(p)) - 1)
  <2>1. \A s : s \in Stages(p) <=> s \in Levels(p) \/ (Revises(p) /\ s = last + 1)
    BY <1>5 DEF Stages, Calls, Levels
  <2>2. CASE Revises(p)
    <3>1. Stages(p) = 0..(last + 1)
      <4> HIDE DEF last
      <4>1. \A s : s \in 0..(last + 1) <=> s \in 0..last \/ s = last + 1
        BY <1>2
      <4>2. \A s : s \in Stages(p) <=> s \in 0..(last + 1)
        BY <1>2, <2>1, <2>2, <4>1 DEF last
      <4> QED
        BY <4>2
    <3>2. Cardinality(0..(last + 1)) = last + 2
      BY <1>2, FS_Interval
    <3> QED
      BY <1>2, <3>1, <3>2
  <2>3. CASE ~Revises(p)
    <3>1. Stages(p) = 0..last
      BY <1>2, <2>1, <2>3
    <3>2. Cardinality(0..last) = last + 1
      BY <1>2, FS_Interval
    <3> QED
      BY <1>2, <3>1, <3>2
  <2> QED
    BY <2>2, <2>3
<1>8. ASSUME NEW i \in Stages(p), NEW j \in DependsOn(p, i)
      PROVE  j < i
  <2>1. CASE i = last + 1
    <3>1. j = Phase(p, From(p.feedback))
      BY <1>8, <2>1 DEF DependsOn
    <3>2. PICK c \in Calls(p) : StageIndex(p, c) = i
      BY DEF Stages
    <3>3. Revises(p)
      <4>1. \A a \in Actor : Initial(a) # c
        BY <1>2, <1>3, <1>5, <2>1, <3>2
      <4> QED
        BY <4>1 DEF Calls
    <3>4. From(p.feedback) \in Actor
      BY <1>6, <3>3 DEF Revises, Protocol, From
    <3> QED
      BY <1>2, <1>3, <2>1, <3>1, <3>4
  <2>2. CASE i # last + 1
    <3>1. PICK ch \in Primary(p) : Phase(p, To(ch)) = i /\ j = Phase(p, From(ch))
      BY <1>8, <2>2 DEF DependsOn
    <3> QED
      BY <1>1, <3>1, ProducersAreEarlier
  <2> QED
    BY <2>1, <2>2
<1>9. FinalCall(p) \in Calls(p)
  BY <1>6 DEF FinalCall, Calls
<1>10. ASSUME NEW c \in Calls(p), NEW r \in ContextReads(p, c)
       PROVE  ReadIsDeclared(p, c, r)
  <2>1. \A x : /\ ReadArtifact(x).kind = "artifact" /\ ReadArtifact(x).ref = x
               /\ ReadOutput(x).kind = "prior_actor_output" /\ ReadOutput(x).ref = x
    BY DEF ReadArtifact, ReadOutput
  <2>2. CASE \E ch \in DeliveredTo(p, c) : r = ReadArtifact(ch)
    BY <2>1, <2>2 DEF ReadIsDeclared
  <2>3. CASE c = Revision(p) /\ r = ReadOutput(Initial(p.final))
    <3>1. Initial(p.final) \in Calls(p)
      BY <1>6 DEF Calls
    <3>2. StageIndex(p, Initial(p.final)) < StageIndex(p, c)
      BY <1>2, <1>3, <1>5, <1>6, <2>3
    <3> QED
      BY <2>1, <2>3, <3>1, <3>2 DEF ReadIsDeclared
  <2>4. CASE c = Revision(p) /\ \E ch \in DeliveredTo(p, Initial(p.final)) : r = ReadArtifact(ch)
    <3>1. PICK ch \in DeliveredTo(p, Initial(p.final)) : r = ReadArtifact(ch)
      BY <2>4
    <3>2. PICK d \in Deliveries(p) : d.artifact = ch /\ d.consumer = Initial(p.final)
      BY DEF DeliveredTo
    <3>3. c[2] = "revision" /\ c[1] = p.final
      BY <2>4 DEF Revision
    <3>4. StageIndex(p, Initial(p.final)) < StageIndex(p, c)
      BY <1>2, <1>3, <1>5, <1>6, <2>4
    <3>5. d.consumer \in RetainedFrom(p, ch, c)
      BY <1>4, <3>2, <3>3, <3>4 DEF RetainedFrom
    <3> QED
      BY <2>1, <3>1, <3>5 DEF ReadIsDeclared
  <2> QED
    BY <2>2, <2>3, <2>4 DEF ContextReads
<1>11. ASSUME NEW d \in Deliveries(p)
       PROVE  ReadArtifact(d.artifact) \in ContextReads(p, d.consumer)
  <2>1. d.artifact \in DeliveredTo(p, d.consumer)
    BY DEF DeliveredTo
  <2> QED
    BY <2>1 DEF ContextReads
<1>12. \A ch \in p.channels : \E d \in Deliveries(p) : d.artifact = ch
  BY DeliveriesAre
<1> QED
  BY <1>7, <1>8, <1>9, <1>10, <1>11, <1>12 DEF RuntimeAccepts

-----------------------------------------------------------------------------
(* Stages and schedule of a plan that the runtime accepts.                 *)

(* The last level exists: it is the last stage, or the one before it.      *)
LEMMA LastLevelIsLast ==
  ASSUME PlanAssumption, NEW p \in Protocol, RuntimeAccepts(p)
  PROVE  /\ IsFiniteSet(Calls(p))
         /\ \A c \in Calls(p) : StageIndex(p, c) \in Nat
         /\ \A a \in Actor : Initial(a) \in Calls(p) /\ Initial(a) # Revision(p)
         /\ \A a \in Actor : StageIndex(p, Initial(a)) = Phase(p, a)
         /\ LastLevel(p) \in Levels(p) /\ LastLevel(p) \in Nat
         /\ \A n \in Levels(p) : n <= LastLevel(p)
<1>1. IsFiniteSet(Calls(p))
  <2>1. IsFiniteSet(Actor)
    BY FS_Interval DEF PlanAssumption, Actor
  <2>2. IsFiniteSet({"initial"} \cup {"revision"})
    BY FS_Singleton, FS_Union
  <2>3. IsFiniteSet(Actor \X ({"initial"} \cup {"revision"}))
    BY <2>1, <2>2, FS_Product
  <2>4. Calls(p) \subseteq Actor \X ({"initial"} \cup {"revision"})
    BY DEF Calls, Initial, Revision, Protocol
  <2> QED
    BY <2>3, <2>4, FS_Subset
<1>2. \A a \in Actor : Initial(a) \in Calls(p) /\ Initial(a) # Revision(p)
  BY DEF Calls, Initial, Revision
<1>3. \A a \in Actor : StageIndex(p, Initial(a)) = Phase(p, a)
  <2>1. \A a \in Actor : Initial(a)[1] = a
    BY DEF Initial
  <2> QED
    BY <1>2, <2>1 DEF StageIndex
<1> DEFINE stage == [c \in Calls(p) |-> StageIndex(p, c)]
           k == Cardinality(Stages(p)) - 1
<1>4. k \in Int
  <2>1. stage \in Surjection(Calls(p), Stages(p))
    BY DEF Surjection, Stages
  <2>2. IsFiniteSet(Stages(p))
    BY <1>1, <2>1, FS_Surjection
  <2> QED
    BY <2>2, FS_CardinalityType
<1> HIDE DEF k
<1>5. Stages(p) = 0..k
  BY DEF RuntimeAccepts, k
<1>6. \A c \in Calls(p) : StageIndex(p, c) \in Nat /\ StageIndex(p, c) <= k
  BY <1>4, <1>5 DEF Stages
<1>7. Levels(p) \subseteq 0..k
  BY <1>2, <1>3, <1>4, <1>6 DEF Levels
<1>8. Levels(p) # {}
  BY DEF Levels, Actor, PlanAssumption
<1>9. \E n \in Levels(p) : \A j \in Levels(p) : j <= n
  <2>1. CASE k \in Levels(p)
    BY <1>4, <1>7, <2>1
  <2>2. CASE k \notin Levels(p)
    <3>1. \A s \in Stages(p) : s \in Levels(p) \/ s = LastLevel(p) + 1
      <4>1. \A c \in Calls(p) : (\E a \in Actor : c = Initial(a)) \/ c = Revision(p)
        BY DEF Calls
      <4>2. \A c \in Calls(p) :
              StageIndex(p, c) \in Levels(p) \/ StageIndex(p, c) = LastLevel(p) + 1
        BY <1>3, <4>1 DEF Levels, StageIndex
      <4> QED
        BY <4>2 DEF Stages
    <3>2. k >= 1 /\ k - 1 \in 0..k /\ k \in 0..k
      BY <1>4, <1>7, <1>8, <2>2
    <3>3. k = LastLevel(p) + 1
      BY <1>5, <2>2, <3>1, <3>2
    <3>4. k - 1 \in Levels(p)
      BY <1>4, <1>5, <3>1, <3>2, <3>3
    <3> QED
      BY <1>4, <1>7, <2>2, <3>4
  <2> QED
    BY <2>1, <2>2
<1>10. LastLevel(p) \in Levels(p) /\ \A n \in Levels(p) : n <= LastLevel(p)
  BY <1>9 DEF LastLevel
<1> QED
  BY <1>1, <1>2, <1>3, <1>4, <1>6, <1>7, <1>10

(* A revision comes after every first call, and a consumer after its       *)
(* producer.                                                               *)
LEMMA StagesAreOrdered ==
  ASSUME PlanAssumption, NEW p \in Protocol, RuntimeAccepts(p)
  PROVE  /\ \A a \in Actor : Revises(p) =>
              StageIndex(p, Initial(a)) < StageIndex(p, Revision(p))
         /\ \A ch \in p.channels :
              /\ From(ch) \in Actor /\ To(ch) \in Actor
              /\ Consumer(p, ch) \in Calls(p)
              /\ StageIndex(p, Initial(From(ch))) < StageIndex(p, Consumer(p, ch))
         /\ \A c \in Calls(p) : \A j \in DependsOn(p, StageIndex(p, c)) :
              j < StageIndex(p, c)
<1>1. \A a \in Actor : /\ Phase(p, a) \in Levels(p)
                       /\ Phase(p, a) \in Nat /\ Phase(p, a) <= LastLevel(p)
                       /\ StageIndex(p, Initial(a)) = Phase(p, a)
                       /\ Initial(a) \in Calls(p)
  BY LastLevelIsLast DEF Levels
<1>2. LastLevel(p) \in Nat
  BY LastLevelIsLast
<1>3. StageIndex(p, Revision(p)) = LastLevel(p) + 1
  BY DEF StageIndex
<1>4. \A c \in Calls(p) : \A j \in DependsOn(p, StageIndex(p, c)) : j < StageIndex(p, c)
  BY DEF RuntimeAccepts, Stages
<1>5. ASSUME NEW ch \in p.channels
      PROVE  /\ From(ch) \in Actor /\ To(ch) \in Actor
             /\ Consumer(p, ch) \in Calls(p)
             /\ StageIndex(p, Initial(From(ch))) < StageIndex(p, Consumer(p, ch))
  <2>1. From(ch) \in Actor /\ To(ch) \in Actor
    BY DEF Protocol, PlanAssumption, From, To
  <2>2. CASE ch = p.feedback
    <3>1. Revises(p)
      BY <2>2 DEF Revises, Protocol, PlanAssumption
    <3>2. Consumer(p, ch) = Revision(p) /\ Revision(p) \in Calls(p)
      BY <2>2, <3>1 DEF Consumer, Calls
    <3> QED
      BY <1>1, <1>2, <1>3, <2>1, <3>2
  <2>3. CASE ch # p.feedback
    <3>1. ch \in Primary(p)
      BY <2>3 DEF Primary
    <3> DEFINE i == Phase(p, To(ch))
    <3>2. i # LastLevel(p) + 1
      BY <1>1, <1>2, <2>1
    <3>3. Phase(p, From(ch)) \in DependsOn(p, i)
      BY <3>1, <3>2 DEF DependsOn
    <3>4. Consumer(p, ch) = Initial(To(ch))
      BY <2>3 DEF Consumer
    <3> QED
      BY <1>1, <1>4, <2>1, <3>3, <3>4
  <2> QED
    BY <2>2, <2>3
<1>6. \A a \in Actor : Revises(p) => StageIndex(p, Initial(a)) < StageIndex(p, Revision(p))
  BY <1>1, <1>2, <1>3
<1> QED
  BY <1>4, <1>5, <1>6

(* The schedule lists every call once, stage after stage: the number of    *)
(* calls that precede a call is its place.                                 *)
LEMMA ScheduleIsSorted ==
  ASSUME PlanAssumption, NEW p \in Protocol, RuntimeAccepts(p)
  PROVE  /\ Schedule(p) \in Seq(Calls(p))
         /\ \A c \in Calls(p) : \E i \in DOMAIN Schedule(p) : Schedule(p)[i] = c
         /\ \A i, j \in DOMAIN Schedule(p) :
              /\ Schedule(p)[i] = Schedule(p)[j] => i = j
              /\ StageIndex(p, Schedule(p)[i]) < StageIndex(p, Schedule(p)[j]) => i < j
<1> DEFINE C == Calls(p)
           n == Cardinality(C)
           Before(c) == {d \in C : Precedes(p, d, c)}
           rank == [c \in C |-> Cardinality(Before(c))]
<1>1. /\ IsFiniteSet(C) /\ n \in Nat
      /\ \A c \in C : StageIndex(p, c) \in Nat
  BY LastLevelIsLast, FS_CardinalityType
<1>2. \A c \in C : c[1] \in Int
  BY DEF Calls, Initial, Revision, Actor, Protocol
<1>3. \A c, d \in C : c # d => Precedes(p, c, d) \/ Precedes(p, d, c)
  <2>1. \A a \in Actor : Revises(p) => StageIndex(p, Initial(a)) < StageIndex(p, Revision(p))
    BY StagesAreOrdered
  <2>2. \A a \in Actor : Initial(a)[1] = a
    BY DEF Initial
  <2>3. \A c \in C : \/ \E a \in Actor : c = Initial(a)
                     \/ Revises(p) /\ c = Revision(p)
    BY DEF Calls
  <2>4. \A a \in Actor : a \in Int
    BY DEF Actor
  <2> QED
    BY <1>1, <1>2, <2>1, <2>2, <2>3, <2>4 DEF Precedes
<1>4. \A c \in C : ~Precedes(p, c, c)
  BY <1>1, <1>2 DEF Precedes
<1>5. \A b, c, d \in C : Precedes(p, b, c) /\ Precedes(p, c, d) => Precedes(p, b, d)
  BY <1>1, <1>2 DEF Precedes
<1>6. ASSUME NEW c \in C
      PROVE  /\ IsFiniteSet(Before(c))
             /\ Cardinality(Before(c)) \in 0..(n - 1)
  <2>1. Before(c) \subseteq C \ {c}
    BY <1>4
  <2>2. IsFiniteSet(C \ {c}) /\ Cardinality(C \ {c}) = n - 1
    BY <1>1, FS_RemoveElement
  <2>3. IsFiniteSet(Before(c)) /\ Cardinality(Before(c)) <= n - 1
    BY <2>1, <2>2, FS_Subset
  <2> QED
    BY <1>1, <2>3, FS_CardinalityType
<1>7. ASSUME NEW c \in C, NEW d \in C, Precedes(p, c, d)
      PROVE  rank[c] < rank[d]
  <2>1. Before(c) \subseteq Before(d) \ {c}
    BY <1>4, <1>5, <1>7
  <2>2. c \in Before(d)
    BY <1>7
  <2>3. IsFiniteSet(Before(d) \ {c}) /\ Cardinality(Before(d) \ {c}) = Cardinality(Before(d)) - 1
    BY <1>6, <2>2, FS_RemoveElement
  <2>4. Cardinality(Before(c)) <= Cardinality(Before(d)) - 1
    BY <2>1, <2>3, FS_Subset
  <2>5. Cardinality(Before(c)) \in Int /\ Cardinality(Before(d)) \in Int
    BY <1>6
  <2>6. Cardinality(Before(c)) < Cardinality(Before(d))
    <3> HIDE DEF Before
    <3> QED
      BY <2>4, <2>5
  <2> QED
    BY <2>6
<1>8. rank \in Injection(C, 0..(n - 1))
  <2>1. rank \in [C -> 0..(n - 1)]
    BY <1>6
  <2>2. ASSUME NEW c \in C, NEW d \in C, rank[c] = rank[d]
        PROVE  c = d
    <3>1. rank[c] \in Int /\ rank[d] \in Int
      BY <2>1
    <3> QED
      BY <1>3, <1>7, <2>2, <3>1
  <2> HIDE DEF rank
  <2> QED
    BY <2>1, <2>2 DEF Injection, IsInjective
<1>9. rank \in Surjection(C, 0..(n - 1))
  <2>1. IsFiniteSet(0..(n - 1)) /\ Cardinality(0..(n - 1)) = n
    BY <1>1, FS_Interval
  <2> HIDE DEF rank, n
  <2> QED
    BY <1>8, <2>1, FS_Injection DEF n
<1> DEFINE S == Schedule(p)
<1>10. \A i \in 1..n : S[i] = CHOOSE c \in C : Cardinality(Before(c)) = i - 1
  BY DEF Schedule
<1>11. \A i \in 1..n : S[i] \in C /\ rank[S[i]] = i - 1
  <2>1. ASSUME NEW i \in 1..n
        PROVE  \E c \in C : Cardinality(Before(c)) = i - 1
    <3>1. i - 1 \in 0..(n - 1)
      BY <1>1
    <3>2. PICK c \in C : rank[c] = i - 1
      <4> HIDE DEF n, rank
      <4> QED
        BY <1>9, <3>1 DEF Surjection
    <3>3. rank[c] = Cardinality(Before(c))
      OBVIOUS
    <3> QED
      BY <3>2, <3>3
  <2>2. ASSUME NEW i \in 1..n
        PROVE  S[i] \in C /\ Cardinality(Before(S[i])) = i - 1
    <3> HIDE DEF S, Before
    <3> QED
      BY <1>10, <2>1
  <2>3. \A c \in C : rank[c] = Cardinality(Before(c))
    OBVIOUS
  <2> HIDE DEF S, rank, Before
  <2> QED
    BY <2>2, <2>3
<1> HIDE DEF S, rank
<1>12. S \in Seq(C) /\ DOMAIN S = 1..n
  <2>1. S \in [1..n -> C]
    BY <1>11 DEF S, Schedule
  <2> QED
    BY <1>1, <2>1
<1>13. \A c \in C : \E i \in 1..n : S[i] = c
  <2>1. ASSUME NEW c \in C
        PROVE  \E i \in 1..n : S[i] = c
    <3>1. rank[c] \in 0..(n - 1)
      BY <1>8 DEF Injection
    <3> DEFINE i == rank[c] + 1
    <3>2. i \in 1..n /\ i - 1 = rank[c]
      BY <1>1, <3>1
    <3>3. S[i] \in C /\ rank[S[i]] = rank[c]
      BY <1>11, <3>2
    <3>4. S[i] = c
      BY <1>8, <3>3 DEF Injection, IsInjective
    <3> QED
      BY <3>2, <3>4
  <2> QED
    BY <2>1
<1>14. ASSUME NEW i \in 1..n, NEW j \in 1..n
       PROVE  /\ S[i] = S[j] => i = j
              /\ StageIndex(p, S[i]) < StageIndex(p, S[j]) => i < j
  <2>1. StageIndex(p, S[i]) < StageIndex(p, S[j]) => rank[S[i]] < rank[S[j]]
    BY <1>7, <1>11 DEF Precedes
  <2> QED
    BY <1>1, <1>11, <2>1
<1> QED
  BY <1>12, <1>13, <1>14 DEF S

-----------------------------------------------------------------------------
(* The inductive invariant.                                                *)

Running == pc \in {"call", "turn", "verify"}

(* The calls whose context was read.                                       *)
Begun == outputs \cup (IF pc = "turn" THEN {Current} ELSE {})

Rereads(p, ch) == Revises(p) /\ To(ch) = p.final /\ ch # p.feedback

ReadersOf(p, ch, begun) ==
  IF Consumer(p, ch) \notin begun THEN <<>>
  ELSE IF Rereads(p, ch) /\ Revision(p) \in begun
       THEN <<Consumer(p, ch), Revision(p)>>
       ELSE <<Consumer(p, ch)>>

Planned ==
  /\ RuntimeAccepts(protocol)
  /\ compiled = [calls |-> Schedule(protocol), stage |->
                   [c \in Calls(protocol) |-> StageIndex(protocol, c)]]

Fresh ==
  pc = "new" =>
    /\ pos = 1 /\ outputs = {} /\ stored = {} /\ delivered = {}
    /\ \A ch \in Channels : readers[ch] = <<>>

(* What was written, delivered and read is what the schedule says up to    *)
(* the current call.                                                       *)
Followed ==
  /\ pos \in 1..(Len(compiled.calls) + 1)
  /\ pc = "turn" => pos <= Len(compiled.calls)
  /\ pc = "verify" => pos > Len(compiled.calls)
  /\ outputs = {compiled.calls[k] : k \in 1..(pos - 1)}
  /\ stored = {ch \in protocol.channels : Initial(From(ch)) \in outputs}
  /\ delivered = {<<ch, Consumer(protocol, ch)>> :
                    ch \in {x \in protocol.channels : Consumer(protocol, x) \in Begun}}
  /\ \A ch \in protocol.channels : readers[ch] = ReadersOf(protocol, ch, Begun)
  /\ FinalCall(protocol) \in outputs => patch # 0

(* Until the ledger is violated, the charges are within the reservations.  *)
Charged ==
  /\ ~hasTools => receipts = <<>> /\ bytes = 0
  /\ ~violated =>
       /\ bytes <= MaxBytes
       /\ \A i \in DOMAIN receipts :
            receipts[i].charged => receipts[i].size <= receipts[i].limit

(* As long as the public steps pass, they leave and find the patch in the  *)
(* working copy.                                                           *)
Tested ==
  /\ pc \in {"new", "call", "turn"} =>
       step = 1 /\ \A i \in DOMAIN receipts : receipts[i].step = 0
  /\ pc = "verify" =>
       /\ hasTools
       /\ \A s \in 1..(step - 1) : \E i \in DOMAIN receipts : receipts[i].step = s
       /\ Verified =>
            /\ work = patch
            /\ \A i \in DOMAIN receipts : receipts[i].step > 0 =>
                 receipts[i].before = patch /\ receipts[i].after = patch

Ended ==
  /\ pc # "done" => outcome = "running"
  /\ CompiledPlansRun
  /\ EveryArtifactIsRead /\ CompletedIsVerified /\ SuccessIsWithinLimits

RunInv ==
  /\ TypeOK
  /\ Fresh
  /\ Running => Planned /\ Followed
  /\ ReceiptsChain /\ Charged /\ Tested /\ Ended

-----------------------------------------------------------------------------
(* What a planned run may rely on at its current call.                     *)

LEMMA ReadsAreGiven ==
  ASSUME NEW p \in Protocol, NEW c \in Calls(p)
  PROVE  /\ DeliveredTo(p, c) = {ch \in p.channels : Consumer(p, ch) = c}
         /\ Writes(p, c) = {ch \in p.channels : Initial(From(ch)) = c}
         /\ c = Revision(p) => Revises(p)
         /\ c[1] \in Actor /\ c \in Actor \X {"initial", "revision"}
<1>1. /\ c = Revision(p) => Revises(p)
      /\ c \in Actor \X {"initial", "revision"}
      /\ c # Revision(p) => c = Initial(c[1])
  BY DEF Calls, Initial, Revision, Protocol
<1>2. c[1] \in Actor
  BY <1>1
<1>3. DeliveredTo(p, c) = {ch \in p.channels : Consumer(p, ch) = c}
  <2>1. \A x : x \in DeliveredTo(p, c) <=>
               \E d \in Deliveries(p) : d.consumer = c /\ d.artifact = x
    BY DEF DeliveredTo
  <2>2. \A x : x \in DeliveredTo(p, c) <=> x \in p.channels /\ Consumer(p, x) = c
    BY <2>1, DeliveriesAre
  <2> QED
    BY <2>2
<1>4. \A a : Initial(a) # Revision(p) /\ Initial(a)[1] = a
  BY DEF Initial, Revision
<1>5. Writes(p, c) = {ch \in p.channels : Initial(From(ch)) = c}
  <2>1. CASE c = Revision(p)
    BY <1>4, <2>1 DEF Writes
  <2>2. CASE c # Revision(p)
    BY <1>1, <1>4, <2>2 DEF Writes
  <2> QED
    BY <2>1, <2>2
<1> QED
  BY <1>1, <1>2, <1>3, <1>5

LEMMA RereadsAtFinal ==
  ASSUME PlanAssumption, NEW p \in Protocol, NEW ch \in p.channels
  PROVE  /\ Rereads(p, ch) <=> Revises(p) /\ Consumer(p, ch) = Initial(p.final)
         /\ Initial(p.final) \in Calls(p) /\ Initial(p.final) # Revision(p)
         /\ Revises(p) => Revision(p) \in Calls(p)
<1>1. Initial(p.final) \in Calls(p) /\ Initial(p.final) # Revision(p)
  BY DEF Calls, Initial, Revision, Protocol
<1>2. Revises(p) => Revision(p) \in Calls(p)
  BY DEF Calls
<1>3. Consumer(p, ch) = Initial(p.final) <=> ch # p.feedback /\ To(ch) = p.final
  BY <1>1 DEF Consumer, Initial
<1> QED
  BY <1>1, <1>2, <1>3 DEF Rereads

LEMMA ReadArtifacts ==
  ASSUME NEW c, NEW ch, protocol \in Protocol
  PROVE  ch \in ArtifactsRead(c) <=>
           \/ ch \in DeliveredTo(protocol, c)
           \/ c = Revision(protocol)
              /\ ch \in DeliveredTo(protocol, Initial(protocol.final))
<1>1. \A x : x \in ContextReads(protocol, c) /\ x.kind = "artifact" <=>
        \E y : /\ x = ReadArtifact(y)
               /\ \/ y \in DeliveredTo(protocol, c)
                  \/ c = Revision(protocol)
                     /\ y \in DeliveredTo(protocol, Initial(protocol.final))
  BY DEF ContextReads, ReadArtifact, ReadOutput
<1>2. \A y : ReadArtifact(y).ref = y
  BY DEF ReadArtifact
<1> QED
  BY <1>1, <1>2 DEF ArtifactsRead

LEMMA AtCurrent ==
  ASSUME PlanAssumption, protocol \in Protocol, Planned, Followed,
         pos <= Len(compiled.calls)
  PROVE  /\ Current \in Calls(protocol) /\ Current \notin outputs
         /\ outputs \subseteq Calls(protocol)
         /\ \A c \in Calls(protocol) :
              StageIndex(protocol, c) < StageIndex(protocol, Current) => c \in outputs
         /\ \A c \in outputs :
              ~(StageIndex(protocol, Current) < StageIndex(protocol, c))
<1> DEFINE S == compiled.calls
<1>1. /\ S \in Seq(Calls(protocol))
      /\ \A c \in Calls(protocol) : \E i \in DOMAIN S : S[i] = c
      /\ \A i, j \in DOMAIN S :
           /\ S[i] = S[j] => i = j
           /\ StageIndex(protocol, S[i]) < StageIndex(protocol, S[j]) => i < j
  BY ScheduleIsSorted DEF Planned
<1>2. pos \in 1..(Len(S) + 1) /\ outputs = {S[k] : k \in 1..(pos - 1)}
  BY DEF Followed
<1>3. Current = S[pos]
  BY DEF Current
<1> HIDE DEF S
<1>4. Len(S) \in Nat /\ DOMAIN S = 1..Len(S) /\ \A i \in 1..Len(S) : S[i] \in Calls(protocol)
  BY <1>1
<1>5. pos \in 1..Len(S) /\ \A k \in 1..(pos - 1) : k \in 1..Len(S) /\ k < pos
  BY <1>2, <1>4 DEF S
<1>6. ASSUME NEW c \in Calls(protocol),
             StageIndex(protocol, c) < StageIndex(protocol, Current)
      PROVE  c \in outputs
  <2>1. PICK i \in 1..Len(S) : S[i] = c
    BY <1>1, <1>4
  <2>2. i < pos
    BY <1>1, <1>3, <1>4, <1>5, <1>6, <2>1
  <2>3. i \in 1..(pos - 1)
    BY <1>4, <1>5, <2>2
  <2> QED
    BY <1>2, <2>1, <2>3
<1>7. ASSUME NEW c \in outputs, StageIndex(protocol, Current) < StageIndex(protocol, c)
      PROVE  FALSE
  <2>1. PICK k \in 1..(pos - 1) : S[k] = c
    BY <1>2
  <2>2. pos < k
    BY <1>1, <1>3, <1>4, <1>5, <1>7, <2>1
  <2> QED
    BY <1>5, <2>2
<1>8. Current \notin outputs
  <2>1. ASSUME NEW k \in 1..(pos - 1), S[k] = S[pos]
        PROVE  FALSE
    <3>1. k = pos
      BY <1>1, <1>4, <1>5, <2>1
    <3> QED
      BY <1>5, <3>1
  <2> QED
    BY <1>2, <1>3, <2>1
<1>9. Current \in Calls(protocol) /\ outputs \subseteq Calls(protocol)
  BY <1>2, <1>3, <1>4, <1>5
<1> QED
  BY <1>6, <1>7, <1>8, <1>9

LEMMA AtTheEnd ==
  ASSUME PlanAssumption, protocol \in Protocol, Planned, Followed,
         pos > Len(compiled.calls)
  PROVE  outputs = Calls(protocol)
<1> DEFINE S == compiled.calls
<1>1. /\ S \in Seq(Calls(protocol))
      /\ \A c \in Calls(protocol) : \E i \in DOMAIN S : S[i] = c
  BY ScheduleIsSorted DEF Planned
<1>2. pos \in 1..(Len(S) + 1) /\ outputs = {S[k] : k \in 1..(pos - 1)}
  BY DEF Followed
<1>3. pos > Len(S)
  OBVIOUS
<1> HIDE DEF S
<1>4. Len(S) \in Nat /\ DOMAIN S = 1..Len(S) /\ \A i \in 1..Len(S) : S[i] \in Calls(protocol)
  BY <1>1
<1>5. 1..(pos - 1) = DOMAIN S
  BY <1>2, <1>3, <1>4
<1> QED
  BY <1>1, <1>2, <1>4, <1>5

(* At every call the stages it depends on are complete, and every artifact *)
(* and output that it reads is there.                                      *)
LEMMA CallCanBegin ==
  ASSUME PlanAssumption, protocol \in Protocol, Planned, Followed,
         pc = "call", pos <= Len(compiled.calls)
  PROVE  CanBegin
<1> DEFINE p == protocol
           c == Current
<1>1. /\ c \in Calls(p) /\ c \notin outputs /\ outputs \subseteq Calls(p)
      /\ \A d \in Calls(p) : StageIndex(p, d) < StageIndex(p, c) => d \in outputs
  BY AtCurrent
<1>2. Begun = outputs
  BY DEF Begun
<1>3. /\ \A a \in Actor : Revises(p) => StageIndex(p, Initial(a)) < StageIndex(p, Revision(p))
      /\ \A ch \in p.channels :
           /\ From(ch) \in Actor
           /\ Consumer(p, ch) \in Calls(p)
           /\ StageIndex(p, Initial(From(ch))) < StageIndex(p, Consumer(p, ch))
      /\ \A j \in DependsOn(p, StageIndex(p, c)) : j < StageIndex(p, c)
  BY <1>1, StagesAreOrdered DEF Planned
<1>4. compiled.stage = [d \in Calls(p) |-> StageIndex(p, d)]
  BY DEF Planned
<1>5. StageReady
  <2>1. ASSUME NEW i \in DependsOn(p, compiled.stage[c]), NEW d \in Calls(p),
               compiled.stage[d] = i
        PROVE  d \in outputs
    <3>1. compiled.stage[c] = StageIndex(p, c) /\ compiled.stage[d] = StageIndex(p, d)
      BY <1>1, <1>4
    <3> QED
      BY <1>1, <1>3, <2>1, <3>1
  <2> QED
    BY <2>1 DEF StageReady
<1>6. /\ stored = {ch \in p.channels : Initial(From(ch)) \in outputs}
      /\ delivered = {<<ch, Consumer(p, ch)>> :
                        ch \in {x \in p.channels : Consumer(p, x) \in outputs}}
      /\ \A ch \in p.channels : readers[ch] = ReadersOf(p, ch, outputs)
  BY <1>2 DEF Followed
<1>7. \A ch \in p.channels : Initial(From(ch)) \in Calls(p)
  BY <1>3 DEF Calls
(* what the call is given itself *)
<1>8. ASSUME NEW ch \in DeliveredTo(p, c)
      PROVE  Readable(ReadArtifact(ch))
  <2>1. ch \in p.channels /\ Consumer(p, ch) = c
    BY <1>1, <1>8, ReadsAreGiven
  <2>2. ch \in stored
    BY <1>1, <1>3, <1>6, <1>7, <2>1
  <2>3. <<ch, c>> \notin delivered
    BY <1>1, <1>6
  <2>4. ReadArtifact(ch).kind = "artifact" /\ ReadArtifact(ch).ref = ch
    BY DEF ReadArtifact
  <2> QED
    BY <1>8, <2>2, <2>3, <2>4 DEF Readable
(* what a revision reads again *)
<1>9. ASSUME c = Revision(p), NEW ch \in DeliveredTo(p, Initial(p.final))
      PROVE  Readable(ReadArtifact(ch))
  <2>1. Revises(p) /\ p.final \in Actor
    BY <1>1, <1>9, ReadsAreGiven DEF Protocol
  <2>2. Initial(p.final) \in Calls(p) /\ Initial(p.final) # c
    BY <1>9, <2>1 DEF Calls, Initial, Revision
  <2>3. ch \in p.channels /\ Consumer(p, ch) = Initial(p.final)
    BY <2>2, ReadsAreGiven
  <2>4. StageIndex(p, Initial(p.final)) < StageIndex(p, c) /\ Initial(p.final) \in outputs
    BY <1>1, <1>3, <1>9, <2>1, <2>2
  <2>5. StageIndex(p, Initial(From(ch))) < StageIndex(p, c) /\ Initial(From(ch)) \in outputs
    BY <1>1, <1>3, <1>7, <1>9, <2>1, <2>3
  <2>6. ch \in stored
    BY <1>6, <2>3, <2>5
  <2>7. ch \notin DeliveredTo(p, c)
    BY <1>1, <2>2, <2>3, ReadsAreGiven
  <2>8. Initial(p.final) \in RetainedFrom(p, ch, c)
    <3> DEFINE d == [artifact |-> ch, producer |-> Initial(From(ch)),
                     consumer |-> Initial(p.final)]
    <3>1. d \in Deliveries(p)
      BY <2>3 DEF Deliveries
    <3>2. c[2] = "revision" /\ c[1] = p.final /\ Initial(p.final)[1] = p.final
      BY <1>9 DEF Revision, Initial
    <3>3. d.artifact = ch /\ d.consumer = Initial(p.final)
      OBVIOUS
    <3> HIDE DEF d
    <3> QED
      BY <2>4, <3>1, <3>2, <3>3 DEF RetainedFrom
  <2>9. <<ch, Initial(p.final)>> \in delivered
    BY <1>6, <2>3, <2>4
  <2>10. c \notin Range(readers[ch])
    <3>1. readers[ch] = <<>> \/ readers[ch] = <<Consumer(p, ch)>>
      BY <1>1, <1>6, <1>9, <2>3 DEF ReadersOf
    <3> QED
      BY <2>2, <2>3, <3>1 DEF Range
  <2>11. ReadArtifact(ch).kind = "artifact" /\ ReadArtifact(ch).ref = ch
    BY DEF ReadArtifact
  <2> QED
    BY <2>6, <2>7, <2>8, <2>9, <2>10, <2>11 DEF Readable
<1>10. ASSUME c = Revision(p)
       PROVE  Readable(ReadOutput(Initial(p.final)))
  <2>1. Revises(p) /\ p.final \in Actor
    BY <1>1, <1>10, ReadsAreGiven DEF Protocol
  <2>2. Initial(p.final) \in outputs
    BY <1>1, <1>3, <1>10, <2>1 DEF Calls
  <2>3. /\ ReadOutput(Initial(p.final)).kind = "prior_actor_output"
        /\ ReadOutput(Initial(p.final)).ref = Initial(p.final)
    BY DEF ReadOutput
  <2> QED
    BY <2>2, <2>3 DEF Readable
<1>11. \A r \in ContextReads(p, c) : Readable(r)
  BY <1>8, <1>9, <1>10 DEF ContextReads
<1> QED
  BY <1>5, <1>11 DEF CanBegin

-----------------------------------------------------------------------------
(* Steps that end the run, or change what no invariant but the types is    *)
(* about.                                                                  *)

(* The failures that are not the plan's.                                   *)
Failing == {"not_compiled", "provider_call_failed", "invalid_turn", "turns_exhausted",
            "artifact_write_failed", "patch_refused", "immutable_source_changed",
            "budget_reconciliation_failed"}

LEMMA InitHolds ==
  ASSUME PlanAssumption, RunAssumption, Init
  PROVE  RunInv
<1> USE DEF Init
<1>1. TypeOK
  <2>1. 0 \in 0..MaxModels /\ 1 \in 1..(Steps + 1) /\ 0 \in Versions
    BY DEF RunAssumption
  <2>2. <<>> \in Seq(Receipt)
    OBVIOUS
  <2>3. {models, tools, bytes} \subseteq Nat
    OBVIOUS
  <2>4. {violated, late, intact} \subseteq BOOLEAN
    BY Zenon
  <2> HIDE DEF Init
  <2> QED
    BY <2>1, <2>2, <2>3, <2>4 DEF Init, TypeOK
<1>2. ~Running /\ Fresh
  BY DEF Running, Fresh
<1>3. ReceiptsChain /\ Charged /\ Tested
  BY DEF ReceiptsChain, Charged, Tested, RunAssumption
<1>4. Ended
  BY DEF Ended, CompiledPlansRun, EveryArtifactIsRead, CompletedIsVerified, SuccessIsWithinLimits, Succeeded
<1> QED
  BY <1>1, <1>2, <1>3, <1>4 DEF RunInv

LEMMA FailureKeeps ==
  ASSUME RunInv, NEW code \in Failing, End(code), models' \in Nat,
         UNCHANGED <<protocol, hasTools>>,
         UNCHANGED <<plan, tools, bytes, violated, late, toolvars, step>>
  PROVE  RunInv'
<1> USE DEF plan, toolvars, End
<1>1. TypeOK'
  BY DEF RunInv, TypeOK
<1>2. ~Running' /\ Fresh'
  BY DEF Running, Fresh
<1>3. ReceiptsChain' /\ Charged'
  BY DEF RunInv, ReceiptsChain, Charged
<1>4. Tested'
  BY DEF Tested
<1>5. Ended'
  BY DEF Ended, CompiledPlansRun, EveryArtifactIsRead, CompletedIsVerified, SuccessIsWithinLimits,
         Succeeded, Failing
<1> QED
  BY <1>1, <1>2, <1>3, <1>4, <1>5 DEF RunInv

(* The end of a run that never stopped: its outcome is still open.         *)
LEMMA OpenKeepsEnded ==
  ASSUME RunInv, pc # "done", UNCHANGED outcome
  PROVE  Ended'
BY DEF RunInv, Ended, CompiledPlansRun, EveryArtifactIsRead, CompletedIsVerified, SuccessIsWithinLimits,
       Succeeded

LEMMA CompileKeeps ==
  ASSUME PlanAssumption, RunInv, Compile
  PROVE  RunInv'
<1>1. CASE ~Compiles(protocol)
  <2>1. models' \in Nat
    BY DEF Compile, ledger, RunInv, TypeOK
  <2>2. PICK code \in Failing : End(code)
    BY <1>1 DEF Compile, Failing
  <2> QED
    BY <2>1, <2>2, FailureKeeps DEF Compile, ledger
<1>2. CASE Compiles(protocol)
  <2>1. RuntimeAccepts(protocol)
    BY <1>2, CompiledIsAccepted DEF RunInv, TypeOK
  <2>2. /\ pc = "new" /\ pc' = "call" /\ UNCHANGED outcome
        /\ compiled' = [calls |-> Schedule(protocol), stage |->
                          [c \in Calls(protocol) |-> StageIndex(protocol, c)]]
        /\ UNCHANGED <<protocol, hasTools, plan, ledger, late, toolvars, step>>
    BY <1>2, <2>1 DEF Compile
  <2> USE DEF plan, ledger, toolvars
  <2>3. TypeOK'
    BY <2>2 DEF RunInv, TypeOK
  <2>4. Fresh'
    BY <2>2 DEF Fresh
  <2>5. Planned'
    BY <2>1, <2>2 DEF Planned
  <2>6. Followed'
    <3>1. /\ pos = 1 /\ outputs = {} /\ stored = {} /\ delivered = {}
          /\ \A ch \in Channels : readers[ch] = <<>>
      BY <2>2 DEF RunInv, Fresh
    <3>2. protocol.channels \subseteq Channels
      BY DEF RunInv, TypeOK, Protocol
    <3>3. Len(compiled'.calls) \in Nat
      <4>1. Schedule(protocol) \in Seq(Calls(protocol))
        BY <2>1, ScheduleIsSorted DEF RunInv, TypeOK
      <4> QED
        BY <2>2, <4>1
    <3>4. Begun' = {}
      BY <2>2, <3>1 DEF Begun
    <3>5. pos' \in 1..(Len(compiled'.calls) + 1)
      BY <2>2, <3>1, <3>3
    <3>6. outputs' = {compiled'.calls[k] : k \in 1..(pos' - 1)}
      BY <2>2, <3>1
    <3>7. \A ch \in protocol.channels : readers'[ch] = ReadersOf(protocol, ch, {})
      BY <2>2, <3>1, <3>2 DEF ReadersOf
    <3> QED
      BY <2>2, <3>1, <3>4, <3>5, <3>6, <3>7 DEF Followed
  <2>7. ReceiptsChain' /\ Charged'
    BY <2>2 DEF RunInv, ReceiptsChain, Charged
  <2>8. Tested'
    BY <2>2 DEF RunInv, Tested
  <2>9. Ended'
    BY <2>2, OpenKeepsEnded
  <2> QED
    BY <2>3, <2>4, <2>5, <2>6, <2>7, <2>8, <2>9 DEF RunInv
<1> QED
  BY <1>1, <1>2

LEMMA QuietKeeps ==
  ASSUME RunInv, pc # "done", late' \in BOOLEAN, intact' \in BOOLEAN,
         UNCHANGED <<contract, pc, plan, ledger, work, receipts, step, outcome>>
  PROVE  RunInv'
<1> USE DEF plan, contract, ledger
<1>1. TypeOK'
  BY DEF RunInv, TypeOK
<1>2. Fresh' /\ (Running => Planned /\ Followed)'
  <2>1. Current' = Current /\ Begun' = Begun
    BY DEF Current, Begun
  <2> QED
    BY <2>1 DEF RunInv, Running, Planned, Followed, Fresh
<1>3. ReceiptsChain' /\ Charged'
  BY DEF RunInv, ReceiptsChain, Charged
<1>4. Tested'
  BY DEF RunInv, Tested, Verified
<1>5. Ended'
  BY OpenKeepsEnded
<1> QED
  BY <1>1, <1>2, <1>3, <1>4, <1>5 DEF RunInv

LEMMA AppendToOne ==
  ASSUME NEW a, NEW b
  PROVE  Append(<<a>>, b) = <<a, b>>
<1>1. <<a>> \in Seq({a, b}) /\ Len(<<a>>) = 1
  OBVIOUS
<1>2. Append(<<a>>, b) \in Seq({a, b}) /\ Len(Append(<<a>>, b)) = 2
  BY <1>1
<1>3. Append(<<a>>, b)[1] = a /\ Append(<<a>>, b)[2] = b
  BY <1>1
<1>4. <<a, b>> \in Seq({a, b}) /\ Len(<<a, b>>) = 2 /\ <<a, b>>[1] = a /\ <<a, b>>[2] = b
  OBVIOUS
<1>5. \A i \in 1..2 : Append(<<a>>, b)[i] = <<a, b>>[i]
  <2>1. \A i \in 1..2 : i = 1 \/ i = 2
    OBVIOUS
  <2> QED
    BY <1>3, <1>4, <2>1
<1> QED
  BY <1>2, <1>4, <1>5, SeqEqual

-----------------------------------------------------------------------------
(* The steps of the plan.                                                  *)

(* Reading the context of the current call: it delivers what the call      *)
(* consumes, and a revision reads the artifacts of its actor again.        *)
LEMMA ReadersFollow ==
  ASSUME PlanAssumption, protocol \in Protocol, Planned, Followed,
         pc = "call", pos <= Len(compiled.calls), NEW ch \in protocol.channels
  PROVE  ReadersOf(protocol, ch, outputs \cup {Current}) =
           IF ch \in ArtifactsRead(Current)
           THEN Append(ReadersOf(protocol, ch, outputs), Current)
           ELSE ReadersOf(protocol, ch, outputs)
<1> DEFINE p == protocol
           c == Current
<1>1. /\ c \in Calls(p) /\ c \notin outputs /\ outputs \subseteq Calls(p)
      /\ \A d \in Calls(p) : StageIndex(p, d) < StageIndex(p, c) => d \in outputs
      /\ \A d \in outputs : ~(StageIndex(p, c) < StageIndex(p, d))
  BY AtCurrent
<1>2. p.final \in Actor
  BY DEF Protocol
<1>3. Revises(p) => StageIndex(p, Initial(p.final)) < StageIndex(p, Revision(p))
  BY <1>2, StagesAreOrdered DEF Planned
<1>4. /\ Rereads(p, ch) <=> Revises(p) /\ Consumer(p, ch) = Initial(p.final)
      /\ Initial(p.final) \in Calls(p) /\ Initial(p.final) # Revision(p)
      /\ Revises(p) => Revision(p) \in Calls(p)
  BY RereadsAtFinal
<1>5. c = Revision(p) => Revises(p)
  BY <1>1, ReadsAreGiven
<1>6. ch \in ArtifactsRead(c) <=>
        Consumer(p, ch) = c \/ (c = Revision(p) /\ Consumer(p, ch) = Initial(p.final))
  BY <1>1, <1>4, ReadArtifacts, ReadsAreGiven
<1> HIDE DEF p, c
<1>7. CASE Consumer(p, ch) = c
  <2>1. ReadersOf(p, ch, outputs) = <<>>
    BY <1>1, <1>7 DEF ReadersOf
  <2>2. Rereads(p, ch) => Revision(p) \notin outputs \cup {c}
    BY <1>1, <1>3, <1>4, <1>7
  <2>3. ReadersOf(p, ch, outputs \cup {c}) = <<c>>
    BY <1>7, <2>2 DEF ReadersOf
  <2>4. Append(<<>>, c) = <<c>>
    OBVIOUS
  <2> QED
    BY <1>6, <1>7, <2>1, <2>3, <2>4 DEF p, c
<1>8. CASE Consumer(p, ch) # c /\ c = Revision(p) /\ Consumer(p, ch) = Initial(p.final)
  <2>1. Rereads(p, ch) /\ Consumer(p, ch) \in outputs
    BY <1>1, <1>3, <1>4, <1>5, <1>8
  <2>2. ReadersOf(p, ch, outputs) = <<Consumer(p, ch)>>
    BY <1>1, <1>8, <2>1 DEF ReadersOf
  <2>3. ReadersOf(p, ch, outputs \cup {c}) = <<Consumer(p, ch), c>>
    BY <1>8, <2>1 DEF ReadersOf
  <2>4. Append(<<Consumer(p, ch)>>, c) = <<Consumer(p, ch), c>>
    BY AppendToOne
  <2> QED
    BY <1>6, <1>8, <2>2, <2>3, <2>4 DEF p, c
<1>9. CASE Consumer(p, ch) # c /\ ~(c = Revision(p) /\ Consumer(p, ch) = Initial(p.final))
  <2>1. Consumer(p, ch) \in outputs \cup {c} <=> Consumer(p, ch) \in outputs
    BY <1>9
  <2>2. Rereads(p, ch) =>
          (Revision(p) \in outputs \cup {c} <=> Revision(p) \in outputs)
    BY <1>4, <1>9
  <2>3. ReadersOf(p, ch, outputs \cup {c}) = ReadersOf(p, ch, outputs)
    BY <2>1, <2>2 DEF ReadersOf
  <2> QED
    BY <1>6, <1>9, <2>3 DEF p, c
<1> QED
  BY <1>7, <1>8, <1>9

LEMMA BeginCallKeeps ==
  ASSUME PlanAssumption, RunAssumption, RunInv, BeginCall
  PROVE  RunInv'
<1> DEFINE p == protocol
<1>1. pc = "call" /\ pos <= Len(compiled.calls)
  BY DEF BeginCall
<1>2. Planned /\ Followed /\ TypeOK /\ protocol \in Protocol
  BY <1>1 DEF RunInv, Running, TypeOK
<1>3. CanBegin
  BY <1>1, <1>2, CallCanBegin
<1>4. /\ delivered' = delivered \cup {<<ch, Current>> : ch \in DeliveredTo(p, Current)}
      /\ readers' = [ch \in Channels |->
           IF ch \in ArtifactsRead(Current) THEN Append(readers[ch], Current)
           ELSE readers[ch]]
      /\ pc' = "turn" /\ turn' = 0 /\ UNCHANGED outcome
      /\ UNCHANGED <<protocol, hasTools, compiled, pos, outputs, stored, patch>>
      /\ UNCHANGED <<models, tools, bytes, violated, late, work, intact, receipts, step>>
  BY <1>3 DEF BeginCall, contract, ledger, toolvars
<1>5. Current \in Calls(p) /\ Current \notin outputs
  BY <1>1, <1>2, AtCurrent
<1>6. Current' = Current /\ Begun = outputs /\ Begun' = outputs \cup {Current}
  BY <1>1, <1>4 DEF Current, Begun
<1>7. TypeOK'
  <2>1. turn' \in 0..MaxModels
    BY <1>4 DEF RunAssumption
  <2> QED
    BY <1>2, <1>4, <2>1 DEF TypeOK
<1>8. Planned'
  BY <1>2, <1>4 DEF Planned
<1>9. delivered' = {<<ch, Consumer(p, ch)>> :
                      ch \in {x \in p.channels : Consumer(p, x) \in Begun'}}
  <2>1. delivered = {<<ch, Consumer(p, ch)>> :
                       ch \in {x \in p.channels : Consumer(p, x) \in outputs}}
    BY <1>2, <1>6 DEF Followed
  <2>2. DeliveredTo(p, Current) = {ch \in p.channels : Consumer(p, ch) = Current}
    BY <1>2, <1>5, ReadsAreGiven
  <2> QED
    BY <1>4, <1>6, <2>1, <2>2
<1>10. \A ch \in p.channels : readers'[ch] = ReadersOf(p, ch, Begun')
  <2>1. \A ch \in p.channels : ch \in Channels /\ readers[ch] = ReadersOf(p, ch, outputs)
    BY <1>2, <1>6 DEF Followed, Protocol
  <2>2. \A ch \in p.channels :
          ReadersOf(p, ch, outputs \cup {Current}) =
            IF ch \in ArtifactsRead(Current)
            THEN Append(ReadersOf(p, ch, outputs), Current)
            ELSE ReadersOf(p, ch, outputs)
    BY <1>1, <1>2, ReadersFollow
  <2> QED
    BY <1>4, <1>6, <2>1, <2>2
<1>11. Followed'
  BY <1>1, <1>2, <1>4, <1>9, <1>10 DEF Followed
<1>12. ReceiptsChain' /\ Charged' /\ Fresh'
  BY <1>4 DEF RunInv, ReceiptsChain, Charged, Fresh
<1>13. Tested'
  BY <1>1, <1>4 DEF RunInv, Tested
<1>14. Ended'
  BY <1>1, <1>4, OpenKeepsEnded
<1> QED
  BY <1>7, <1>8, <1>11, <1>12, <1>13, <1>14 DEF RunInv

(* What the current call writes is not in the store yet.                   *)
LEMMA WritesAreNew ==
  ASSUME PlanAssumption, RunInv, pc = "turn"
  PROVE  /\ Planned /\ Followed /\ protocol \in Protocol /\ pos <= Len(compiled.calls)
         /\ Current \in Calls(protocol) /\ Current \notin outputs
         /\ outputs \subseteq Calls(protocol)
         /\ Writes(protocol, Current) \cap stored = {}
<1>1. Planned /\ Followed /\ protocol \in Protocol /\ pos <= Len(compiled.calls)
  BY DEF RunInv, Running, TypeOK, Followed
<1>2. Current \in Calls(protocol) /\ Current \notin outputs /\ outputs \subseteq Calls(protocol)
  BY <1>1, AtCurrent
<1>3. Writes(protocol, Current) = {ch \in protocol.channels : Initial(From(ch)) = Current}
  BY <1>1, <1>2, ReadsAreGiven
<1>4. stored = {ch \in protocol.channels : Initial(From(ch)) \in outputs}
  BY <1>1 DEF Followed
<1> QED
  BY <1>1, <1>2, <1>3, <1>4

LEMMA TerminateKeeps ==
  ASSUME PlanAssumption, RunInv, NEW v \in Versions, Terminate(v)
  PROVE  RunInv'
<1> DEFINE p == protocol
<1>1. pc = "turn" /\ TypeOK
  BY DEF Terminate, RunInv
<1>2. /\ Planned /\ Followed /\ p \in Protocol /\ pos <= Len(compiled.calls)
      /\ Current \in Calls(p)
      /\ Writes(p, Current) = {ch \in p.channels : Initial(From(ch)) = Current}
  BY <1>1, WritesAreNew, ReadsAreGiven
<1>3. /\ v = 0 <=> Current # FinalCall(p)
      /\ models' = models + 1
      /\ stored' = stored \cup Writes(p, Current)
      /\ outputs' = outputs \cup {Current}
      /\ patch' = IF v = 0 THEN patch ELSE v
      /\ pc' = "call" /\ pos' = pos + 1
      /\ UNCHANGED <<protocol, hasTools, compiled, turn, delivered, readers, tools>>
      /\ UNCHANGED <<bytes, violated, late, work, intact, receipts, step, outcome>>
  BY DEF Terminate, contract, toolvars
<1>4. pos \in Nat \ {0} /\ Len(compiled.calls) \in Nat
  <2>1. Schedule(p) \in Seq(Calls(p))
    BY <1>2, ScheduleIsSorted DEF Planned
  <2> QED
    BY <1>1, <1>2, <2>1 DEF TypeOK, Planned
<1>5. Begun = outputs \cup {Current} /\ Begun' = Begun
  BY <1>1, <1>3 DEF Begun
<1>6. TypeOK'
  <2>1. stored' \subseteq Channels
    BY <1>1, <1>2, <1>3 DEF TypeOK, Protocol
  <2>2. models' \in Nat /\ pos' \in Nat \ {0}
    BY <1>1, <1>3, <1>4 DEF TypeOK
  <2> QED
    BY <1>1, <1>3, <2>1, <2>2 DEF TypeOK
<1>7. Planned'
  BY <1>2, <1>3 DEF Planned
<1>8. Followed'
  <2>1. pos' \in 1..(Len(compiled'.calls) + 1)
    BY <1>2, <1>3, <1>4
  <2>2. outputs' = {compiled'.calls[k] : k \in 1..(pos' - 1)}
    <3>1. outputs = {compiled.calls[k] : k \in 1..(pos - 1)}
      BY <1>2 DEF Followed
    <3>2. \A k : k \in 1..(pos' - 1) <=> k \in 1..(pos - 1) \/ k = pos
      BY <1>3, <1>4
    <3> QED
      BY <1>3, <3>1, <3>2 DEF Current
  <2>3. stored' = {ch \in p.channels : Initial(From(ch)) \in outputs'}
    BY <1>2, <1>3 DEF Followed
  <2>4. FinalCall(p) \in outputs' => patch' # 0
    BY <1>2, <1>3 DEF Followed
  <2>5. delivered' = {<<ch, Consumer(p, ch)>> :
                        ch \in {x \in p.channels : Consumer(p, x) \in Begun'}}
    BY <1>2, <1>3, <1>5 DEF Followed
  <2>6. \A ch \in p.channels : readers'[ch] = ReadersOf(p, ch, Begun')
    BY <1>2, <1>3, <1>5 DEF Followed
  <2> QED
    BY <1>3, <2>1, <2>2, <2>3, <2>4, <2>5, <2>6 DEF Followed
<1>9. ReceiptsChain' /\ Charged' /\ Fresh'
  BY <1>3 DEF RunInv, ReceiptsChain, Charged, Fresh
<1>10. Tested'
  BY <1>1, <1>3 DEF RunInv, Tested
<1>11. Ended'
  BY <1>1, <1>3, OpenKeepsEnded
<1> QED
  BY <1>6, <1>7, <1>8, <1>9, <1>10, <1>11 DEF RunInv

LEMMA WriteFailsKeeps ==
  ASSUME PlanAssumption, RunInv, WriteFails
  PROVE  RunInv'
<1>1. pc = "turn" /\ models' = models + 1
      /\ UNCHANGED <<protocol, hasTools>>
      /\ UNCHANGED <<plan, tools, bytes, violated, late, toolvars, step>>
  BY DEF WriteFails, contract
<1>2. Writes(protocol, Current) \cap stored = {}
  BY <1>1, WritesAreNew
<1>3. End("artifact_write_failed")
  BY <1>2 DEF WriteFails
<1>4. models' \in Nat
  BY <1>1 DEF RunInv, TypeOK
<1> QED
  BY <1>1, <1>3, <1>4, FailureKeeps DEF Failing

(* At the end of the plan every call has ended, every artifact was         *)
(* delivered, and there is a patch.                                        *)
LEMMA PlanIsThrough ==
  ASSUME PlanAssumption, RunInv, pc \in {"call", "verify"}, pos > Len(compiled.calls)
  PROVE  /\ AllDelivered /\ patch # 0
         /\ \A ch \in protocol.channels :
              readers[ch] = IF Rereads(protocol, ch)
                            THEN <<Consumer(protocol, ch), Revision(protocol)>>
                            ELSE <<Consumer(protocol, ch)>>
<1> DEFINE p == protocol
<1>1. Planned /\ Followed /\ p \in Protocol
  BY DEF RunInv, Running, TypeOK
<1>2. outputs = Calls(p) /\ Begun = Calls(p)
  BY <1>1, AtTheEnd DEF Begun
<1>3. \A ch \in p.channels : Consumer(p, ch) \in Calls(p)
  BY <1>1, StagesAreOrdered DEF Planned
<1>4. AllDelivered
  <2>1. delivered = {<<ch, Consumer(p, ch)>> : ch \in p.channels}
    BY <1>1, <1>2, <1>3 DEF Followed
  <2>2. \A x : x \in {<<d.artifact, d.consumer>> : d \in Deliveries(p)} <=>
                 \E ch \in p.channels : x = <<ch, Consumer(p, ch)>>
    BY DeliveriesAre
  <2> QED
    BY <2>1, <2>2 DEF AllDelivered
<1>5. patch # 0
  <2>1. FinalCall(p) \in Calls(p)
    BY <1>1 DEF Planned, RuntimeAccepts
  <2> QED
    BY <1>1, <1>2, <2>1 DEF Followed
<1>6. ASSUME NEW ch \in p.channels
      PROVE  readers[ch] = IF Rereads(p, ch) THEN <<Consumer(p, ch), Revision(p)>>
                           ELSE <<Consumer(p, ch)>>
  <2>1. Rereads(p, ch) => Revision(p) \in Calls(p)
    BY DEF Rereads, Calls
  <2>2. readers[ch] = ReadersOf(p, ch, Calls(p))
    BY <1>1, <1>2 DEF Followed
  <2> QED
    BY <1>3, <2>1, <2>2 DEF ReadersOf
<1> QED
  BY <1>4, <1>5, <1>6

-----------------------------------------------------------------------------
(* Tools, and the end of the run.                                          *)

LEMMA OutputLimitType ==
  ASSUME RunAssumption, bytes \in Nat, NEW t \in Tools
  PROVE  OutputLimit(t) \in Nat
<1>1. PerTool[t] \in Nat /\ MaxBytes - bytes \in Int
  BY DEF RunAssumption
<1>2. MaxOf(0, MaxBytes - bytes) \in Int
  BY <1>1 DEF MaxOf
<1>3. MinOf(PerTool[t], MaxOf(0, MaxBytes - bytes)) \in Int
  BY <1>1, <1>2 DEF MinOf
<1>4. MaxOf(1, MinOf(PerTool[t], MaxOf(0, MaxBytes - bytes))) \in Nat
  <2> DEFINE m == MinOf(PerTool[t], MaxOf(0, MaxBytes - bytes))
  <2> HIDE DEF m
  <2> QED
    BY <1>3 DEF MaxOf, m
<1> QED
  BY <1>4 DEF OutputLimit

LEMMA ExecutionType ==
  ASSUME RunAssumption, TypeOK, NEW t \in Tools, NEW x \in Executions(t)
  PROVE  /\ x.size \in Nat /\ x.work \in Versions
         /\ x.ok \in BOOLEAN /\ x.passed \in BOOLEAN
         /\ t = "public_test" /\ x.ok => x.work = work
<1>1. work \in Versions /\ Versions \subseteq Nat /\ Sizes \subseteq Nat /\ ErrorSize \in Nat
  BY DEF RunAssumption, TypeOK
<1>2. CASE x \in Failures(t)
  BY <1>1, <1>2 DEF Failures
<1>3. CASE x \notin Failures(t)
  BY <1>1, <1>3 DEF Executions
<1> QED
  BY <1>2, <1>3

(* An invocation adds one receipt, which starts at the working copy's      *)
(* content and ends where the execution left it.                           *)
LEMMA InvokeGives ==
  ASSUME RunAssumption, TypeOK, NEW t \in Tools, NEW s \in 0..Steps, Invoke(t, s),
         Caller(s) \in Actor \X {"initial", "revision"}
  PROVE  \E r \in Receipt :
           /\ receipts' = Append(receipts, r)
           /\ r.step = s /\ r.before = work /\ r.after = work'
           /\ t = "public_test" /\ r.passed => work' = work
           /\ work' \in Versions
           /\ tools' \in Nat /\ bytes' \in Nat /\ violated' \in BOOLEAN
           /\ ~violated' =>
                /\ ~violated
                /\ bytes' <= MaxBytes \/ bytes' = bytes
                /\ r.charged => r.size <= r.limit
<1>1. /\ work \in Versions /\ ErrorSize \in Nat /\ tools \in Nat /\ bytes \in Nat
      /\ MaxBytes \in Nat
  BY DEF RunAssumption, TypeOK
<1>2. violated \in BOOLEAN
  BY DEF TypeOK
<1>3. CASE ~CanReserveTool(t)
  <2> DEFINE r == Rejected(s)
  <2>1. receipts' = Append(receipts, r) /\ UNCHANGED <<tools, bytes, violated, work>>
    BY <1>3 DEF Invoke
  <2>2. r \in Receipt
    BY <1>1 DEF Rejected, Receipt, Statuses
  <2>3. r.step = s /\ r.before = work /\ r.after = work /\ r.charged = FALSE
    BY DEF Rejected
  <2> HIDE DEF r
  <2> QED
    BY <1>1, <1>2, <2>1, <2>2, <2>3
<1>4. CASE CanReserveTool(t)
  <2>1. PICK x \in Executions(t) :
          /\ ChargeTool(ReceiptOf(s, x, OutputLimit(t)).limit,
                        ReceiptOf(s, x, OutputLimit(t)).size)
          /\ receipts' = Append(receipts, ReceiptOf(s, x, OutputLimit(t)))
          /\ work' = x.work
    BY <1>4 DEF Invoke
  <2>2. OutputLimit(t) \in Nat
    BY <1>1, OutputLimitType
  <2>3. /\ x.size \in Nat /\ x.work \in Versions
        /\ x.ok \in BOOLEAN /\ x.passed \in BOOLEAN
        /\ t = "public_test" /\ x.ok => x.work = work
    BY ExecutionType
  <2> DEFINE limit == OutputLimit(t)
             r == ReceiptOf(s, x, limit)
  <2>4. r.size \in Nat /\ r.limit \in Nat
    BY <1>1, <2>2, <2>3 DEF ReceiptOf
  <2>5. r \in Receipt
    <3> DEFINE good == x.ok /\ x.passed /\ ~(x.size > limit)
               status == IF x.size > limit THEN "output_limit"
                         ELSE IF x.ok /\ x.passed THEN "succeeded" ELSE "failed"
               size == IF x.size > limit THEN ErrorSize ELSE x.size
    <3>1. status \in Statuses /\ size \in Nat
      BY <1>1, <2>3 DEF Statuses
    <3>2. r = [call |-> Caller(s), step |-> s, charged |-> TRUE, limit |-> limit,
               passed |-> good, status |-> status, size |-> size,
               before |-> work, after |-> x.work]
      BY DEF ReceiptOf
    <3>3. good \in BOOLEAN
      OBVIOUS
    <3> HIDE DEF good, status, size, r, limit
    <3> QED
      BY <1>1, <2>2, <2>3, <3>1, <3>2, <3>3 DEF Receipt, limit
  <2>6. /\ r.step = s /\ r.before = work /\ r.after = x.work
        /\ r.passed => x.ok
    BY DEF ReceiptOf
  <2> HIDE DEF r, limit
  <2>7. /\ tools' = tools + 1 /\ bytes' = bytes + r.size
        /\ violated' = (violated \/ r.size > r.limit \/ bytes + r.size > MaxBytes)
    BY <2>1 DEF ChargeTool, r, limit
  <2>8. violated' \in BOOLEAN
    BY <2>7, Zenon
  <2>9. tools' \in Nat /\ bytes' \in Nat
    BY <1>1, <2>4, <2>7
  <2>10. ~violated' => ~violated /\ ~(r.size > r.limit) /\ ~(bytes + r.size > MaxBytes)
    BY <2>7, Zenon
  <2>11. ~violated' => ~violated /\ r.size <= r.limit /\ bytes' <= MaxBytes
    BY <1>1, <2>4, <2>7, <2>10
  <2>12. receipts' = Append(receipts, r) /\ work' = x.work
    BY <2>1 DEF r, limit
  <2> QED
    BY <2>3, <2>5, <2>6, <2>8, <2>9, <2>11, <2>12
<1> QED
  BY <1>3, <1>4

(* The books after an invocation.                                          *)
LEMMA InvokeKeeps ==
  ASSUME RunAssumption, RunInv, NEW t \in Tools, NEW s \in 0..Steps, Invoke(t, s),
         Caller(s) \in Actor \X {"initial", "revision"}, hasTools, UNCHANGED hasTools
  PROVE  /\ receipts' \in Seq(Receipt) /\ work' \in Versions
         /\ {tools', bytes'} \subseteq Nat /\ violated' \in BOOLEAN
         /\ ReceiptsChain' /\ Charged'
         /\ \E r \in Receipt :
              /\ receipts' = Append(receipts, r)
              /\ r.step = s /\ r.before = work /\ r.after = work'
              /\ t = "public_test" /\ r.passed => work' = work
<1>1. TypeOK /\ ReceiptsChain /\ Charged
  BY DEF RunInv
<1>2. PICK r \in Receipt :
        /\ receipts' = Append(receipts, r)
        /\ r.step = s /\ r.before = work /\ r.after = work'
        /\ t = "public_test" /\ r.passed => work' = work
        /\ work' \in Versions
        /\ tools' \in Nat /\ bytes' \in Nat /\ violated' \in BOOLEAN
        /\ ~violated' =>
             /\ ~violated
             /\ bytes' <= MaxBytes \/ bytes' = bytes
             /\ r.charged => r.size <= r.limit
  BY <1>1, InvokeGives
<1> DEFINE n == Len(receipts)
<1>3. receipts \in Seq(Receipt) /\ n \in Nat /\ DOMAIN receipts = 1..n
  BY <1>1 DEF TypeOK
<1>4. /\ receipts' \in Seq(Receipt) /\ Len(receipts') = n + 1
      /\ DOMAIN receipts' = 1..(n + 1)
      /\ \A i \in 1..n : receipts'[i] = receipts[i]
      /\ receipts'[n + 1] = r
  BY <1>2, <1>3
<1> HIDE DEF n
<1>5. ReceiptsChain'
  <2>1. \A i \in 1..n : receipts[i].before = IF i - 1 = 0 THEN 0 ELSE receipts[i - 1].after
    BY <1>1, <1>3 DEF ReceiptsChain
  <2>2. work = IF n = 0 THEN 0 ELSE receipts[n].after
    BY <1>1 DEF ReceiptsChain, n
  <2>3. ASSUME NEW i \in 1..(n + 1)
        PROVE  receipts'[i].before = IF i - 1 = 0 THEN 0 ELSE receipts'[i - 1].after
    <3>1. CASE i \in 1..n
      <4>1. i - 1 = 0 \/ i - 1 \in 1..n
        BY <1>3, <3>1
      <4> QED
        BY <1>4, <2>1, <3>1, <4>1
    <3>2. CASE i = n + 1
      <4>1. i - 1 = n /\ (n = 0 \/ n \in 1..n)
        BY <1>3, <3>2
      <4> QED
        BY <1>2, <1>4, <2>2, <3>2, <4>1
    <3> QED
      BY <1>3, <3>1, <3>2
  <2>4. work' = IF n + 1 = 0 THEN 0 ELSE receipts'[n + 1].after
    BY <1>2, <1>3, <1>4
  <2> QED
    BY <1>4, <2>3, <2>4 DEF ReceiptsChain
<1>6. Charged'
  <2>1. ~violated => bytes <= MaxBytes
    BY <1>1 DEF Charged
  <2>2. ~violated' => bytes' <= MaxBytes
    BY <1>2, <2>1
  <2>3. ASSUME ~violated', NEW i \in DOMAIN receipts', receipts'[i].charged
        PROVE  receipts'[i].size <= receipts'[i].limit
    <3>1. i \in 1..n \/ i = n + 1
      BY <1>3, <1>4
    <3> QED
      BY <1>1, <1>2, <1>3, <1>4, <2>3, <3>1 DEF Charged
  <2> QED
    BY <2>2, <2>3 DEF Charged
<1> QED
  BY <1>2, <1>4, <1>5, <1>6

LEMMA RequestToolKeeps ==
  ASSUME PlanAssumption, RunAssumption, RunInv, NEW t \in Tools, RequestTool(t)
  PROVE  RunInv'
<1>1. /\ hasTools /\ pc = "turn" /\ turn < MaxModels /\ Invoke(t, 0)
      /\ models' = models + 1 /\ turn' = turn + 1
      /\ UNCHANGED <<contract, pc, pos, outputs, stored, delivered, readers, patch,
                     late, intact, step, outcome>>
  BY DEF RequestTool
<1>2. TypeOK /\ Planned /\ Followed /\ Current \in Calls(protocol) /\ protocol \in Protocol
  BY <1>1, WritesAreNew DEF RunInv
<1>3. Caller(0) \in Actor \X {"initial", "revision"} /\ 0 \in 0..Steps
  BY <1>2, ReadsAreGiven DEF Caller, RunAssumption
<1> USE DEF contract
<1>4. /\ receipts' \in Seq(Receipt) /\ work' \in Versions
      /\ {tools', bytes'} \subseteq Nat /\ violated' \in BOOLEAN
      /\ ReceiptsChain' /\ Charged'
      /\ \E r \in Receipt : receipts' = Append(receipts, r) /\ r.step = 0
  BY <1>1, <1>3, InvokeKeeps
<1>5. TypeOK'
  <2>1. turn' \in 0..MaxModels /\ models' \in Nat
    BY <1>1, <1>2 DEF TypeOK, RunAssumption
  <2> QED
    BY <1>1, <1>2, <1>4, <2>1 DEF TypeOK
<1>6. Planned' /\ Followed' /\ Fresh'
  <2>1. Current' = Current /\ Begun' = Begun
    BY <1>1 DEF Current, Begun
  <2> QED
    BY <1>1, <1>2, <2>1 DEF Planned, Followed, Fresh
<1>7. Tested'
  <2>1. step = 1 /\ \A i \in DOMAIN receipts : receipts[i].step = 0
    BY <1>1 DEF RunInv, Tested
  <2>2. receipts \in Seq(Receipt)
    BY <1>2 DEF TypeOK
  <2>3. \A i \in DOMAIN receipts' : receipts'[i].step = 0
    BY <1>4, <2>1, <2>2
  <2> QED
    BY <1>1, <2>1, <2>3 DEF Tested
<1>8. Ended'
  BY <1>1, OpenKeepsEnded
<1> QED
  BY <1>4, <1>5, <1>6, <1>7, <1>8 DEF RunInv

(* A step of the terminal verification.  When it passes it has left the    *)
(* working copy as it was, and when all passed so far that is the patch.   *)
LEMMA VerifyStepKeeps ==
  ASSUME PlanAssumption, RunAssumption, RunInv, VerifyStep
  PROVE  RunInv'
<1>1. /\ pc = "verify" /\ step <= Steps /\ Invoke("public_test", step)
      /\ step' = step + 1
      /\ UNCHANGED <<contract, pc, plan, models, late, intact, outcome>>
  BY DEF VerifyStep
<1>2. TypeOK /\ Planned /\ Followed /\ protocol \in Protocol /\ hasTools
  BY <1>1 DEF RunInv, Running, TypeOK, Tested
<1>3. step \in 1..Steps /\ step \in 0..Steps /\ Steps \in Nat
  BY <1>1, <1>2 DEF TypeOK, RunAssumption
<1>4. Caller(step) \in Actor \X {"initial", "revision"}
  <2>1. FinalCall(protocol) \in Calls(protocol)
    BY <1>2 DEF Planned, RuntimeAccepts
  <2> QED
    BY <1>2, <1>3, <2>1, ReadsAreGiven DEF Caller
<1> USE DEF contract, plan
<1>5. "public_test" \in Tools
  BY DEF RunAssumption
<1>6. /\ receipts' \in Seq(Receipt) /\ work' \in Versions
      /\ {tools', bytes'} \subseteq Nat /\ violated' \in BOOLEAN
      /\ ReceiptsChain' /\ Charged'
      /\ \E r \in Receipt :
           /\ receipts' = Append(receipts, r)
           /\ r.step = step /\ r.before = work /\ r.after = work'
           /\ r.passed => work' = work
  BY <1>1, <1>2, <1>3, <1>4, <1>5, InvokeKeeps
<1>7. TypeOK'
  <2>1. step' \in 1..(Steps + 1)
    BY <1>1, <1>3
  <2> QED
    BY <1>1, <1>2, <1>6, <2>1 DEF TypeOK
<1>8. Planned' /\ Followed' /\ Fresh'
  <2>1. Current' = Current /\ Begun' = Begun
    BY <1>1 DEF Current, Begun
  <2> QED
    BY <1>1, <1>2, <2>1 DEF Planned, Followed, Fresh
<1>9. Tested'
  <2>1. PICK r \in Receipt :
          /\ receipts' = Append(receipts, r)
          /\ r.step = step /\ r.before = work /\ r.after = work'
          /\ r.passed => work' = work
    BY <1>6
  <2> DEFINE n == Len(receipts)
  <2>2. receipts \in Seq(Receipt) /\ n \in Nat /\ DOMAIN receipts = 1..n
    BY <1>2 DEF TypeOK
  <2>3. /\ DOMAIN receipts' = 1..(n + 1)
        /\ \A i \in 1..n : receipts'[i] = receipts[i]
        /\ receipts'[n + 1] = r
    BY <2>1, <2>2
  <2> HIDE DEF n
  <2>4. /\ \A s \in 1..(step - 1) : \E i \in DOMAIN receipts : receipts[i].step = s
        /\ Verified =>
             /\ work = patch
             /\ \A i \in DOMAIN receipts : receipts[i].step > 0 =>
                  receipts[i].before = patch /\ receipts[i].after = patch
    BY <1>1 DEF RunInv, Tested
  <2>5. ASSUME NEW s \in 1..(step' - 1)
        PROVE  \E i \in DOMAIN receipts' : receipts'[i].step = s
    <3>1. CASE s = step
      <4>1. n + 1 \in DOMAIN receipts' /\ receipts'[n + 1].step = s
        BY <2>1, <2>2, <2>3, <3>1
      <4> QED
        BY <4>1
    <3>2. CASE s # step
      <4>1. s \in 1..(step - 1)
        BY <1>1, <1>3, <3>2
      <4>2. PICK i \in 1..n : receipts[i].step = s
        BY <2>2, <2>4, <4>1
      <4> QED
        BY <2>2, <2>3, <4>2
    <3> QED
      BY <3>1, <3>2
  <2>6. ASSUME Verified'
        PROVE  /\ work' = patch
               /\ \A i \in DOMAIN receipts' : receipts'[i].step > 0 =>
                    receipts'[i].before = patch /\ receipts'[i].after = patch
    <3>1. Verified
      BY <2>2, <2>3, <2>6 DEF Verified
    <3>2. r.passed
      BY <1>3, <2>1, <2>2, <2>3, <2>6 DEF Verified
    <3>3. work = patch /\ work' = patch /\ r.before = patch /\ r.after = patch
      BY <2>1, <2>4, <3>1, <3>2
    <3>4. \A i \in DOMAIN receipts' : i \in 1..n \/ i = n + 1
      BY <2>2, <2>3
    <3> QED
      BY <2>2, <2>3, <2>4, <3>1, <3>3, <3>4
  <2> QED
    BY <1>1, <1>2, <2>5, <2>6 DEF Tested
<1>10. Ended'
  BY <1>1, OpenKeepsEnded
<1> QED
  BY <1>6, <1>7, <1>8, <1>9, <1>10 DEF RunInv

(* The end of a run that handed over a patch.                              *)
LEMMA SuccessKeeps ==
  ASSUME PlanAssumption, RunAssumption, RunInv,
         pc \in {"call", "verify"}, pos > Len(compiled.calls),
         NEW code \in {"patch_ready", "completed", "public_verification_failed"},
         End(code), ~hasTools \/ ~violated,
         code = "completed" => pc = "verify" /\ step > Steps /\ Steps \in Nat /\ Verified,
         UNCHANGED <<contract, plan, ledger, late, toolvars, step>>
  PROVE  RunInv'
<1> USE DEF contract, plan, ledger, toolvars, End
<1>1. TypeOK'
  BY DEF RunInv, TypeOK
<1>2. ~Running' /\ Fresh'
  BY DEF Running, Fresh
<1>3. ReceiptsChain' /\ Charged'
  BY DEF RunInv, ReceiptsChain, Charged
<1>4. Tested'
  BY DEF Tested
<1>5. EveryArtifactIsRead'
  BY PlanIsThrough DEF EveryArtifactIsRead, Rereads
<1>6. CompletedIsVerified'
  <2>1. CASE code # "completed"
    BY <2>1 DEF CompletedIsVerified
  <2>2. CASE code = "completed"
    <3>1. /\ \A s \in 1..(step - 1) : \E i \in DOMAIN receipts : receipts[i].step = s
          /\ work = patch
          /\ \A i \in DOMAIN receipts : receipts[i].step > 0 =>
               /\ receipts[i].before = patch /\ receipts[i].after = patch
               /\ receipts[i].passed
      BY <2>2 DEF RunInv, Tested, Verified
    <3>2. step \in Nat /\ step > Steps /\ Steps \in Nat
      BY <2>2 DEF RunInv, TypeOK
    <3>3. \A s \in 1..Steps : s \in 1..(step - 1) /\ s > 0
      BY <3>2
    <3>4. \A s \in 1..Steps : \E i \in DOMAIN receipts :
            /\ receipts[i].step = s /\ receipts[i].passed
            /\ receipts[i].before = patch /\ receipts[i].after = patch
      BY <3>1, <3>3
    <3> QED
      BY <3>1, <3>4 DEF CompletedIsVerified
  <2> QED
    BY <2>1, <2>2
<1>7. SuccessIsWithinLimits'
  <2>1. Charged
    BY DEF RunInv
  <2>2. CASE ~violated
    BY <2>1, <2>2 DEF Charged, SuccessIsWithinLimits
  <2>3. CASE ~hasTools
    <3>1. receipts = <<>> /\ bytes = 0
      BY <2>1, <2>3 DEF Charged
    <3>2. 0 <= MaxBytes
      BY DEF RunAssumption
    <3> QED
      BY <3>1, <3>2 DEF SuccessIsWithinLimits
  <2> QED
    BY <2>2, <2>3
<1>8. Ended'
  BY <1>5, <1>6, <1>7 DEF Ended, CompiledPlansRun
<1> QED
  BY <1>1, <1>2, <1>3, <1>4, <1>8 DEF RunInv

LEMMA AcceptPatchKeeps ==
  ASSUME PlanAssumption, RunAssumption, RunInv, AcceptPatch
  PROVE  RunInv'
<1>1. /\ pc = "call" /\ pos > Len(compiled.calls)
      /\ UNCHANGED <<contract, plan, ledger, late, toolvars, step>>
  BY DEF AcceptPatch, AtEnd
<1>2. AllDelivered /\ patch # 0
  BY <1>1, PlanIsThrough
<1>3. TypeOK /\ Planned /\ Followed /\ hasTools \in BOOLEAN
  BY <1>1 DEF RunInv, Running, TypeOK
<1>4. CASE ~hasTools
  <2>1. End("patch_ready")
    BY <1>2, <1>4 DEF AcceptPatch
  <2> QED
    BY <1>1, <1>4, <2>1, SuccessKeeps
<1>5. CASE hasTools /\ (~intact \/ patch # work)
  <2>1. End("patch_refused") /\ "patch_refused" \in Failing
    BY <1>2, <1>5 DEF AcceptPatch, Failing
  <2>2. /\ models' \in Nat /\ UNCHANGED <<protocol, hasTools>>
        /\ UNCHANGED <<plan, tools, bytes, violated, late, toolvars, step>>
    BY <1>1, <1>3 DEF TypeOK, ledger, contract
  <2> QED
    BY <2>1, <2>2, FailureKeeps
<1>6. CASE hasTools /\ intact /\ patch = work
  <2>1. pc' = "verify" /\ UNCHANGED outcome
    BY <1>2, <1>6 DEF AcceptPatch
  <2> USE DEF contract, plan, ledger, toolvars
  <2>2. TypeOK'
    BY <1>1, <1>3, <2>1 DEF TypeOK
  <2>3. Planned' /\ Followed' /\ Fresh'
    <3>1. Begun' = Begun
      BY <1>1, <2>1 DEF Begun
    <3> QED
      BY <1>1, <1>3, <2>1, <3>1 DEF Planned, Followed, Fresh
  <2>4. ReceiptsChain' /\ Charged'
    BY <1>1 DEF RunInv, ReceiptsChain, Charged
  <2>5. Tested'
    <3>1. step = 1 /\ \A i \in DOMAIN receipts : receipts[i].step = 0
      BY <1>1 DEF RunInv, Tested
    <3> QED
      BY <1>1, <1>6, <2>1, <3>1 DEF Tested
  <2>6. Ended'
    BY <1>1, <2>1, OpenKeepsEnded
  <2> QED
    BY <2>2, <2>3, <2>4, <2>5, <2>6 DEF RunInv
<1> QED
  BY <1>3, <1>4, <1>5, <1>6

LEMMA ConcludeKeeps ==
  ASSUME PlanAssumption, RunAssumption, RunInv, Conclude
  PROVE  RunInv'
<1>1. /\ pc = "verify" /\ step > Steps
      /\ UNCHANGED <<contract, plan, ledger, late, toolvars, step>>
  BY DEF Conclude
<1>2. pos > Len(compiled.calls) /\ TypeOK
  BY <1>1 DEF RunInv, Running, Followed
<1>3. CASE ~intact \/ violated
  <2>1. PICK code \in {"immutable_source_changed", "budget_reconciliation_failed"} :
          End(code)
    BY <1>3 DEF Conclude
  <2>2. /\ models' \in Nat /\ UNCHANGED <<protocol, hasTools>>
        /\ UNCHANGED <<plan, tools, bytes, violated, late, toolvars, step>>
    BY <1>1, <1>2 DEF TypeOK, ledger, contract
  <2> QED
    BY <2>1, <2>2, FailureKeeps DEF Failing
<1>4. CASE intact /\ ~violated /\ Verified
  <2>1. End("completed") /\ Steps \in Nat
    BY <1>4 DEF Conclude, RunAssumption
  <2> QED
    BY <1>1, <1>2, <1>4, <2>1, SuccessKeeps
<1>5. CASE intact /\ ~violated /\ ~Verified
  <2>1. End("public_verification_failed")
    BY <1>5 DEF Conclude
  <2> QED
    BY <1>1, <1>2, <1>5, <2>1, SuccessKeeps
<1> QED
  BY <1>3, <1>4, <1>5

LEMMA FailingTurnKeeps ==
  ASSUME RunInv, CallFails \/ BadTurn \/ TurnsExhausted
  PROVE  RunInv'
<1>1. models \in Nat
  BY DEF RunInv, TypeOK
<1>2. PICK code \in Failing : End(code)
  BY DEF CallFails, BadTurn, TurnsExhausted, Failing
<1>3. /\ models' \in Nat /\ UNCHANGED <<protocol, hasTools>>
      /\ UNCHANGED <<plan, tools, bytes, violated, late, toolvars, step>>
  BY <1>1 DEF CallFails, BadTurn, TurnsExhausted, ledger, contract
<1> QED
  BY <1>2, <1>3, FailureKeeps

LEMMA OutsideKeeps ==
  ASSUME RunInv, Expire \/ Tamper
  PROVE  RunInv'
<1>1. pc # "done" /\ late' \in BOOLEAN /\ intact' \in BOOLEAN
  BY DEF Expire, Tamper, RunInv, TypeOK, toolvars
<1> QED
  BY <1>1, QuietKeeps DEF Expire, Tamper, toolvars

LEMMA StutterKeeps ==
  ASSUME RunInv, UNCHANGED vars
  PROVE  RunInv'
<1> USE DEF vars, contract, plan, ledger, toolvars
<1>1. Current' = Current /\ Begun' = Begun
  BY DEF Current, Begun
<1>2. TypeOK' /\ Fresh' /\ (Running => Planned /\ Followed)'
  BY <1>1 DEF RunInv, TypeOK, Fresh, Running, Planned, Followed
<1>3. ReceiptsChain' /\ Charged' /\ Tested'
  BY DEF RunInv, ReceiptsChain, Charged, Tested, Verified
<1>4. Ended'
  BY DEF RunInv, Ended, CompiledPlansRun, EveryArtifactIsRead,
         CompletedIsVerified, SuccessIsWithinLimits, Succeeded
<1> QED
  BY <1>2, <1>3, <1>4 DEF RunInv

-----------------------------------------------------------------------------
(* The invariant holds of every run: plan, store, ledger and receipts      *)
(* agree at every call (CompositeRuntime.run).                             *)
THEOREM RunInvariant ==
  ASSUME PlanAssumption, RunAssumption
  PROVE  Spec => []RunInv
<1>1. Init => RunInv
  BY InitHolds
<1>2. RunInv /\ [Next]_vars => RunInv'
  <2> SUFFICES ASSUME RunInv, [Next]_vars
               PROVE  RunInv'
    OBVIOUS
  <2>1. CASE Compile
    BY <2>1, CompileKeeps
  <2>2. CASE BeginCall
    BY <2>2, BeginCallKeeps
  <2>3. CASE CallFails \/ BadTurn \/ TurnsExhausted
    BY <2>3, FailingTurnKeeps
  <2>4. CASE \E t \in Tools : RequestTool(t)
    BY <2>4, RequestToolKeeps
  <2>5. CASE \E v \in Versions : Terminate(v)
    BY <2>5, TerminateKeeps
  <2>6. CASE WriteFails
    BY <2>6, WriteFailsKeeps
  <2>7. CASE AcceptPatch
    BY <2>7, AcceptPatchKeeps
  <2>8. CASE VerifyStep
    BY <2>8, VerifyStepKeeps
  <2>9. CASE Conclude
    BY <2>9, ConcludeKeeps
  <2>10. CASE Expire \/ Tamper
    BY <2>10, OutsideKeeps
  <2>11. CASE UNCHANGED vars
    BY <2>11, StutterKeeps
  <2> QED
    BY <2>1, <2>2, <2>3, <2>4, <2>5, <2>6, <2>7, <2>8, <2>9, <2>10, <2>11 DEF Next
<1> QED
  BY <1>1, <1>2, PTL DEF Spec

(* Protocol, plan, books and receipts keep their types.                    *)
THEOREM TypeCorrect ==
  ASSUME PlanAssumption, RunAssumption
  PROVE  Spec => []TypeOK
<1>1. RunInv => TypeOK
  BY DEF RunInv
<1> QED
  BY <1>1, RunInvariant, PTL

(* A run that hands over a patch gave every actor its artifacts once and a *)
(* revision those of its actor again, tested what it submits, and stayed   *)
(* within its limits; the receipts account for every change of the working *)
(* copy (_resolve_read, run_public_verification, TrustedRepairToolService  *)
(* invoke).                                                                *)
THEOREM RunsAccounted ==
  ASSUME PlanAssumption, RunAssumption
  PROVE  Spec => []RunIsAccounted
<1>1. RunInv => RunIsAccounted
  BY DEF RunInv, Ended, RunIsAccounted
<1> QED
  BY <1>1, RunInvariant, PTL

(* A protocol that compiles runs: the runtime accepts its plan, and no run *)
(* of it meets a stage that is not ready, a read without its artifact, an  *)
(* artifact written twice or one left undelivered (_compile_topology,      *)
(* _validate_inputs, _resolve_read).                                       *)
THEOREM CompiledRuns ==
  ASSUME PlanAssumption, RunAssumption
  PROVE  Spec => []CompiledPlansRun
<1>1. RunInv => CompiledPlansRun
  BY DEF RunInv, Ended
<1> QED
  BY <1>1, RunInvariant, PTL

=============================================================================
