--------------------------- MODULE CompositePlan ---------------------------
(***************************************************************************)
(* From a harness protocol to the plan that the composite runtime runs:    *)
(* the contract of contracts/harness.py, the compiler of                   *)
(* runtime/api/composite_compiler.py and the boundary checks with which    *)
(* CompositeRuntime receives a plan.                                       *)
(*                                                                         *)
(* Actors are numbered in protocol order and have distinct instructions.   *)
(* A channel is a triple <<producer, consumer, copy>>.  A call is a pair   *)
(* <<actor, kind>>.  A channel stands for its artifact too, since the      *)
(* compiler makes exactly one of the other.                                *)
(***************************************************************************)
EXTENDS Integers, FiniteSets, Sequences, Functions

CONSTANTS
  N,          \* the number of actors
  Channels,   \* the artifact channels that protocols may declare
  NoChannel   \* feedback_channel_id of a protocol without revision

Actor == 1..N

PlanAssumption ==
  /\ N \in Nat \ {0}
  /\ Channels \subseteq Actor \X Actor \X Nat
  /\ NoChannel \notin Channels

From(ch) == ch[1]
To(ch) == ch[2]

(* HarnessProtocol with the rules of its validators: channels join two     *)
(* different actors, the revising actor is the final one, and its feedback *)
(* channel leads to it.                                                    *)
Protocol ==
  {p \in [channels : SUBSET Channels,
          feedback : Channels \cup {NoChannel}, final : Actor] :
     /\ \A ch \in p.channels : From(ch) # To(ch)
     /\ p.feedback # NoChannel =>
          p.feedback \in p.channels /\ To(p.feedback) = p.final}

Revises(p) == p.feedback # NoChannel
Primary(p) == p.channels \ {p.feedback}
Producers(p, a) == {From(ch) : ch \in {c \in Primary(p) : To(c) = a}}
Consumers(p, a) == {To(ch) : ch \in {c \in Primary(p) : From(c) = a}}

(* The actors placed after n rounds: a round places every actor whose      *)
(* producers are placed already.                                           *)
Placed(p) ==
  LET P[n \in 0..N] ==
        IF n = 0 THEN {}
        ELSE LET before == P[n - 1] IN
             before \cup {a \in Actor : Producers(p, a) \subseteq before}
  IN  P

(* The actors that `a` reaches over primary channels, itself included.     *)
Reachable(p, a) ==
  LET R[n \in 0..N] ==
        IF n = 0 THEN {a}
        ELSE LET before == R[n - 1] IN
             before \cup UNION {Consumers(p, b) : b \in before}
  IN  R[N]

(* _compile_topology refuses a protocol whose primary graph has a cycle,   *)
(* or in which some actor's work does not lead to the final output.        *)
Compiles(p) ==
  /\ N > 1 => p.channels # {}
  /\ Placed(p)[N] = Actor
  /\ IF Revises(p)
     THEN /\ From(p.feedback) \in Reachable(p, p.final)
          /\ \A a \in Actor : From(p.feedback) \in Reachable(p, a)
     ELSE /\ Consumers(p, p.final) = {}
          /\ \A a \in Actor : p.final \in Reachable(p, a)
  /\ \A a \in Actor :
       \/ a = p.final /\ ~Revises(p)
       \/ \E ch \in p.channels : From(ch) = a

(* The level of an actor, which is the index of its stage.                 *)
Phase(p, a) ==
  LET placed == Placed(p) IN
  CHOOSE n \in 0..(N - 1) : a \in placed[n + 1] \ placed[n]

Levels(p) == {Phase(p, a) : a \in Actor}

Initial(a) == <<a, "initial">>
Revision(p) == <<p.final, "revision">>

Calls(p) ==
  {Initial(a) : a \in Actor} \cup (IF Revises(p) THEN {Revision(p)} ELSE {})

FinalCall(p) == IF Revises(p) THEN Revision(p) ELSE Initial(p.final)

Consumer(p, ch) == IF ch = p.feedback THEN Revision(p) ELSE Initial(To(ch))

(* A faulty variant: the artifact a revision answers to goes to the first  *)
(* call of the reviser.                                                    *)
EarlyFeedback(p) ==
  {[artifact |-> ch, producer |-> Initial(From(ch)), consumer |-> Initial(To(ch))]
     : ch \in p.channels}

Deliveries(p) ==
  {[artifact |-> ch, producer |-> Initial(From(ch)), consumer |-> Consumer(p, ch)]
     : ch \in p.channels}

Writes(p, c) ==
  IF c = Revision(p) THEN {} ELSE {ch \in p.channels : From(ch) = c[1]}

ReadArtifact(ch) == [kind |-> "artifact", ref |-> ch]
ReadOutput(c) == [kind |-> "prior_actor_output", ref |-> c]

DeliveredTo(p, c) == {d.artifact : d \in {e \in Deliveries(p) : e.consumer = c}}

(* The reads of other calls' results.  A revision reads again what the     *)
(* first call of its actor was given.                                      *)
ContextReads(p, c) ==
  {ReadArtifact(ch) : ch \in DeliveredTo(p, c)} \cup
  (IF c = Revision(p)
   THEN {ReadArtifact(ch) : ch \in DeliveredTo(p, Initial(p.final))}
        \cup {ReadOutput(Initial(p.final))}
   ELSE {})

LastLevel(p) == CHOOSE n \in Levels(p) : \A k \in Levels(p) : k <= n

StageIndex(p, c) ==
  IF c = Revision(p) THEN LastLevel(p) + 1 ELSE Phase(p, c[1])

Stages(p) == {StageIndex(p, c) : c \in Calls(p)}

DependsOn(p, i) ==
  IF i = LastLevel(p) + 1 THEN {Phase(p, From(p.feedback))}
  ELSE {Phase(p, From(ch)) : ch \in {c \in Primary(p) : Phase(p, To(c)) = i}}

(* Stage after stage, and in a stage in the order of the actors.           *)
Precedes(p, c, d) ==
  \/ StageIndex(p, c) < StageIndex(p, d)
  \/ StageIndex(p, c) = StageIndex(p, d) /\ c[1] < d[1]

Schedule(p) ==
  [i \in 1..Cardinality(Calls(p)) |->
     CHOOSE c \in Calls(p) :
       Cardinality({d \in Calls(p) : Precedes(p, d, c)}) = i - 1]

(***************************************************************************)
(* CompositeRuntime._validate_inputs                                       *)
(***************************************************************************)
(* A call that revises may read what an earlier call of its actor got.     *)
RetainedFrom(p, ch, c) ==
  {d.consumer : d \in
     {e \in Deliveries(p) :
        /\ c[2] = "revision"
        /\ e.artifact = ch
        /\ e.consumer[1] = c[1]
        /\ StageIndex(p, e.consumer) < StageIndex(p, c)}}

ReadIsDeclared(p, c, r) ==
  CASE r.kind = "artifact" ->
         r.ref \in DeliveredTo(p, c) \/ RetainedFrom(p, r.ref, c) # {}
    [] r.kind = "prior_actor_output" ->
         r.ref \in Calls(p) /\ StageIndex(p, r.ref) < StageIndex(p, c)

RuntimeAccepts(p) ==
  /\ Stages(p) = 0..(Cardinality(Stages(p)) - 1)
  /\ \A i \in Stages(p) : \A j \in DependsOn(p, i) : j < i
  /\ FinalCall(p) \in Calls(p)
  /\ \A c \in Calls(p) : \A r \in ContextReads(p, c) : ReadIsDeclared(p, c, r)
  /\ \A d \in Deliveries(p) :
       ReadArtifact(d.artifact) \in ContextReads(p, d.consumer)
  /\ \A ch \in p.channels : \E d \in Deliveries(p) : d.artifact = ch
=============================================================================
