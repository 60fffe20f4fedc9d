---------------------------- MODULE MCEvaluation ----------------------------
(* The modules about building and judging releases, checked side by side:  *)
(* a behaviour is one of the module that "which" names, and the others     *)
(* stay in an initial state.                                               *)
(*   search      PairedSearch: a live envelope, one of two proposals a     *)
(*               step, and one whose proposals come again                  *)
(*   factory     FactoryService: two builders and a replay of what one of  *)
(*               them recorded                                             *)
(*   evaluation  EvaluationService: two evaluators of two runs of one      *)
(*               candidate, while the release changes                      *)
(*   packets, twice, plans  PilotEvidence: a child that publishes packets  *)
(*               made of whatever there was, two that publish the same,    *)
(*               and two commands that plan one pilot                      *)
EXTENDS EvaluationService, FactoryService, TLC

CONSTANTS k1, k2, k3, b1, b2, e1, e2, r1, r2, c1, t1, t2, s1, s2, s3

VARIABLES which,
  envelope, phase, incumbent, retained, lineage, decisions, batch, step, idle,
  controls, panels, reused, baseline,
  named, sessions, runs, audits, seen, dry, copies, planner, builder, published,
  told, moves, plans, raced

Keys == {k1, k2, k3}
Repairs == {{k1, k2}, {k2, k3}, {k1, k2, k3}}
Bounds(live, steps, offspring, evaluations, patience, repeat, arms) ==
  [live |-> live, steps |-> steps, offspring |-> offspring,
   evaluations |-> evaluations, patience |-> patience, repeat |-> repeat,
   controls |-> arms]
Envelopes == {Bounds(TRUE, 3, 1, 3, 2, FALSE, 1), Bounds(FALSE, 2, 2, 3, 1, FALSE, 0),
              Bounds(FALSE, 1, 2, 9, 1, TRUE, 0)}
Search == INSTANCE PairedSearch WITH Key <- Keys, Outcome <- Repairs,
  Envelope <- Envelopes, TransactionId <- {1, 2}, MinPairs <- 3, MinGain <- 1,
  MaxRegressions <- 1

Runs == {[release |-> r1, candidate |-> c1, passed |-> p, sound |-> TRUE] :
           p \in BOOLEAN}
Evaluators == {e1, e2}
Releases == {r1, r2}
Milliseconds == {t1, t2}

Packets == INSTANCE PilotEvidence WITH Pilot <- {c1}, Task <- {t1, t2},
  Release <- {r1, r2}, Protocol <- [r \in {r1, r2} |-> 1], Session <- {s1, s2, s3},
  Planner <- {e1}, Builder <- {b1}, MaxMessages <- 1, MaxPlans <- 1,
  MaxMoves <- 1, MaxAudits <- 2,
  pointer <- named, active <- seen
Twice == INSTANCE PilotEvidence WITH Pilot <- {c1}, Task <- {t1},
  Release <- {r1}, Protocol <- [r \in {r1} |-> 1], Session <- {s1, s2},
  Planner <- {e1}, Builder <- {b1, b2}, MaxMessages <- 1, MaxPlans <- 1,
  MaxMoves <- 0, MaxAudits <- 1, pointer <- named, active <- seen
Plans == INSTANCE PilotEvidence WITH Pilot <- {c1}, Task <- {t1},
  Release <- {r1, r2}, Protocol <- [r \in {r1, r2} |-> 1], Session <- {s1, s2},
  Planner <- {e1, e2}, Builder <- {b1}, MaxMessages <- 1, MaxPlans <- 2,
  MaxMoves <- 1, MaxAudits <- 2,
  pointer <- named, active <- seen

ASSUME /\ EvaluationAssumption
       /\ Search!SearchAssumption /\ ServiceAssumption
       /\ Packets!PilotAssumption /\ Plans!PilotAssumption

search == <<envelope, phase, incumbent, retained, lineage, decisions, batch, step,
            idle, controls, panels, reused, baseline>>
pilot == <<named, sessions, runs, audits, seen, dry, copies, planner, builder,
           published, told, moves, plans, raced>>
all == <<which, vars, search, factoryVars, pilot>>

MCInit ==
  /\ which \in {"search", "factory", "evaluation", "packets", "twice", "plans"}
  /\ Init /\ (which # "evaluation" => pointer = r1)
  /\ Search!Init
  /\ which # "search" => envelope = Bounds(FALSE, 1, 2, 9, 1, TRUE, 0)
  /\ FactoryInit
  /\ CASE which = "plans" -> Plans!Init
       [] which = "twice" -> Twice!Init
       [] OTHER -> Packets!Init
  /\ which \notin {"packets", "plans"} => named = r1

RunEvaluation ==
  which = "evaluation" /\ Next /\ UNCHANGED <<which, search, factoryVars, pilot>>
RunSearch ==
  which = "search" /\ Search!Next /\ UNCHANGED <<which, vars, factoryVars, pilot>>
RunFactory ==
  which = "factory" /\ FactoryNext /\ UNCHANGED <<which, vars, search, pilot>>
RunPackets ==
  which = "packets" /\ Packets!Next /\ UNCHANGED <<which, vars, search, factoryVars>>
RunTwice ==
  which = "twice" /\ Twice!Next /\ UNCHANGED <<which, vars, search, factoryVars>>
RunPlans ==
  which = "plans" /\ Plans!Next /\ UNCHANGED <<which, vars, search, factoryVars>>

MCNext == RunSearch \/ RunFactory \/ RunEvaluation \/ RunPackets \/ RunTwice
          \/ RunPlans
MCSpec == MCInit /\ [][MCNext]_all

(* Evaluators (and planners) are alike, so are the milliseconds they issue *)
(* at (and tasks), and sessions.                                           *)
Alike == Permutations({e1, e2}) \union Permutations({t1, t2}) \union Permutations({s1, s2, s3})

------------------------------------------------------------------------------
(* The type invariant of the module that runs.                             *)
AllTypesOK ==
  CASE which = "evaluation" -> TypeOK
    [] which = "search" -> Search!TypeOK
    [] which = "factory" -> FactoryTypeOK
    [] which = "packets" -> Packets!TypeOK
    [] which = "twice" -> Twice!TypeOK
    [] OTHER -> Plans!TypeOK

(* Each of the following is the property of the same name of the module    *)
(* that states it.                                                         *)
SearchIsAccountable == which = "search" => Search!SearchIsAccountable
PacketsAreSound == which \in {"packets", "twice", "plans"} => Packets!PacketsAreSound
=============================================================================
