----------------------------- MODULE MCBranches -----------------------------
(* Work that goes on side by side: a behaviour is one of the module that   *)
(* "which" names, and the others stay in an initial state.                 *)
(*   branches   BranchGroup: two branches of two requests each             *)
(*   factory    RuntimeFactory: two callers, three calls, one copy that    *)
(*              fails, one message of a solve session                      *)
(*   killed     the same with two calls and a kill                         *)
(*   oracle     OraclePackage: two builds of one directory, and seventeen  *)
(*              packages whose patch, answer, schema or service validators *)
(*              lack one of the things QA and the evaluator ask for        *)
(*   plans      PlanFrames: two operations side by side, alone or before a *)
(*              third, a chain, four tasks that are no plans, and prompts  *)
(*              of every template, resumed once                            *)
EXTENDS MCBranchGroup

CONSTANTS k1, k2

VARIABLES which,
  kind, project, aside, job, left, calls, solver, filed, solved, fails, kills, raced, clash,
  build, package, files, builds, held, qa, seen, ledger,
  task, host, plan, life, status, artifacts, workers, queue, active, answer, steps, saved,
  resumes

Factory == INSTANCE RuntimeFactory WITH Clients <- {k1, k2}, MaxCalls <- 3, MaxFails <- 1,
  MaxKills <- 0, MaxSolves <- 1
Killed == INSTANCE RuntimeFactory WITH Clients <- {k1, k2}, MaxCalls <- 2, MaxFails <- 1,
  MaxKills <- 1, MaxSolves <- 1

Pack(validators, local, hidden, fixture, expected, capped) ==
  [validators |-> validators, local |-> local, hidden |-> hidden, fixture |-> fixture,
   expected |-> expected, capped |-> capped]
Traced(family) == {"trace_state", family}
Packs ==
  {Pack(Traced("repo_patch"), Traced("repo_patch"), hidden, fixture, TRUE, capped) :
     hidden \in BOOLEAN, fixture \in {"digests", "tree"}, capped \in BOOLEAN}
  \cup {Pack(Traced("exact_private_answer"), local, FALSE, "none", expected, FALSE) :
     expected \in BOOLEAN, local \in {Traced("exact_private_answer"), {"trace_state"}}}
  \cup {Pack(Traced("repo_patch"), {"trace_state"}, TRUE, "tree", TRUE, FALSE),
        Pack(Traced("repo_patch"), Traced("repo_patch"), TRUE, "none", TRUE, FALSE),
        Pack(Traced("repo_patch") \cup {"schema_artifact"},
             Traced("repo_patch") \cup {"schema_artifact"}, TRUE, "tree", TRUE, FALSE),
        Pack({"schema_artifact"}, {"schema_artifact"}, FALSE, "none", TRUE, FALSE),
        Pack(Traced("stateful_service"), Traced("stateful_service"), FALSE, "none", TRUE,
             FALSE)}

Oracle == INSTANCE OraclePackage WITH Packages <- Packs, MaxBuilds <- 2

Does(id, what, deps, out) ==
  [id |-> id, kind |-> what, deps |-> deps, out |-> out, visible |-> what = "direct_response",
   declared |-> TRUE]
Asked(ops, keys, exact, required) ==
  [ops |-> ops, keys |-> keys, exact |-> exact, required |-> required,
   bestEffort |-> ~required, allowed |-> {}]
Beside == <<Does(1, "builtin_op", <<>>, 1), Does(2, "tool_call", <<>>, 2)>>
Chain == <<Does(1, "memory_lookup", <<>>, 1), Does(2, "service_action", <<1>>, 2)>>
NoPlans ==
  {<<Does(1, "builtin_op", <<2>>, 1), Does(2, "builtin_op", <<1>>, 2)>>,
   <<Does(1, "builtin_op", <<>>, 1), Does(2, "builtin_op", <<1>>, 1)>>,
   <<Does(1, "builtin_op", <<3>>, 1)>>}
PlanTasks ==
  {Asked(Beside, <<>>, TRUE, TRUE), Asked(Chain, <<1, 2>>, FALSE, FALSE),
   Asked(Append(Beside, Does(3, "direct_response", <<1, 2>>, 3)), <<>>, FALSE, TRUE),
   Asked(<<Does(1, "builtin_op", <<>>, 1)>>, <<2>>, FALSE, TRUE)}
  \cup {Asked(ops, <<>>, TRUE, TRUE) : ops \in NoPlans}

Prompt(words, n, allowed, service, preference) ==
  [words |-> words, files |-> n, allowed |-> allowed, service |-> service,
   preference |-> preference]
Prompts ==
  {Prompt({"numbers", "min", "max"}, 0, {}, "none", p) : p \in {"required", "best_effort"}}
  \cup {Prompt(w, 0, {}, "none", "auto") : w \in {{"numbers", "modulus", "square"}, {"symbol"}}}
  \cup {Prompt({w}, n, allowed, service, "auto") : w \in {"edit", "inspect"}, n \in 0..1,
           allowed \in {{}, {"service/http"}, {"filesystem/read"}},
           service \in {"none", "whole", "malformed"}}

Plans == INSTANCE PlanFrames WITH Tasks <- PlanTasks, Requests <- Prompts,
  Hosts <- {[network |-> b, write |-> b] : b \in BOOLEAN}, MaxSteps <- 6, MaxResumes <- 1

ASSUME Plans!PlanAssumption
ASSUME Factory!FactoryAssumption /\ Killed!FactoryAssumption /\ Oracle!OracleAssumption

branching == vars
building == <<kind, project, aside, job, left, calls, solver, filed, solved, fails, kills,
              raced, clash>>
scoring == <<build, package, files, builds, held, qa, seen, ledger>>
planning == <<task, host, plan, life, status, artifacts, workers, queue, active, answer,
              steps, saved, resumes>>

MCInit ==
  /\ which \in {"branches", "factory", "killed", "oracle", "plans"}
  /\ Init /\ Factory!Init /\ Oracle!Init /\ Plans!Init
  /\ which \notin {"factory", "killed"} => kind = "policy_modules"
  /\ IF which = "plans"
       THEN host.network \/ \E o \in ToSet(task.ops) : o.kind \in {"service_action", "repo_patch"}
       ELSE host.network /\ task = Asked(Beside, <<>>, TRUE, TRUE)

RunBranches == which = "branches" /\ Next /\ UNCHANGED <<which, building, scoring, planning>>
RunFactory ==
  /\ \/ which = "factory" /\ Factory!Next
     \/ which = "killed" /\ Killed!Next
  /\ UNCHANGED <<which, branching, scoring, planning>>

RunOracle == which = "oracle" /\ Oracle!Next /\ UNCHANGED <<which, branching, building, planning>>

RunPlans ==
  which = "plans" /\ Plans!Next /\ UNCHANGED <<which, branching, building, scoring>>

MCNext == RunBranches \/ RunFactory \/ RunOracle \/ RunPlans

MCSpec == MCInit /\ [][MCNext]_<<which, branching, building, scoring, planning>>

(* Branches are alike, and so are the factory's callers.                   *)
Alike == BranchSymmetry \cup Permutations({k1, k2})

(* A chat's messages are one chain on file, each follow-up evolved from    *)
(* the runtime its parent names, and what the project holds is what its    *)
(* newest message names, with its sessions.                                *)
FactoryIsFaithful == which \in {"factory", "killed"} => Factory!FactoryIsFaithful

(* An answer is earned. A score under an oracle package: by the run's own  *)
(* evidence, by validators with the authority the claim asks for, and      *)
(* under a package whose QA kept its word. The answer of a planned run: by *)
(* a plan that can be followed to its end, whose verify node approved it.  *)
AnswersAreEarned ==
  /\ which = "oracle" => Oracle!OracleIsEarned
  /\ which = "plans" => Plans!TypeOK /\ Plans!PlansAreFollowed
=============================================================================
