---------------------------- MODULE OraclePackage ----------------------------
(* How a run comes to its score under an oracle package: the package is    *)
(* compiled (src/agintor/oracle/compiler.py) or written by hand, passes or *)
(* fails QA (oracle/qa.py), is filed and loaded (oracle/package_io.py),    *)
(* and the evaluator runs its sealed validators (oracle/families/) on what *)
(* a run left, claim by claim (evaluation/oracle_runner.py), into a ledger *)
(* and one score (evaluation/evaluator.py).                                *)
(* A package is which validators it has and what they find in it; a run is *)
(* the facts the validators look at.                                       *)
EXTENDS Integers, FiniteSets, FiniteSetsExt, Sequences

CONSTANTS
  Packages,       \* the packages given to an evaluator as objects
  MaxBuilds       \* how often the compiler writes into the directory

VARIABLES
  build,          \* what the compiler does: "idle", "write" or "refused"
  package,        \* the package it is writing, or None
  files,          \* what the directory holds
  builds,
  held,           \* the evaluator's package, or None
  qa,             \* whether its QA report passed
  seen,           \* what the run under evaluation left, or None
  ledger          \* its evidence ledger and score, or None

oracleVars == <<build, package, files, builds, held, qa, seen, ledger>>

None == [none |-> TRUE]
Torn == [torn |-> TRUE]
Families == {"schema_artifact", "trace_state", "exact_private_answer", "repo_patch",
             "stateful_service"}
OutcomeFamilies == {"exact_private_answer", "repo_patch", "stateful_service"}

(* A package: its validators; those its task names; whether the repository *)
(* patch has hidden tests, and comes with nothing, with digests only, or   *)
(* with its tree; whether the task has a sealed answer; and whether the    *)
(* patch validator's ceiling was lowered to A3.                            *)
OraclePackages ==
  [validators : SUBSET Families, local : SUBSET Families, hidden : BOOLEAN,
   fixture : {"none", "digests", "tree"}, expected : BOOLEAN, capped : BOOLEAN]

OracleAssumption == MaxBuilds \in Nat /\ Packages \subseteq OraclePackages

------------------------------------------------------------------------------
(* Claims and what validates them.                                         *)
Claims(p) ==
  {"outcome", "process", "leakage"}
  \cup (IF "repo_patch" \in p.validators THEN {"patch"} ELSE {})
  \cup (IF "stateful_service" \in p.validators THEN {"service"} ELSE {})

Covers(p, v) ==
  CASE v = "schema_artifact" -> {"outcome"}
    [] v = "trace_state" -> {"process", "leakage"}
    [] v = "repo_patch" -> {"outcome", "patch"}
    [] v = "stateful_service" -> {"outcome", "service"}
    [] OTHER -> Claims(p)

Criticality(p, c) ==
  CASE c \in {"patch", "service"} -> "hard"
    [] c \in {"process", "leakage"} -> "major"
    [] p.validators \cap OutcomeFamilies # {} -> "hard"
    [] "schema_artifact" \in p.validators -> "major"
    [] OTHER -> "diagnostic"

Floor(p, c) == IF Criticality(p, c) = "major" THEN 3 ELSE 4
Weight(c) == IF c = "process" THEN 1 ELSE 2       \* halves
HardClaims(p) == {c \in Claims(p) : Criticality(p, c) = "hard"}

Ceiling(p, v) ==
  IF v \in OutcomeFamilies /\ ~(v = "repo_patch" /\ p.capped) THEN 4 ELSE 3

------------------------------------------------------------------------------
(* Compiling. A provider may propose families; of those proposed, or of    *)
(* all, the ones that are ready and apply are taken. The tasks written     *)
(* here are verified as "oracle_package", so no answer is an exact one,    *)
(* and no patch or service fixture is ever found: only a schema named in   *)
(* the goal and the trace apply. The second of the two passes sees what    *)
(* the first saw.                                                          *)
Applies(f, schema) == f = "trace_state" \/ (f = "schema_artifact" /\ schema)

Selected(schema, proposal) ==
  LET proposed == {f \in proposal \cap Families : Applies(f, schema)}
  IN (IF proposed # {} THEN proposed ELSE {f \in Families : Applies(f, schema)})
     \cup (IF schema THEN {"schema_artifact"} ELSE {})

(* Every task names every validator, and has a sealed answer of its own.   *)
WithTasks(validators) ==
  [validators |-> validators, local |-> validators, hidden |-> FALSE,
   fixture |-> "none", expected |-> TRUE, capped |-> FALSE]

(* A process or leakage claim nobody took gets a trace validator.          *)
Compiled(schema, proposal) == WithTasks(Selected(schema, proposal) \cup {"trace_state"})

------------------------------------------------------------------------------
(* QA: what a package must show before it is frozen or promotes anything.  *)
LocalFor(p, c) == {v \in p.local \cap p.validators : c \in Covers(p, v)}

(* A claim decides a promotion if some validator takes it: any, unless the *)
(* claim is diagnostic, which only a rejecting validator makes count.      *)
Decides(p, c, takers) ==
  IF Criticality(p, c) = "diagnostic" THEN takers \cap OutcomeFamilies # {}
                                      ELSE takers # {}

Active(p, c) == Decides(p, c, LocalFor(p, c))

TasksAreCovered(p) ==
  \A c \in Claims(p) :
    Decides(p, c, {v \in p.validators : c \in Covers(p, v)}) => LocalFor(p, c) # {}

AnswersAreSealed(p) ==
  "exact_private_answer" \in p.validators => "exact_private_answer" \in p.local /\ p.expected

Promotes(p, v) == v \in p.local /\ \E c \in Covers(p, v) : Active(p, c)

LacksInput(p, v) ==
  \/ v = "repo_patch" /\ p.fixture = "none"
  \/ v = "exact_private_answer" /\ (v \notin p.local \/ ~p.expected)

(* The authority a validator's known-good control comes to. A patch        *)
(* without a tree is controlled by a receipt made for the occasion, a      *)
(* service by a final state made for it.                                   *)
ControlRank(p, v) ==
  CASE v = "repo_patch" -> IF p.hidden THEN 4 ELSE 3
    [] v \in OutcomeFamilies -> 4
    [] OTHER -> 3

(* A faulty variant of ControlsHold asks that the control passes, with     *)
(* whatever authority.                                                     *)
ControlsHoldUnranked(p, v) == v \in Families

ControlsHold(p, v) ==
  \A c \in Covers(p, v) : Active(p, c) => ControlRank(p, v) >= Floor(p, c)

PassesQA(p) ==
  /\ p.validators # {}
  /\ \A c \in HardClaims(p) : \E v \in p.validators : c \in Covers(p, v)
  /\ TasksAreCovered(p)
  /\ AnswersAreSealed(p)
  /\ \A v \in p.validators : Promotes(p, v) => ~LacksInput(p, v) /\ ControlsHold(p, v)

------------------------------------------------------------------------------
(* What a run left. "own" says whether its evidence manifest is there and  *)
(* is this run's; "events" what the manifest's trace says, "captured" what *)
(* the host saw itself; "patched" whether the manifest shows a patch;      *)
(* "receipt" what the evaluator's own patch runner found.                  *)
Receipts == {"none", "raised", "unbound", "failed", "sealed_failed", "tampered", "drifted",
             "clean"}
Runs(p) ==
  [task : {"package"}, invalid : BOOLEAN, own : {"missing", "foreign", "own"},
   events : {{}, {"node"}, {"node", "sealed"}}, captured : {{}, {"node"}, {"node", "sealed"}},
   artifact : {"good", "bad", "flags"},
   patched : IF "repo_patch" \in p.local THEN BOOLEAN ELSE {FALSE},
   receipt : IF "repo_patch" \in p.local /\ p.fixture = "tree"
             THEN IF p.hidden THEN Receipts ELSE Receipts \ {"sealed_failed"}
             ELSE {"none"}]

Outcome(status, rank) == [status |-> status, rank |-> rank]

(* A faulty variant of TraceState takes the manifest's word for the trace. *)
TraceStateUncaptured(r) ==
  IF r.own # "own" THEN Outcome("abstain", 0)
  ELSE Outcome(IF "node" \in r.events /\ "sealed" \notin r.events THEN "pass" ELSE "fail",
               IF r.events = {} THEN 0 ELSE 3)

TraceState(r) ==
  IF \/ r.own # "own"
     \/ r.captured # {} /\ r.captured # r.events
  THEN Outcome("abstain", 0)
  ELSE Outcome(IF "node" \in r.events /\ "sealed" \notin r.events THEN "pass" ELSE "fail",
               IF r.events = {} THEN 0 ELSE 3)

RepoPatch(p, r) ==
  LET rank == IF p.hidden THEN 4 ELSE 3
  IN CASE r.own = "missing" /\ r.artifact = "flags" -> Outcome("fail", 0)
       [] r.own # "own" \/ ~r.patched -> Outcome("abstain", 0)
       [] r.receipt \in {"none", "unbound"} -> Outcome("fail", 0)
       [] r.receipt = "raised" -> Outcome("error", 0)
       [] r.receipt \in {"tampered", "drifted"} -> Outcome("quarantine", rank)
       [] r.receipt = "clean" -> Outcome("pass", rank)
       [] OTHER -> Outcome("fail", rank)

SchemaArtifact(r) == Outcome(IF r.artifact = "good" THEN "pass" ELSE "fail", 3)

ExactPrivateAnswer(p, r) ==
  IF p.expected THEN Outcome(IF r.artifact = "good" THEN "pass" ELSE "fail", 4)
                ELSE Outcome("fail", 0)

(* No run carries a final state to a service validator.                    *)
StatefulService == Outcome("fail", 4)

Verdict(p, r, v) ==
  CASE v = "trace_state" -> TraceState(r)
    [] v = "schema_artifact" -> SchemaArtifact(r)
    [] v = "repo_patch" -> RepoPatch(p, r)
    [] v = "stateful_service" -> StatefulService
    [] OTHER -> ExactPrivateAnswer(p, r)

Verdicts(p, r) == [v \in p.local \cap p.validators |-> Verdict(p, r, v)]

------------------------------------------------------------------------------
(* From verdicts to claims. A faulty variant of Supports takes the         *)
(* authority a verdict claims without its validator's ceiling.             *)
SupportsUncapped(p, out, v, c) == out[v].status = "pass" /\ out[v].rank >= Floor(p, c)
Rank(p, out, v) ==
  IF out[v].rank > Ceiling(p, v) THEN Ceiling(p, v) ELSE out[v].rank
Supports(p, out, v, c) == out[v].status = "pass" /\ Rank(p, out, v) >= Floor(p, c)

(* A faulty variant of Satisfied lets one pass outweigh the failures.      *)
SatisfiedByOne(p, out, c) ==
  LET statuses == {out[v].status : v \in {v \in DOMAIN out : c \in Covers(p, v)}}
  IN CASE "pass" \in statuses -> "yes"
       [] statuses \cap {"fail", "error", "quarantine"} # {} -> "no"
       [] OTHER -> "open"

Satisfied(p, out, c) ==
  LET statuses == {out[v].status : v \in {v \in DOMAIN out : c \in Covers(p, v)}}
  IN CASE statuses \cap {"fail", "error", "quarantine"} # {} -> "no"
       [] "pass" \in statuses -> "yes"
       [] OTHER -> "open"

State(p, out, c) ==
  LET mine == {v \in DOMAIN out : c \in Covers(p, v)}
  IN CASE \E v \in mine : out[v].status = "quarantine" -> "quarantined"
       [] Satisfied(p, out, c) = "yes" ->
            IF \E v \in mine : Supports(p, out, v, c) THEN "satisfied" ELSE "abstained"
       [] Satisfied(p, out, c) = "no" -> "failed"
       [] mine = {} -> "unverifiable"
       [] OTHER -> "abstained"

(* What of a claim stays open: all of it, unless some validator passed or  *)
(* failed it and nothing else took that away.                              *)
Residual(p, out, c) ==
  \/ State(p, out, c) \notin {"satisfied", "failed"}
  \/ ~ \E v \in DOMAIN out : c \in Covers(p, v) /\ out[v].status \in {"pass", "fail"}

(* A faulty variant of Audit says pass when nothing failed.                *)
AuditUnlessFailed(p, out) ==
  CASE \E v \in DOMAIN out : out[v].status = "quarantine" -> "quarantine"
    [] \E v \in DOMAIN out : out[v].status \in {"fail", "error"} -> "fail"
    [] DOMAIN out = {} -> "diagnostic"
    [] OTHER -> "pass"

Audit(p, out) ==
  CASE \E v \in DOMAIN out : out[v].status = "quarantine" -> "quarantine"
    [] \E v \in DOMAIN out : out[v].status \in {"fail", "error"} -> "fail"
    [] DOMAIN out = {} -> "diagnostic"
    [] \E c \in Claims(p) : Residual(p, out, c) -> "abstain"
    [] \E v \in DOMAIN out : out[v].status = "abstain" -> "abstain"
    [] OTHER -> "pass"

ClaimScore(p, out, c) ==
  IF ~Residual(p, out, c) /\ State(p, out, c) = "satisfied" THEN 1 ELSE 0

(* A faulty variant of TaskScore forgets that hard claims come first.      *)
TaskScoreMean(p, out) ==
  MapThenSumSet(LAMBDA c : Weight(c) * ClaimScore(p, out, c), Claims(p))
TaskScore(p, out) ==
  IF \E c \in HardClaims(p) : ClaimScore(p, out, c) = 0 THEN 0
  ELSE MapThenSumSet(LAMBDA c : Weight(c) * ClaimScore(p, out, c), Claims(p))

------------------------------------------------------------------------------
(* Filing: four files one after the other, each truncated and then filled; *)
(* the lock that names the others' hashes is the last.                     *)
Order == <<"package", "public", "sealed", "lock">>

Init ==
  /\ build = "idle" /\ package = None /\ builds = 0
  /\ files = [f \in {"package", "public", "sealed", "lock"} |-> None]
  /\ held = None /\ qa = FALSE /\ seen = None /\ ledger = None

Proposals == SUBSET {"schema_artifact", "trace_state", "repo_patch", "human_audit"}

Compile ==
  /\ build = "idle" /\ held = None /\ builds < MaxBuilds
  /\ \E schema \in BOOLEAN, proposal \in Proposals :
       LET p == Compiled(schema, proposal)
       IN package' = p /\ build' = IF PassesQA(p) THEN "write" ELSE "refused"
  /\ builds' = builds + 1
  /\ UNCHANGED <<files, held, qa, seen, ledger>>

(* The file being written is the first that is torn, or the one after the  *)
(* last that this build has filled.                                        *)
Target(done) == Order[done + 1]
Filled == Cardinality({f \in DOMAIN files : files[f] = [by |-> builds, of |-> package]})

Truncate ==
  /\ build = "write" /\ files[Target(Filled)] # Torn
  /\ files' = [files EXCEPT ![Target(Filled)] = Torn]
  /\ UNCHANGED <<build, package, builds, held, qa, seen, ledger>>

Fill ==
  /\ build = "write" /\ files[Target(Filled)] = Torn
  /\ files' = [files EXCEPT ![Target(Filled)] = [by |-> builds, of |-> package]]
  /\ build' = IF Filled = 3 THEN "idle" ELSE "write"
  /\ package' = IF Filled = 3 THEN None ELSE package
  /\ UNCHANGED <<builds, held, qa, seen, ledger>>

Kill ==
  /\ build = "write"
  /\ build' = "idle" /\ package' = None
  /\ UNCHANGED <<files, builds, held, qa, seen, ledger>>

------------------------------------------------------------------------------
(* The evaluator: its package is loaded from the sealed file, or given.    *)
Load ==
  /\ held = None /\ files["sealed"] \notin {None, Torn}
  /\ held' = files["sealed"].of
  /\ qa' = PassesQA(files["sealed"].of)
  /\ UNCHANGED <<build, package, files, builds, seen, ledger>>

Given ==
  /\ held = None /\ builds = 0
  /\ held' \in Packages
  /\ qa' = PassesQA(held')
  /\ UNCHANGED <<build, package, files, builds, seen, ledger>>

(* A run of a task. One that belongs to the suite's own tasks is looked up *)
(* in vain.                                                                *)
Solve ==
  /\ held # None /\ seen = None
  /\ \/ seen' \in Runs(held)
     \/ seen' = [task |-> "suite"]
  /\ UNCHANGED <<build, package, files, builds, held, qa, ledger>>

(* A faulty variant of Evaluate scores an invalid run like any other.      *)
EvaluateInvalid ==
  /\ seen # None /\ ledger = None
  /\ ledger' = IF seen.task = "suite" THEN [score |-> "host"]
               ELSE LET out == Verdicts(held, seen)
                    IN [out |-> out, audit |-> Audit(held, out),
                        score |-> TaskScore(held, out)]
  /\ UNCHANGED <<build, package, files, builds, held, qa, seen>>

(* A run of a task the package does not know keeps the host's score; an    *)
(* invalid one scores nothing, and its validators are not asked.           *)
Evaluate ==
  /\ seen # None /\ ledger = None
  /\ ledger' = CASE seen.task = "suite" -> [score |-> "host"]
                 [] seen.invalid -> [score |-> 0]
                 [] OTHER -> LET out == Verdicts(held, seen)
                             IN [out |-> out, audit |-> Audit(held, out),
                                 score |-> TaskScore(held, out)]
  /\ UNCHANGED <<build, package, files, builds, held, qa, seen>>

Next == Compile \/ Truncate \/ Fill \/ Kill \/ Load \/ Given \/ Solve \/ Evaluate

Spec == Init /\ [][Next]_oracleVars

------------------------------------------------------------------------------
Known == Packages \cup {Compiled(schema, proposal) : schema \in BOOLEAN, proposal \in Proposals}

TypeOK ==
  /\ build \in {"idle", "write", "refused"} /\ package \in Known \cup {None}
  /\ builds \in 0 .. MaxBuilds /\ held \in Known \cup {None} /\ qa \in BOOLEAN
  /\ seen \in {None, [task |-> "suite"]} \cup (IF held = None THEN {} ELSE Runs(held))

Scored == ledger # None /\ "out" \in DOMAIN ledger
Score(c) == ClaimScore(held, ledger.out, c)

(* What a score says of the run that got it (oracle_runner.py:237,         *)
(* evaluator.py:959). A patch claim counts only for the run's own          *)
(* manifest that shows the patch and a runner that found it clean, by its  *)
(* sealed tests, under a validator allowed to say so; no leakage claim     *)
(* counts when the trace shows sealed material (where an exact answer is   *)
(* compared, it speaks for these claims as well, and neither holds);       *)
(* whatever the other validators say, one that failed, raised or           *)
(* quarantined denies every claim it covers; and no score is left to a run *)
(* that fails a hard claim or is invalid.                                  *)
ScoreIsEarned ==
  /\ Scored =>
       /\ "exact_private_answer" \notin held.local =>
            /\ "patch" \in Claims(held) /\ Score("patch") = 1 =>
                 /\ seen.own = "own" /\ seen.patched /\ seen.receipt = "clean"
                 /\ held.hidden /\ ~held.capped
            /\ \A c \in {"process", "leakage"} : Score(c) = 1 =>
                 seen.own = "own" /\ "sealed" \notin seen.events \cup seen.captured
       /\ \A v \in DOMAIN ledger.out :
            ledger.out[v].status \in {"fail", "error", "quarantine"} =>
              \A c \in Covers(held, v) \cap Claims(held) : Score(c) = 0
       /\ (\E c \in HardClaims(held) : Score(c) = 0) => ledger.score = 0
  /\ ledger # None /\ seen.task = "package" /\ seen.invalid => ledger.score = 0

(* A ledger's audit says "pass" only when every claim of the task is       *)
(* satisfied and every validator passed (oracle_runner.py:440).            *)
AuditPassIsWhole ==
  Scored /\ ledger.audit = "pass" =>
    /\ \A c \in Claims(held) : Score(c) = 1
    /\ \A v \in DOMAIN ledger.out : ledger.out[v].status = "pass"
    /\ DOMAIN ledger.out # {}

(* QA keeps its word (qa.py:332): what passed asks nothing a run could not *)
(* do, so every claim that decides a promotion is satisfied by some run.   *)
(* Three kinds of package pass on a control the evaluator never makes and  *)
(* are left out: a service's final state, a patch that comes with digests  *)
(* only, and a ceiling below the control's authority.                      *)
QAKeepsItsWord ==
  held # None /\ seen = None /\ qa
    /\ "stateful_service" \notin held.validators
    /\ ("repo_patch" \in held.validators => held.fixture = "tree" /\ ~held.capped)
  => \A c \in Claims(held) : Active(held, c) =>
       \E r \in Runs(held) : ~r.invalid /\ ClaimScore(held, Verdicts(held, r), c) = 1

(* The compiler never refuses a package of its own (compiler.py:138), and  *)
(* what the evaluator loads from the directory is one of them, however the *)
(* builds were killed (package_io.py:74).                                  *)
CompiledIsFit ==
  /\ build # "refused"
  /\ held # None /\ builds > 0 =>
       /\ qa
       /\ \E schema \in BOOLEAN, proposal \in Proposals : held = Compiled(schema, proposal)

OracleIsEarned ==
  TypeOK /\ ScoreIsEarned /\ AuditPassIsWhole /\ QAKeepsItsWord /\ CompiledIsFit
==============================================================================
