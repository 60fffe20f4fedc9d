-------------------------- MODULE EvolutionSearch --------------------------
(***************************************************************************)
(* The evolutionary search over runtimes (search/engine, search/archive)   *)
(* with the staged evaluator it drives (evaluation/evaluator) and the      *)
(* promotion decision (evaluation/progress_oracle).  One process; each     *)
(* step draws a parent from the archive, writes a child runtime into a     *)
(* directory named after parent and patch, takes it through the stages and *)
(* keeps it, or removes its directory.                                     *)
(*                                                                         *)
(* A runtime is the path of patches that leads to it from the baseline; a  *)
(* crossed parent is a step of that path as well.  Scores are data: the    *)
(* gates of stages 0 to 3, and whether a record displaces an incumbent of  *)
(* its cell, are free.  A kill leaves what is on disk as it is in any      *)
(* state, and nothing resumes a run, so it is no action here.              *)
(***************************************************************************)
EXTENDS Integers, Sequences, FiniteSets, FiniteSetsExt, SequencesExt

CONSTANTS
  Objectives,   \* the objectives of the search
  Patches,      \* the patches a mutator may propose for a runtime
  Broken,       \* those of them that do not apply
  PhaseScopes,  \* per phase, the scopes it admits
  PhaseBudget,  \* per phase, the steps it may take
  Axes,         \* the quality axes of the evidence contract
  Batches,      \* the train batches of a full evaluation
  MaxSteps,     \* the steps asked for
  Period        \* steps from one validation to the next, 5 in the code

Order == <<"local", "pair", "joint">>
Phases == {"local", "pair", "joint"}
Rank(p) == CHOOSE i \in DOMAIN Order : Order[i] = p

SearchAssumption ==
  /\ Objectives # {} /\ Patches # {} /\ Broken \subseteq Patches
  /\ {MaxSteps, Period, Batches} \subseteq Nat \ {0}
  /\ \A p \in Phases : PhaseScopes[p] # {} /\ PhaseBudget[p] \in Nat

Baseline == << >>
Crossed(runtime) == Append(runtime, "crossover")
Progress == {"capability", "subskill"}
Kinds == {"capability", "efficiency", "subskill"}

VARIABLES
  mode,     \* artifact_mode: which candidate directories are left standing
  backing,  \* "modules", "spec", or "oracle" for a spec scored by an oracle package
  phase,    \* the scheduler's phase
  left,     \* phase_remaining
  step,     \* the step the run is at
  pc,       \* what the step is at
  cand,     \* the step's candidate
  batch,    \* the batches its full evaluation has scored
  decision, \* the decision of its full evaluation, with whether it was earned
  cells,    \* the archive: its records
  dirs,     \* the runtimes whose directory stands
  rows,     \* the history
  ledger,   \* per stage-4 file, the steps with a row in it
  again     \* history: runtimes proposed again while the archive holds them

vars == <<mode, backing, phase, left, step, pc, cand, batch, decision, cells, dirs, rows,
          ledger, again>>

Ledgers == {"evidence", "comparison", "promotion"}
Files == <<"evidence", "comparison", "promotion">>
NoCand == [parent |-> Baseline, child |-> Baseline, scope |-> "seed", objective |-> "none"]
NoDecision == [type |-> "none", hard |-> FALSE, earned |-> TRUE]

------------------------------------------------------------------------------
(* The evidence of a full evaluation: what the attestation says, whether   *)
(* there are enough pairs, and per axis an effect with its lower bound.    *)
Effect == {[est |-> 1, low |-> 1], [est |-> 1, low |-> 0], [est |-> 1, low |-> -1],
           [est |-> 0, low |-> 0], [est |-> 0, low |-> -1]}
Attestations ==
  [mismatch : BOOLEAN, unsupported : BOOLEAN, health : {"pass", "fail", "missing"},
   leak : {"clean", "leaked", "unknown"}, pairs : BOOLEAN]
Clean == [mismatch |-> FALSE, unsupported |-> FALSE, health |-> "pass", leak |-> "clean",
          pairs |-> TRUE]

Of(att, axes, cheaper, capability, tolerated) ==
  [att |-> att, axes |-> axes, cheaper |-> cheaper, capability |-> capability,
   tolerated |-> tolerated]
Evenly(e) == [a \in Axes |-> e]
Best == [est |-> 1, low |-> 1]
Flat == [est |-> 0, low |-> 0]

(* capability: the axes that carry capability, the others carry subskills; *)
(* tolerated: those that may regress.                                      *)
Evidence ==
  {Of(at, Evenly(Best), TRUE, Axes, {}) : at \in Attestations}
  \cup {Of(Clean, f, c, k, t) : f \in [Axes -> Effect], c \in BOOLEAN,
          k \in SUBSET Axes, t \in {{}} \cup {{a} : a \in Axes}}

(* One of each decision, for the evaluations after a run's first.          *)
Usual ==
  {Of(Clean, Evenly(Best), FALSE, Axes, {}), Of(Clean, Evenly(Best), FALSE, {}, {}),
   Of(Clean, Evenly(Flat), TRUE, Axes, {}), Of(Clean, Evenly(Flat), FALSE, Axes, {})}

Lower(e, axes) == FoldSet(LAMBDA a, s : s + e.axes[a].low, 0, axes)
Improved(e, axes) == {a \in axes : e.axes[a].est > 0}
Regressed(e) == {a \in Axes \ e.tolerated : e.axes[a].low < 0}

(* _best_efficiency_delta clears its margin.                               *)
Cheaper(e) == e.cheaper

(* A faulty variant of Decide: it goes by the estimates, and by what the   *)
(* attestation reports and not by what it leaves out.                      *)
DecideOnEstimates(e) ==
  LET others == Axes \ e.capability
  IN CASE e.att.mismatch -> "quarantine"
       [] e.att.health = "fail" -> "quarantine"
       [] e.att.leak = "leaked" -> "quarantine"
       [] ~e.att.pairs -> "abstain"
       [] Regressed(e) # {} -> "reject"
       [] Improved(e, e.capability) # {} -> "capability"
       [] Cheaper(e) -> "efficiency"
       [] Improved(e, others) # {} -> "subskill"
       [] OTHER -> "no_progress"

(* ProgressOracle.decide                                                   *)
Decide(e) ==
  LET others == Axes \ e.capability
  IN CASE e.att.mismatch -> "quarantine"
       [] e.att.unsupported -> "abstain"
       [] e.att.health = "fail" -> "quarantine"
       [] e.att.health = "missing" -> "abstain"
       [] e.att.leak = "leaked" -> "quarantine"
       [] e.att.leak = "unknown" -> "abstain"
       [] ~e.att.pairs -> "abstain"
       [] Regressed(e) # {} -> "reject"
       [] Improved(e, e.capability) # {} /\ Lower(e, e.capability) > 0 -> "capability"
       [] Cheaper(e) /\ Lower(e, Axes) >= 0 -> "efficiency"
       [] Improved(e, e.capability) # {} -> "no_progress"
       [] Improved(e, others) # {} /\ Lower(e, others) > 0 -> "subskill"
       [] OTHER -> "no_progress"

(* What a decision takes, whatever the order it was reached in.            *)
Earned(type, e) ==
  type \in Kinds =>
    /\ e.att = Clean
    /\ \A a \in Axes : e.axes[a].low >= 0 \/ a \in e.tolerated
    /\ CASE type = "efficiency" -> e.cheaper /\ Lower(e, Axes) >= 0
         [] type = "capability" -> Lower(e, e.capability) > 0
         [] OTHER -> Lower(e, Axes \ e.capability) > 0

(* _optimizer_updates and route_promotion_decision: the archive a decision *)
(* lets its runtime into.                                                  *)
Allowed(type) ==
  CASE type = "capability" -> {"capability_archive", "capability_scheduler"}
    [] type = "efficiency" -> {"efficiency_archive"}
    [] type = "subskill" -> {"subskill_archive", "subskill_scheduler"}
    [] OTHER -> {"diagnostic_predictors"}
(* A faulty variant of Route: every win goes to the capability archive.    *)
RouteToCapability(type) == IF type \in Kinds THEN {"capability"} ELSE {}

Route(type) == {k \in Kinds : k = type /\ k \o "_archive" \in Allowed(type)}

------------------------------------------------------------------------------
Island(objective) == {r \in cells : r.objective = objective}
Held == {r.runtime : r \in cells}
KeepFailures == mode # "none"
KeepSuccesses == mode = "always"

Init ==
  /\ mode \in {"none", "on_failure", "always"}
  /\ backing \in {"modules", "spec", "oracle"}
  /\ phase = "local" /\ left = PhaseBudget /\ step = 0 /\ pc = "idle"
  /\ cand = NoCand /\ batch = 0 /\ decision = NoDecision
  /\ cells = {[kind |-> "capability", objective |-> o, scope |-> "seed",
               runtime |-> Baseline, step |-> 0] : o \in Objectives}
  /\ dirs = {Baseline} /\ rows = << >>
  /\ ledger = [f \in Ledgers |-> {}] /\ again = {}

(* A faulty variant of Prepared: the budget of a phase binds only on the   *)
(* way out of it.                                                          *)
PreparedOnce == {phase}

(* A faulty variant of Prepared: a phase with steps left is gone back to.  *)
PreparedAnywhere ==
  LET open == {i \in DOMAIN Order : left[Order[i]] > 0}
  IN IF open = {} THEN {} ELSE {Order[Max(open)]}

(* _prepare_phase: the first phase from the current one on with steps left. *)
Prepared ==
  LET open == {i \in Rank(phase) .. Len(Order) : left[Order[i]] > 0}
  IN IF open = {} THEN {} ELSE {Order[Min(open)]}

(* The parent is drawn from the objective's island; a runtime of policy    *)
(* modules may be crossed with another of the island.  A parent without a  *)
(* directory stops the run: its archive and history are never written.     *)
Begin(o, s, r, cross) ==
  /\ pc = "idle" /\ step < MaxSteps
  /\ \E p \in Prepared :
       /\ s \in PhaseScopes[p]
       /\ phase' = p /\ left' = [left EXCEPT ![p] = @ - 1]
  /\ cross => backing = "modules" /\ \E d \in Island(o) : d.runtime # r.runtime
  /\ LET base == IF cross THEN Crossed(r.runtime) ELSE r.runtime
     IN /\ step' = step + 1
        /\ IF r.runtime \in dirs
           THEN /\ pc' = "propose" /\ dirs' = dirs \cup {base}
                /\ cand' = [parent |-> base, child |-> base, scope |-> s, objective |-> o]
           ELSE pc' = "crashed" /\ UNCHANGED <<dirs, cand>>
  /\ UNCHANGED <<mode, backing, batch, decision, cells, rows, ledger, again>>

Row(type, accepted) ==
  [step |-> step, phase |-> phase, scope |-> cand.scope, type |-> type,
   accepted |-> accepted]

(* A step's row, and the crossed parent's directory removed again.         *)
EndStep(type, accepted, standing) ==
  /\ rows' = Append(rows, Row(type, accepted))
  /\ dirs' = IF KeepSuccesses THEN standing
             ELSE standing \ {d \in {cand.parent} : d # Baseline /\ Last(d) = "crossover"}
  /\ pc' = "tick" /\ cand' = NoCand /\ batch' = 0 /\ decision' = NoDecision

(* A patched child is named after its parent and patch, a compiled one     *)
(* after its parent's spec and the actions.                                *)
Child(patch) == Append(cand.parent, patch)

(* The child is written into the directory its parent and patch name,      *)
(* replacing what stands there; a patch that does not apply leaves what it *)
(* wrote.  Specs have no stage 0: their child is compiled, not patched.    *)
Propose(patch) ==
  /\ pc = "propose"
  /\ LET child == Child(patch)
     IN /\ again' = again \cup ({child} \cap Held)
        /\ IF patch \in Broken
           THEN backing = "modules" /\ EndStep("none", FALSE, dirs \cup {child})
           ELSE /\ pc' = "gates" /\ dirs' = dirs \cup {child}
                /\ cand' = [cand EXCEPT !.child = child]
                /\ UNCHANGED <<rows, batch, decision>>
  /\ UNCHANGED <<mode, backing, phase, left, step, cells, ledger>>

(* What is left of a candidate that failed a stage.  The evaluator cleans  *)
(* up after a failure; after one that is not hard the engine cleans up as  *)
(* after a success.                                                        *)
Standing(hard) ==
  IF KeepSuccesses \/ (hard /\ KeepFailures) THEN dirs ELSE dirs \ {cand.child}

(* Stages 1 to 3: smoke, proxy and local subset.                           *)
Pass ==
  /\ pc = "gates" /\ pc' = "full"
  /\ UNCHANGED <<mode, backing, phase, left, step, cand, batch, decision, cells, dirs, rows,
                 ledger, again>>

Fail(hard) ==
  /\ pc = "gates" /\ EndStep("none", FALSE, Standing(hard))
  /\ UNCHANGED <<mode, backing, phase, left, step, cells, ledger, again>>

(* Stage 4 scores batch after batch; an invalid one and one that leaves no *)
(* hope end it with a rejection.                                           *)
ScoreBatch ==
  /\ pc = "full" /\ batch + 1 < Batches /\ batch' = batch + 1
  /\ UNCHANGED <<mode, backing, phase, left, step, pc, cand, decision, cells, dirs, rows,
                 ledger, again>>

GiveUp(invalid) ==
  /\ pc = "full" /\ pc' = "file"
  /\ decision' = [type |-> "reject", hard |-> invalid, earned |-> TRUE]
  /\ UNCHANGED <<mode, backing, phase, left, step, cand, batch, cells, dirs, rows, ledger,
                 again>>

Judge ==
  /\ pc = "full" /\ batch + 1 = Batches /\ pc' = "file"
  /\ \E e \in IF step = 1 THEN Evidence ELSE Usual :
       decision' = [type |-> Decide(e), hard |-> FALSE, earned |-> Earned(Decide(e), e)]
  /\ UNCHANGED <<mode, backing, phase, left, step, cand, batch, cells, dirs, rows, ledger,
                 again>>

(* _write_stage4_ledgers: three files, appended to one after the other.    *)
Filed == {f \in Ledgers : step \in ledger[f]}

(* A faulty variant of NextFile: the promotion is written first.           *)
PromotionFirst == Reverse(Files)[Cardinality(Filed) + 1]

NextFile == Files[Cardinality(Filed) + 1]

File ==
  /\ pc = "file"
  /\ ledger' = [ledger EXCEPT ![NextFile] = @ \cup {step}]
  /\ pc' = IF Cardinality(Filed) = 2 THEN "retain" ELSE "file"
  /\ UNCHANGED <<mode, backing, phase, left, step, cand, batch, decision, cells, dirs, rows,
                 again>>

------------------------------------------------------------------------------
Record(kind, o) ==
  [kind |-> kind, objective |-> o, scope |-> cand.scope, runtime |-> cand.child,
   step |-> step]
Rivals(kind, o) ==
  {r \in cells : r.kind = kind /\ r.objective = o /\ r.scope = cand.scope}

(* QualityDiversityArchive.insert: a record is let into a free cell, or    *)
(* over the incumbent of its cell.                                         *)
Inserted(kind, into, out) == (cells \ out) \cup {Record(kind, o) : o \in into}
CanInsert(kind, into, out) ==
  /\ \A o \in into : Cardinality(out \cap Rivals(kind, o)) <= 1
  /\ out \subseteq UNION {Rivals(kind, o) : o \in into}
  /\ \A o \in into : {r \in Rivals(kind, o) : r.runtime = cand.child} \subseteq out

(* A faulty variant of AfterInsert: cleaned up whether let in or not.      *)
AfterInsertCleaned(accepted) == IF KeepSuccesses THEN dirs ELSE dirs \ {cand.child}

(* A candidate the archive let in keeps its directory.                     *)
AfterInsert(accepted) ==
  IF accepted \/ KeepSuccesses THEN dirs ELSE dirs \ {cand.child}

Passed == decision.type \in Kinds /\ ~decision.hard

Retain ==
  /\ pc = "retain" /\ Passed
  /\ \E kind \in Route(decision.type), into \in SUBSET Objectives,
        out \in SUBSET {r \in cells : r.step > 0} :
       /\ CanInsert(kind, into, out)
       /\ cells' = Inserted(kind, into, out)
       /\ EndStep(decision.type, into # {}, AfterInsert(into # {}))
  /\ UNCHANGED <<mode, backing, phase, left, step, ledger, again>>

(* An evaluation that lacks an objective of the oracle package.            *)
Quarantine ==
  /\ pc = "retain" /\ Passed /\ backing = "oracle"
  /\ EndStep("quarantine", FALSE, IF KeepFailures THEN dirs ELSE dirs \ {cand.child})
  /\ UNCHANGED <<mode, backing, phase, left, step, cells, ledger, again>>

Refuse ==
  /\ pc = "retain" /\ ~Passed
  /\ EndStep(decision.type, FALSE, Standing(decision.hard))
  /\ UNCHANGED <<mode, backing, phase, left, step, cells, ledger, again>>

(* _validation_tick: the leader of each validated island is run, then the  *)
(* scheduler may move on.                                                  *)
Wins(rs) == {i \in DOMAIN rs : rs[i].accepted /\ rs[i].type \in Progress}
Covered == {rows[i].scope : i \in Wins(rows)} \cap PhaseScopes[phase]
Advances ==
  /\ 10 * Cardinality(Covered) > 6 * Cardinality(PhaseScopes[phase])
  /\ \E i \in Wins(rows) : i > Len(rows) - 5

Validated == IF backing = "oracle" THEN Objectives ELSE {CHOOSE o \in Objectives : TRUE}
CanLead(r) == r.runtime \in dirs

Tick ==
  /\ pc = "tick"
  /\ \/ step % Period # 0 /\ pc' = "idle" /\ UNCHANGED phase
     \/ /\ step % Period = 0 /\ pc' = "crashed" /\ UNCHANGED phase
        /\ \E o \in Validated, r \in cells : r.objective = o /\ ~CanLead(r)
     \/ /\ step % Period = 0 /\ pc' = "idle"
        /\ \A o \in Validated : \E r \in Island(o) : CanLead(r)
        /\ \E improved \in BOOLEAN :
             phase' = IF ~improved /\ Advances /\ phase # "joint"
                      THEN Order[Rank(phase) + 1] ELSE phase
  /\ UNCHANGED <<mode, backing, left, step, cand, batch, decision, cells, dirs, rows, ledger,
                 again>>

(* The run ends when its steps or its phases are used up: history and      *)
(* archive index are written.                                              *)
Finish ==
  /\ pc = "idle" /\ (step = MaxSteps \/ Prepared = {}) /\ pc' = "done"
  /\ phase' = IF step < MaxSteps THEN "joint" ELSE phase
  /\ UNCHANGED <<mode, backing, left, step, cand, batch, decision, cells, dirs, rows, ledger,
                 again>>

Step ==
  /\ pc = "idle"
  /\ \E o \in Objectives, s \in UNION {PhaseScopes[p] : p \in Prepared} :
       \E r \in Island(o), cross \in BOOLEAN : Begin(o, s, r, cross)

Next ==
  \/ Step \/ Pass \/ ScoreBatch \/ Judge \/ File \/ Retain \/ Quarantine \/ Refuse \/ Tick
  \/ Finish
  \/ \E p \in Patches : Propose(p)
  \/ \E b \in BOOLEAN : Fail(b) \/ GiveUp(b)

Spec == Init /\ [][Next]_vars

------------------------------------------------------------------------------
TypeOK ==
  /\ phase \in Phases /\ \A p \in Phases : left[p] \in 0 .. PhaseBudget[p]
  /\ step \in 0 .. MaxSteps /\ batch \in 0 .. Batches
  /\ pc \in {"idle", "propose", "gates", "full", "file", "retain", "tick", "done",
             "crashed"}
  /\ \A r \in cells : r.kind \in Kinds /\ r.objective \in Objectives
  /\ Len(rows) <= step /\ DOMAIN ledger = Ledgers

(* Nothing is promoted that its evidence does not carry: a clean           *)
(* attestation, no protected axis regressed, and a lower bound in favour   *)
(* of what it is promoted for.                                             *)
DecisionsAreEarned == decision.earned

(* Every record besides the seeds came of a step whose evidence,           *)
(* comparison and promotion were filed, whose row says accepted, and whose *)
(* decision is of the record's kind.                                       *)
RecordsAreOnFile ==
  \A r \in cells : r.step > 0 =>
    /\ r.step \in ledger["evidence"] \cap ledger["comparison"] \cap ledger["promotion"]
    /\ \E i \in DOMAIN rows :
         rows[i] = [step |-> r.step, phase |-> rows[i].phase, scope |-> r.scope,
                    type |-> r.kind, accepted |-> TRUE]

(* A runtime of the archive can be run: its directory stands, unless it    *)
(* was proposed a second time and that candidate was cleaned up.           *)
ArchivedRuntimesStand ==
  \A r \in cells : r.runtime \in dirs \/ (r.runtime \in again /\ ~KeepSuccesses)

(* The ledgers can be read from the promotion back to its evidence.        *)
LedgersAreCausal ==
  ledger["promotion"] \subseteq ledger["comparison"]
  /\ ledger["comparison"] \subseteq ledger["evidence"]

(* A phase is never gone back to and never takes more steps than its       *)
(* budget, and a step's scope is one its phase admits.                     *)
PhasesKeepTheirBudget ==
  /\ \A p \in Phases : Cardinality({i \in DOMAIN rows : rows[i].phase = p}) <= PhaseBudget[p]
  /\ \A i \in DOMAIN rows : rows[i].scope \in PhaseScopes[rows[i].phase]
  /\ \A i, j \in DOMAIN rows : i < j => Rank(rows[i].phase) <= Rank(rows[j].phase)

EvolutionIsAccountable ==
  /\ DecisionsAreEarned /\ RecordsAreOnFile /\ ArchivedRuntimesStand
  /\ LedgersAreCausal /\ PhasesKeepTheirBudget
=============================================================================
