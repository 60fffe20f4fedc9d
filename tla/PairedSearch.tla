---------------------------- MODULE PairedSearch ----------------------------
(***************************************************************************)
(* The paired one-plus-lambda search over harness protocols.  A proposer   *)
(* outside the program names semantic transactions against the incumbent,  *)
(* an evaluator outside the program reports which task keys each protocol  *)
(* repairs, and the search keeps the child whose paired outcomes improve   *)
(* on the incumbent's by the margins of the frozen epoch.                  *)
(*                                                                         *)
(* A protocol is a function from source paths to small values; zero is     *)
(* absent, or the value the founding protocol has.  The founding actor a    *)
(* feeds from the others; b is an actor that may be split off it.          *)
(***************************************************************************)
EXTENDS Integers, Sequences, SequencesExt, FiniteSets, Folds

CONSTANTS Key,          \* the pair keys of the task panel
          Outcome,      \* sets of keys a panel may report as repaired
          TransactionId,
          Envelope,     \* epochs: live, steps, offspring, evaluations,
                        \* patience, whether ids may repeat, and controls
          MinPairs, MinGain, MaxRegressions

VARIABLES envelope, phase, incumbent, retained, lineage, decisions, batch,
          step, idle, controls, panels, reused, baseline

vars == <<envelope, phase, incumbent, retained, lineage, decisions, batch,
          step, idle, controls, panels, reused, baseline>>

SearchAssumption ==
  /\ Outcome \subseteq SUBSET Key /\ Key # {}
  /\ {MinPairs, MinGain} \subseteq Nat \ {0} /\ MaxRegressions \in Nat
  /\ \A e \in Envelope : {e.steps, e.offspring, e.evaluations, e.patience}
                           \subseteq Nat \ {0}

------------------------------------------------------------------------------
(* Protocols and semantic transactions                                     *)

Path == {<<"a", "share">>, <<"a", "text">>, <<"b">>, <<"b", "text">>,
         <<"report">>, <<"second">>, <<"draft">>,
         <<"revision">>}

Founding == [p \in Path |-> 0]

(* The patches a typed operator may carry here: what the parent must have, *)
(* what the child gets, and the paths the operator declares as touched.    *)
ActorSplit ==
  [reads |-> [p \in {<<"a", "share">>, <<"b">>, <<"report">>} |-> 0],
   writes |-> [p \in {<<"a", "share">>, <<"b">>, <<"report">>} |-> 1]]
ChannelAdd ==
  [reads |-> <<"b">> :> 1 @@ <<"second">> :> 0, writes |-> <<"second">> :> 1]
ChannelRewire ==
  [reads |-> <<"b">> :> 1 @@ <<"report">> :> 1 @@ <<"revision">> :> 0,
   writes |-> <<"report">> :> 2]
RevisionInsert ==
  [reads |-> <<"report">> :> 1 @@ <<"draft">> :> 0 @@ <<"revision">> :> 0,
   writes |-> <<"report">> :> 1 @@ <<"draft">> :> 1 @@ <<"revision">> :> 1]
RevisionRemove ==
  [reads |-> <<"report">> :> 1 @@ <<"draft">> :> 1 @@ <<"revision">> :> 1,
   writes |-> <<"report">> :> 1 @@ <<"draft">> :> 0 @@ <<"revision">> :> 0]
InstructionRewrite(actor, from) ==
  [reads |-> IF actor = "b" THEN <<"b">> :> 1 @@ <<"b", "text">> :> from
             ELSE <<"a", "text">> :> from,
   writes |-> <<actor, "text">> :> 1 - from]

Patch == {ActorSplit, ChannelAdd, ChannelRewire, RevisionInsert, RevisionRemove}
           \cup {InstructionRewrite(actor, from) : actor \in {"a", "b"}, from \in 0..1}

Touched(patch) == DOMAIN patch.writes

(* fits stands for everything that ties the proposal to the request: the   *)
(* digests of the parent, its plan, the task and the dependencies, the     *)
(* operator's metadata, the budget effect and the compilation of the child.*)
Proposal == [id : TransactionId, patch : Patch, needs : SUBSET TransactionId,
             fits : BOOLEAN]

Overlap(left, right) == IsPrefix(left, right) \/ IsPrefix(right, left)

TouchSamePath(one, other) ==
  \E left \in Touched(one), right \in Touched(other) : Overlap(left, right)

Ids(transactions) == {transactions[i].id : i \in DOMAIN transactions}

(* _validate_lineage_dependencies.                                         *)
LineageAllows(proposal, transactions) ==
  /\ proposal.id \notin Ids(transactions)
  /\ proposal.needs \subseteq Ids(transactions)
  /\ \A i \in DOMAIN transactions :
       TouchSamePath(transactions[i].patch, proposal.patch)
         => transactions[i].id \in proposal.needs

(* apply_semantic_transaction accepts the proposal for this parent.        *)
Applies(proposal, protocol, transactions) ==
  /\ proposal.fits
  /\ LineageAllows(proposal, transactions)
  /\ \A p \in DOMAIN proposal.patch.reads : protocol[p] = proposal.patch.reads[p]

Child(protocol, patch) == patch.writes @@ protocol

------------------------------------------------------------------------------
(* Paired retention                                                        *)

Gains(parent, child) == Cardinality(child \ parent)

(* _authorize_paired_retention: keys the child repairs and the parent does *)
(* not, less those it loses.                                               *)
Improves(parent, child) ==
  /\ Cardinality(Key) >= MinPairs
  /\ Gains(child, parent) <= MaxRegressions
  /\ Gains(parent, child) - Gains(child, parent) >= MinGain

------------------------------------------------------------------------------
(* The run                                                                 *)

MaxOpportunities ==
  LET all == envelope.steps * envelope.offspring IN
  IF envelope.evaluations < all THEN envelope.evaluations ELSE all

Opportunities == Len(lineage) + Len(batch)

Requested ==
  LET remaining == MaxOpportunities - Len(lineage) IN
  IF envelope.offspring < remaining THEN envelope.offspring ELSE remaining

Candidate(proposal) == [parent |-> incumbent.id, id |-> proposal.id,
                        patch |-> proposal.patch, needs |-> proposal.needs]

FoundingId == [founding |-> TRUE]

Init ==
  /\ envelope \in Envelope
  /\ phase = "founding"
  /\ incumbent = [id |-> FoundingId, protocol |-> Founding, repairs |-> {}]
  /\ retained = <<>> /\ lineage = <<>> /\ decisions = <<>> /\ batch = <<>>
  /\ step = 0 /\ idle = 0 /\ controls = 0 /\ panels = 0 /\ reused = FALSE
  /\ baseline = {}

(* An error: a founding parent that is not healthy, an evaluator that      *)
(* fails or answers for another candidate, a batch of the wrong size, a    *)
(* child that compiles for the first task and not for another one.         *)
Fail ==
  /\ phase \in {"founding", "controls", "step", "batch"}
  /\ phase' = "error"
  /\ UNCHANGED <<envelope, incumbent, retained, lineage, decisions, batch, step,
                 idle, controls, panels, reused, baseline>>

(* The founding panel, and the stop when nothing can be measured against it.*)
EvaluateFounding ==
  /\ phase = "founding"
  /\ \E repairs \in Outcome \cup {{}, Key} :
       /\ incumbent' = [incumbent EXCEPT !.repairs = repairs]
       /\ baseline' = repairs
       /\ phase' = IF repairs \in {{}, Key} THEN "no_headroom" ELSE "controls"
  /\ panels' = 1
  /\ UNCHANGED <<envelope, retained, lineage, decisions, batch, step, idle,
                 controls, reused>>

(* A control's panel, healthy or not.  The founding parent is a control    *)
(* too, and a panel already seen of the same protocol passes every check   *)
(* made here.                                                              *)
EvaluateControl ==
  /\ phase = "controls" /\ controls < envelope.controls
  /\ controls' = controls + 1 /\ panels' = panels + 1
  /\ reused' \in IF envelope.live THEN {TRUE, reused} ELSE {reused}
  /\ UNCHANGED <<envelope, phase, incumbent, retained, lineage, decisions, batch,
                 step, idle, baseline>>

ControlsDone ==
  /\ phase = "controls" /\ controls = envelope.controls
  /\ phase' = "step"
  /\ UNCHANGED <<envelope, incumbent, retained, lineage, decisions, batch, step,
                 idle, controls, panels, reused, baseline>>

BeginStep ==
  /\ phase = "step" /\ step < envelope.steps
  /\ Len(lineage) < MaxOpportunities /\ idle < envelope.patience
  /\ phase' = "batch"
  /\ UNCHANGED <<envelope, incumbent, retained, lineage, decisions, batch, step,
                 idle, controls, panels, reused, baseline>>

Record(proposal, status, repairs, protocol) ==
  [proposal |-> proposal, status |-> status, repairs |-> repairs,
   protocol |-> protocol, candidate |-> Candidate(proposal)]

MayPropose(proposal) ==
  envelope.repeat \/ \A i \in DOMAIN batch : batch[i].proposal.id # proposal.id

(* A proposal that does not apply; which one it is makes no difference.    *)
RefuseProposal ==
  /\ phase = "batch" /\ Len(batch) < Requested
  /\ \E proposal \in Proposal :
       /\ MayPropose(proposal) /\ ~Applies(proposal, incumbent.protocol, retained)
       /\ proposal.patch = ActorSplit /\ proposal.needs = {}
       /\ batch' = Append(batch, Record(proposal, "invalid_transaction", {}, Founding))
  /\ UNCHANGED <<envelope, phase, incumbent, retained, lineage, decisions, step,
                 idle, controls, panels, reused, baseline>>

(* The evaluator has given this panel for this protocol before.            *)
Seen(protocol, repairs) ==
  \/ protocol = Founding /\ repairs = baseline
  \/ \E r \in Range(lineage \o batch) :
       r.status # "invalid_transaction" /\ r.protocol = protocol /\ r.repairs = repairs

(* A valid child is compiled and evaluated, and either fails the health    *)
(* floor, or its paired outcomes do not improve, or it is eligible.        *)
EvaluateChild ==
  /\ phase = "batch" /\ Len(batch) < Requested
  /\ \E proposal \in Proposal, repairs \in Outcome, healthy \in BOOLEAN :
       /\ MayPropose(proposal) /\ Applies(proposal, incumbent.protocol, retained)
       /\ LET status == IF ~healthy THEN "health_rejected"
                        ELSE IF Improves(incumbent.repairs, repairs) THEN "eligible"
                        ELSE "outcome_rejected"
          IN batch' = Append(batch, Record(proposal, status, repairs,
                                Child(incumbent.protocol, proposal.patch)))
       /\ reused' \in IF envelope.live
                        /\ Seen(Child(incumbent.protocol, proposal.patch), repairs)
                      THEN {TRUE, reused} ELSE {reused}
  /\ panels' = panels + 1
  /\ UNCHANGED <<envelope, phase, incumbent, retained, lineage, decisions, step,
                 idle, controls, baseline>>

Eligible == {i \in DOMAIN batch : batch[i].status = "eligible"}

(* The records of a batch: the refused ones as they came, then the         *)
(* eligible ones, each with the first proposal of its transaction id.      *)
Settled(selected) ==
  LET first(id) == CHOOSE i \in DOMAIN batch :
                     /\ batch[i].proposal.id = id
                     /\ \A j \in 1..(i - 1) : batch[j].proposal.id # id
      mark(r) == [r EXCEPT !.proposal = batch[first(r.proposal.id)].proposal,
                           !.status = IF r.candidate = selected THEN "promoted"
                                      ELSE "batch_not_selected"]
      refused == SelectSeq(batch, LAMBDA r : r.status # "eligible")
      passed == SelectSeq(batch, LAMBDA r : r.status = "eligible")
  IN refused \o [i \in DOMAIN passed |-> mark(passed[i])]

Decide(selected) ==
  /\ decisions' = Append(decisions, [before |-> incumbent.id, selected |-> selected])
  /\ batch' = <<>> /\ phase' = "step" /\ step' = step + 1
  /\ UNCHANGED <<envelope, controls, panels, reused, baseline>>

KeepIncumbent ==
  /\ phase = "batch" /\ Len(batch) = Requested /\ Eligible = {}
  /\ lineage' = lineage \o batch
  /\ idle' = idle + 1
  /\ Decide(incumbent.id)
  /\ UNCHANGED <<incumbent, retained>>

(* A faulty variant: the next children are paired with the parent's panel. *)
TakeProtocolOnly(r) ==
  incumbent' = [id |-> r.candidate, protocol |-> r.protocol,
                repairs |-> incumbent.repairs]

Take(r) ==
  incumbent' = [id |-> r.candidate, protocol |-> r.protocol, repairs |-> r.repairs]

(* The selected child has the most complete repairs; cost, wall time,      *)
(* simplicity and the candidate's digest break ties.                       *)
SelectChild ==
  /\ phase = "batch" /\ Len(batch) = Requested
  /\ \E i \in Eligible :
       /\ \A j \in Eligible :
            Cardinality(batch[j].repairs) <= Cardinality(batch[i].repairs)
       /\ lineage' = lineage \o Settled(batch[i].candidate)
       /\ Take(batch[i])
       /\ retained' = Append(retained, batch[i].proposal)
       /\ Decide(batch[i].candidate)
  /\ idle' = 0

(* The end: a live search whose panels were not all its own is refused     *)
(* here, after the last evaluation.                                        *)
Finish ==
  /\ \/ phase = "no_headroom"
     \/ phase = "step"
          /\ \/ step = envelope.steps \/ Len(lineage) >= MaxOpportunities
             \/ idle >= envelope.patience
  /\ phase' = IF reused THEN "error"
              ELSE IF phase = "no_headroom" THEN "no_headroom_result"
              ELSE IF retained # <<>>
                THEN IF /\ step < envelope.steps /\ Len(lineage) < MaxOpportunities
                     THEN "stopped_by_rule" ELSE "completed"
              ELSE IF \A i \in DOMAIN lineage : lineage[i].status = "invalid_transaction"
                THEN "no_valid_semantic_descendants"
              ELSE "no_outcome_improving_descendant"
  /\ UNCHANGED <<envelope, incumbent, retained, lineage, decisions, batch, step,
                 idle, controls, panels, reused, baseline>>

Next ==
  \/ EvaluateFounding \/ EvaluateControl \/ ControlsDone \/ BeginStep
  \/ RefuseProposal \/ EvaluateChild \/ KeepIncumbent \/ SelectChild
  \/ Finish \/ Fail

Spec == Init /\ [][Next]_vars

------------------------------------------------------------------------------
(* The type invariant.                                                     *)
TypeOK ==
  /\ envelope \in Envelope
  /\ phase \in {"founding", "controls", "step", "batch", "no_headroom", "error",
               "no_headroom_result", "stopped_by_rule", "completed",
               "no_valid_semantic_descendants", "no_outcome_improving_descendant"}
  /\ incumbent.protocol \in [Path -> 0..2] /\ incumbent.repairs \subseteq Key
  /\ baseline \subseteq Key
  /\ \A r \in Range(lineage \o batch) : r.proposal \in Proposal
  /\ \A i \in DOMAIN retained : retained[i] \in Proposal
  /\ step \in 0..envelope.steps /\ idle \in 0..step
  /\ controls \in 0..envelope.controls /\ reused \in BOOLEAN

(* Decisions follow each other, and the incumbent's protocol is what the   *)
(* retained transactions make of the founding one.                         *)
DecisionsChain ==
  /\ \A i \in DOMAIN decisions :
       decisions[i].before = IF i = 1 THEN FoundingId ELSE decisions[i - 1].selected
  /\ decisions # <<>> => incumbent.id = Last(decisions).selected
  /\ incumbent.protocol =
       FoldLeft(LAMBDA protocol, t : Child(protocol, t.patch), Founding, retained)

PanelsOf(candidate) ==
  IF candidate = FoundingId THEN {baseline}
  ELSE {r.repairs : r \in {q \in Range(lineage) :
                             q.status = "promoted" /\ q.candidate = candidate}}

(* Every change of incumbent is backed by the recorded panels of the two,  *)
(* and the gains add up.                                                   *)
EdgesImprove ==
  /\ \A i \in DOMAIN decisions :
       decisions[i].selected # decisions[i].before =>
         \E parent \in PanelsOf(decisions[i].before),
            child \in PanelsOf(decisions[i].selected) : Improves(parent, child)
  /\ Cardinality(incumbent.repairs)
       >= Cardinality(baseline) + MinGain * Len(retained)

(* A retained transaction depends on each earlier one whose paths it       *)
(* overlaps.                                                               *)
DependenciesCover ==
  \A i, j \in DOMAIN retained :
    i < j /\ TouchSamePath(retained[i].patch, retained[j].patch)
      => retained[i].id \in retained[j].needs

(* Each opportunity left one record, each panel belongs to one of them,    *)
(* and when the ids of a batch differ a decision promotes one record,      *)
(* filed with its own proposal.                                            *)
RecordsAddUp ==
  /\ Opportunities <= MaxOpportunities
  /\ phase \notin {"founding", "error"} =>
       panels = 1 + controls + Cardinality({i \in DOMAIN (lineage \o batch) :
         (lineage \o batch)[i].status # "invalid_transaction"})
  /\ envelope.repeat \/
       /\ Cardinality({i \in DOMAIN lineage : lineage[i].status = "promoted"})
            = Len(retained)
       /\ \A r \in Range(lineage) : r.proposal.patch = r.candidate.patch

(* The result of a search is accounted for by its records: whatever the    *)
(* proposer and the evaluator did, the final protocol is the founding one  *)
(* changed by the retained transactions, each improved the exact panel of  *)
(* the incumbent it replaced, and no live panel counts twice               *)
(* (run_paired_harness_search).                                            *)
SearchIsAccountable ==
  /\ DecisionsChain /\ EdgesImprove /\ DependenciesCover /\ RecordsAddUp
  /\ phase \in {"completed", "stopped_by_rule"} => ~reused
  /\ phase = "stopped_by_rule" =>
       \A i \in 0..(envelope.patience - 1) :
         LET d == decisions[Len(decisions) - i] IN d.selected = d.before
=============================================================================
