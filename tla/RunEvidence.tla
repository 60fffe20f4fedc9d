----------------------------- MODULE RunEvidence -----------------------------
(* The evidence of a finished run: what the executor makes of its result   *)
(* (runtime/sdk/harness_executor.py), how runtime/evidence.py reconciles   *)
(* it with the plan, and what RunEvidence demands of itself                *)
(* (contracts/run_evidence.py) before it may be bound to an evaluator's    *)
(* outcome.                                                                *)
(*                                                                         *)
(* Module CompositeRun gives the run: the artifact store, the tool         *)
(* service, the ledger and the context manifests are books that were kept  *)
(* apart, and the assembler compares each with the plan and the others.    *)
(* Identities and digests are left out where one component copies what     *)
(* another hands it.                                                       *)
EXTENDS CompositeRun, SequencesExt

VARIABLE
  evidence   \* the run's controlled evidence, or why there is none

evidenceVars == <<vars, evidence>>

Nothing ==
  [at |-> "none", success |-> FALSE, patch |-> 0, inEnvelope |-> FALSE,
   numbering |-> "run", ownIds |-> TRUE]

EvidenceInit == Init /\ evidence = Nothing

(***************************************************************************)
(* What the executor derives from the result                               *)
(***************************************************************************)
Completed == SubSeq(compiled.calls, 1, pos - 1)

ToolRounds(c) == {i \in DOMAIN receipts : receipts[i].step = 0 /\ receipts[i].call = c}

(* The id of the i-th receipt's request. Actors make them up; the runtime  *)
(* asks only that a call does not use one twice. They may be numbered      *)
(* through the run, or by each call anew.                                  *)
RequestId(i, numbering) ==
  IF numbering = "run" THEN i
  ELSE Cardinality({j \in ToolRounds(receipts[i].call) : j <= i})

(* One attempt for every round: each tool request, and the terminal turn.  *)
ProviderCalls(numbering) ==
  {[call |-> receipts[i].call, kind |-> "tool_request",
    turn |-> Cardinality({j \in ToolRounds(receipts[i].call) : j < i}),
    request |-> RequestId(i, numbering), receipt |-> i] :
      i \in {j \in DOMAIN receipts : receipts[j].step = 0}}
  \cup
  {[call |-> c, kind |-> "terminal", turn |-> Cardinality(ToolRounds(c)),
    request |-> 0, receipt |-> 0] : c \in Range(Completed)}

BlockedStatuses == {"output_limit", "budget_rejected"}

ToolReceipts ==
  [i \in DOMAIN receipts |->
     [phase |-> IF receipts[i].step = 0 THEN "actor_tool"
                ELSE "terminal_public_verification",
      step |-> receipts[i].step, bytes |-> receipts[i].size,
      status |-> IF receipts[i].status \in BlockedStatuses THEN "blocked"
                 ELSE receipts[i].status]]

(***************************************************************************)
(* assemble_run_evidence                                                   *)
(***************************************************************************)
(* The calls of the result, and their contexts, cover the schedule.        *)
ResultCoversPlan ==
  /\ Completed = Schedule(protocol)
  /\ outputs = Calls(protocol)

(* A prior output that a call was shown is that of a call that completed,  *)
(* and what it reads is the plan's.                                        *)
ContextsAgree ==
  \A c \in Range(Completed) : \A r \in ContextReads(protocol, c) :
    r.kind = "prior_actor_output" => r.ref \in outputs

Reads == UNION {{<<ch, c>> : ch \in ArtifactsRead(c)} : c \in Range(Completed)}

Direct(read) == read \in delivered

(* A faulty variant takes for retained only what the same call was given.  *)
RetainedByCall(read) == read \in delivered

Retained(read) ==
  \E c \in Range(Completed) :
    c[1] = read[2][1] /\ <<read[1], c>> \in delivered

ReadersPlanned(ch) == {c \in Calls(protocol) : ReadArtifact(ch) \in ContextReads(protocol, c)}

(* The artifact store's records and deliveries against the plan.           *)
StoreAgrees ==
  /\ stored = protocol.channels
  /\ \A ch \in stored : Range(readers[ch]) = ReadersPlanned(ch)
  /\ AllDelivered

(* The flow in itself: each read is of a delivery, or of what its actor    *)
(* was given before; every delivery is read; and an artifact's consumers   *)
(* are its readers.                                                        *)
FlowAgrees ==
  /\ \A r \in Reads : Direct(r) \/ Retained(r)
  /\ delivered \subseteq Reads
  /\ \A ch \in stored : Range(readers[ch]) = {r[2] : r \in {x \in Reads : x[1] = ch}}

(* The rounds of a call are numbered from zero and end with its one        *)
(* terminal answer.                                                        *)
RoundsAgree(numbering) ==
  \A c \in Range(Completed) :
    LET of == {p \in ProviderCalls(numbering) : p.call = c} IN
    /\ {p.turn : p \in of} = 0..(Cardinality(of) - 1)
    /\ \A p \in of : p.kind = "terminal" <=> p.turn = Cardinality(of) - 1

(* Response ids and tool requests are unique in the run, and every request *)
(* has its receipt.                                                        *)
CallsAgree(numbering, ownIds) ==
  LET asking == {p \in ProviderCalls(numbering) : p.kind = "tool_request"} IN
  /\ Cardinality(ProviderCalls(numbering)) > 1 => ownIds
  /\ \A x, y \in asking : x.request = y.request => x = y
  /\ {p.receipt : p \in asking}
       = {i \in DOMAIN ToolReceipts : ToolReceipts[i].phase = "actor_tool"}

(* Every public step has one receipt, in order, and the verdict is what    *)
(* they say.                                                               *)
VerificationAgrees ==
  LET public == SelectSeq(ToolReceipts,
                          LAMBDA r : r.phase = "terminal_public_verification")
      allSucceeded == \A i \in DOMAIN public : public[i].status = "succeeded" IN
  /\ [i \in DOMAIN public |-> public[i].step] = [i \in 1..Steps |-> i]
  /\ (outcome = "completed") = allSucceeded

Add(a, b) == a + b
TotalBytes == FoldFunction(Add, 0, [i \in DOMAIN ToolReceipts |-> ToolReceipts[i].bytes])

(* The ledger against the rounds and the receipts.                         *)
BudgetAgrees(numbering) ==
  /\ models = Cardinality(ProviderCalls(numbering))
  /\ tools = Len(ToolReceipts)
  /\ bytes = TotalBytes

Assembles(numbering, ownIds) ==
  /\ ResultCoversPlan /\ ContextsAgree /\ StoreAgrees
  /\ RoundsAgree(numbering) /\ BudgetAgrees(numbering) /\ VerificationAgrees
  /\ FlowAgrees /\ CallsAgree(numbering, ownIds)

Filed(numbering, ownIds) ==
  [at |-> "filed", success |-> outcome = "completed", patch |-> patch,
   inEnvelope |-> ~late, numbering |-> numbering, ownIds |-> ownIds]

(* A run that is paid for and finished may still be refused here: the      *)
(* result then never reaches its caller.                                   *)
Assemble(numbering, ownIds) ==
  /\ pc = "done" /\ outcome \in {"completed", "public_verification_failed"}
  /\ evidence.at = "none"
  /\ evidence' =
       IF Assembles(numbering, ownIds) THEN Filed(numbering, ownIds)
       ELSE [Nothing EXCEPT !.at = "refused", !.numbering = numbering,
                            !.ownIds = ownIds]
  /\ UNCHANGED vars

EvidenceNext ==
  \/ Next /\ UNCHANGED evidence
  \/ \E numbering \in {"run", "call"}, ownIds \in BOOLEAN :
       Assemble(numbering, ownIds)

EvidenceSpec == EvidenceInit /\ [][EvidenceNext]_evidenceVars

------------------------------------------------------------------------------
(* The type of the evidence.                                               *)
EvidenceTypeOK ==
  /\ TypeOK
  /\ evidence.at \in {"none", "refused", "filed"}
  /\ evidence.patch \in Versions

(* What an evaluator may bind its outcome to (bind_and_append_evaluator_   *)
(* proof): the evidence of a healthy, complete run with an emitted patch.  *)
Bindable == evidence.at = "filed" /\ evidence.patch # 0

(* The one thing that the runtime lets pass and the evidence does not:     *)
(* a tool call that the ledger refused has a receipt and is not charged.   *)
SomeToolRejected == \E i \in DOMAIN receipts : ~receipts[i].charged

(* Two calls that name their requests alike, which the runtime does not    *)
(* see since it compares the requests of one call only.                    *)
RequestsCollide(numbering) ==
  /\ numbering = "call"
  /\ \E i, j \in DOMAIN receipts :
       /\ receipts[i].step = 0 /\ receipts[j].step = 0
       /\ receipts[i].call # receipts[j].call

(* The books of a finished run agree: no store, receipt, round or charge   *)
(* contradicts another, whatever the protocol and the tools did, so its    *)
(* evidence is refused exactly when a tool call was rejected by the        *)
(* budget, or two calls named a request alike, or answers share an id;     *)
(* and evidence that may be bound is of a run whose sources nobody wrote   *)
(* and, if it claims success, of a patch that is the working copy and that *)
(* every public step passed on.                                            *)
BooksAgree ==
  /\ evidence.at = "refused" =>
       \/ SomeToolRejected
       \/ RequestsCollide(evidence.numbering)
       \/ ~evidence.ownIds
  /\ evidence.at = "filed" =>
       ~SomeToolRejected /\ ~RequestsCollide(evidence.numbering)
  /\ Bindable =>
       /\ evidence.patch = patch /\ intact /\ ~violated
       /\ evidence.success => CompletedIsVerified /\ outcome = "completed"
==============================================================================
