---------------------------- MODULE CompositeRun ----------------------------
(***************************************************************************)
(* One run of CompositeRuntime (runtime/kernel/composite_runtime.py) with  *)
(* its artifact store (composite_artifacts.py) and its trusted tools       *)
(* (repair_tools.py).                                                      *)
(*                                                                         *)
(* The runtime is one thread: a turn of a call, with the tool it asks for, *)
(* is one action.  What the provider answers, what a tool does and when    *)
(* time runs out is open.  Of the ledger (module BudgetLedger) this module *)
(* keeps what the runtime's decisions depend on: the counts of model and   *)
(* tool calls, the bytes of tool output, and whether it was violated.      *)
(* A workspace, and a patch against the immutable base, is a version;      *)
(* version 0 is the clean copy, whose diff is empty and no patch.          *)
(***************************************************************************)
EXTENDS CompositePlan

CONSTANTS
  MaxModels,    \* TaskCeilings.max_model_calls
  MaxTools,     \* TaskCeilings.max_tool_calls
  MaxBytes,     \* TaskCeilings.max_tool_output_bytes
  PerTool,      \* the output limit of each tool
  Sizes,        \* the sizes a tool's own output may have
  ErrorSize,    \* the size of an error report
  Versions,     \* the workspace contents that may arise
  Steps         \* the number of public reproduction steps

Tools == DOMAIN PerTool

RunAssumption ==
  /\ {MaxModels, MaxTools, MaxBytes, ErrorSize, Steps} \subseteq Nat
  /\ "public_test" \in Tools /\ Tools \subseteq {"read", "edit", "public_test"}
  /\ PerTool \in [Tools -> Nat \ {0}]
  /\ Sizes \subseteq Nat
  /\ Versions \subseteq Nat /\ 0 \in Versions

VARIABLES
  protocol,   \* the protocol that was compiled
  hasTools,   \* whether a tool interface is installed
  compiled,   \* the plan: its calls in order, the stage of each
  pc,         \* new, call, turn, verify, done
  pos,        \* the position in the schedule
  turn,       \* turn_index of the current call
  outputs,    \* the calls in _outputs
  stored,     \* the artifacts in the store
  delivered,  \* _delivered_keys
  readers,    \* _actual_readers of every artifact
  models, tools, bytes, violated,   \* the ledger
  late,       \* the wall-time ceiling has passed
  work,       \* the working copy
  intact,     \* source snapshot and immutable base are unchanged
  patch,      \* the submitted final patch, 0 for none
  receipts,   \* the receipts of the tool service
  step,       \* the public reproduction step to verify next
  outcome     \* the status of the result, or the code of the error

contract == <<protocol, hasTools, compiled>>
plan == <<pos, turn, outputs, stored, delivered, readers, patch>>
ledger == <<models, tools, bytes, violated>>
toolvars == <<work, intact, receipts>>
vars == <<contract, pc, plan, ledger, late, toolvars, step, outcome>>

Statuses == {"succeeded", "failed", "output_limit", "budget_rejected"}
Receipt ==
  [call : Actor \X {"initial", "revision"}, step : 0..Steps,
   status : Statuses, passed : BOOLEAN, charged : BOOLEAN,
   limit : Nat, size : Nat, before : Versions, after : Versions]

Init ==
  /\ protocol \in Protocol /\ hasTools \in BOOLEAN
  /\ compiled = [calls |-> <<>>, stage |-> <<>>]
  /\ pc = "new" /\ pos = 1 /\ turn = 0 /\ step = 1 /\ outcome = "running"
  /\ outputs = {} /\ stored = {} /\ delivered = {}
  /\ readers = [ch \in Channels |-> <<>>]
  /\ models = 0 /\ tools = 0 /\ bytes = 0 /\ violated = FALSE
  /\ late = FALSE
  /\ work = 0 /\ intact = TRUE /\ patch = 0 /\ receipts = <<>>

End(code) == pc' = "done" /\ outcome' = code

(* compile_composite_run_plan, and the constructor of the runtime.         *)
Compile ==
  /\ pc = "new"
  /\ IF Compiles(protocol) /\ RuntimeAccepts(protocol)
     THEN /\ pc' = "call" /\ UNCHANGED outcome
          /\ compiled' = [calls |-> Schedule(protocol), stage |->
                            [c \in Calls(protocol) |-> StageIndex(protocol, c)]]
     ELSE /\ End(IF Compiles(protocol) THEN "invalid_plan" ELSE "not_compiled")
          /\ UNCHANGED compiled
  /\ UNCHANGED <<protocol, hasTools, plan, ledger, late, toolvars, step>>

Current == compiled.calls[pos]

(* What _resolve_read asks of the artifact store and of earlier outputs.   *)
Readable(r) ==
  CASE r.kind = "artifact" /\ r.ref \in DeliveredTo(protocol, Current) ->
         r.ref \in stored /\ <<r.ref, Current>> \notin delivered
    [] r.kind = "artifact" /\ r.ref \notin DeliveredTo(protocol, Current) ->
         /\ r.ref \in stored
         /\ \E c \in RetainedFrom(protocol, r.ref, Current) :
              <<r.ref, c>> \in delivered
         /\ Current \notin Range(readers[r.ref])
    [] OTHER -> r.ref \in outputs

ArtifactsRead(c) ==
  {r.ref : r \in {x \in ContextReads(protocol, c) : x.kind = "artifact"}}

(* The calls of a stage start only when the stages it depends on are       *)
(* complete; then the context is read, which delivers the artifacts.       *)
StageReady ==
  \A i \in DependsOn(protocol, compiled.stage[Current]) :
    \A c \in Calls(protocol) : compiled.stage[c] = i => c \in outputs

CanBegin == StageReady /\ \A r \in ContextReads(protocol, Current) : Readable(r)

(* Otherwise stage_dependency_unmet, artifact_delivery_failed or           *)
(* prior_output_missing.                                                   *)
BeginCall ==
  /\ pc = "call" /\ pos <= Len(compiled.calls)
  /\ IF CanBegin
     THEN /\ delivered' = delivered \cup
               {<<ch, Current>> : ch \in DeliveredTo(protocol, Current)}
          /\ readers' = [ch \in Channels |->
               IF ch \in ArtifactsRead(Current) THEN Append(readers[ch], Current)
               ELSE readers[ch]]
          /\ pc' = "turn" /\ turn' = 0 /\ UNCHANGED outcome
     ELSE End("plan_broken") /\ UNCHANGED <<delivered, readers, turn>>
  /\ UNCHANGED <<contract, pos, outputs, stored, patch, ledger, late, toolvars,
                 step>>

(***************************************************************************)
(* Tools                                                                   *)
(***************************************************************************)
MinOf(a, b) == IF a < b THEN a ELSE b
MaxOf(a, b) == IF a > b THEN a ELSE b

OutputLimit(t) == MaxOf(1, MinOf(PerTool[t], MaxOf(0, MaxBytes - bytes)))

CanReserveTool(t) ==
  /\ ~late /\ ~violated
  /\ tools < MaxTools
  /\ bytes + OutputLimit(t) <= MaxBytes

(* complete_tool_call *)
ChargeTool(limit, size) ==
  /\ tools' = tools + 1
  /\ bytes' = bytes + size
  /\ violated' = (violated \/ size > limit \/ bytes + size > MaxBytes)

(* What a tool may do: an edit replaces the working copy's content; the    *)
(* commands of a public test run on a private copy, but others may write   *)
(* the working copy meanwhile, which is looked at afterwards.  With a      *)
(* changed source or base every tool fails.                                *)
Failures(t) ==
  [ok : {FALSE}, passed : {FALSE}, size : {ErrorSize},
   work : IF t = "public_test" \/ (t = "edit" /\ ~intact) THEN Versions ELSE {work}]

Executions(t) ==
  Failures(t) \cup
  IF intact
  THEN [ok : {TRUE}, size : Sizes,
        passed : IF t = "public_test" THEN BOOLEAN ELSE {TRUE},
        work : IF t = "edit" THEN Versions ELSE {work}]
  ELSE {}

(* The call that an invocation is for: step s > 0 verifies the final call. *)
Caller(s) == IF s = 0 THEN Current ELSE FinalCall(protocol)

(* A faulty variant: an output over the limit is taken for a tool that did *)
(* nothing.                                                                *)
ForgetfulReceipt(s, x, limit) ==
  LET over == x.size > limit IN
  [call |-> Caller(s), step |-> s, charged |-> TRUE, limit |-> limit,
   passed |-> x.ok /\ x.passed /\ ~over,
   status |-> IF over THEN "output_limit"
              ELSE IF x.ok /\ x.passed THEN "succeeded" ELSE "failed",
   size |-> IF over THEN ErrorSize ELSE x.size,
   before |-> work, after |-> IF over THEN work ELSE x.work]

(* The receipt of an execution: an output over the limit is replaced by an *)
(* error report, whatever was done to the working copy.                    *)
ReceiptOf(s, x, limit) ==
  LET over == x.size > limit IN
  [call |-> Caller(s), step |-> s, charged |-> TRUE, limit |-> limit,
   passed |-> x.ok /\ x.passed /\ ~over,
   status |-> IF over THEN "output_limit"
              ELSE IF x.ok /\ x.passed THEN "succeeded" ELSE "failed",
   size |-> IF over THEN ErrorSize ELSE x.size,
   before |-> work, after |-> x.work]

Rejected(s) ==
  [call |-> Caller(s), step |-> s, charged |-> FALSE, limit |-> 0, passed |-> FALSE,
   status |-> "budget_rejected", size |-> ErrorSize,
   before |-> work, after |-> work]

(* TrustedRepairToolService.invoke for an actor (s = 0) or for step s of   *)
(* the terminal verification.                                              *)
Invoke(t, s) ==
  \/ /\ ~CanReserveTool(t)
     /\ receipts' = Append(receipts, Rejected(s))
     /\ UNCHANGED <<tools, bytes, violated, work>>
  \/ /\ CanReserveTool(t)
     /\ \E x \in Executions(t) :
          LET r == ReceiptOf(s, x, OutputLimit(t)) IN
          /\ ChargeTool(r.limit, r.size)
          /\ receipts' = Append(receipts, r)
          /\ work' = x.work

(***************************************************************************)
(* The turns of a call                                                     *)
(***************************************************************************)
CanCallProvider == ~late /\ ~violated /\ models < MaxModels

(* actor_input_share_exhausted, provider_reservation_failed,               *)
(* provider_call_failed: the provider may fail at any time, and the ledger *)
(* refuses the call when its ceilings are reached.                         *)
CallFails ==
  /\ pc = "turn" /\ turn < MaxModels
  /\ End("provider_call_failed")
  /\ UNCHANGED <<contract, plan, ledger, late, toolvars, step>>

(* A request with a fresh id for a tool of the call.                       *)
RequestTool(t) ==
  /\ hasTools
  /\ pc = "turn" /\ turn < MaxModels
  /\ CanCallProvider
  /\ models' = models + 1
  /\ turn' = turn + 1
  /\ Invoke(t, 0)
  /\ UNCHANGED <<contract, pc, pos, outputs, stored, delivered, readers, patch,
                 late, intact, step, outcome>>

(* A repeated request id, a tool that is not the call's or not installed,  *)
(* or an answer that is no turn or no valid output.                        *)
BadTurn ==
  /\ pc = "turn" /\ turn < MaxModels
  /\ CanCallProvider
  /\ models' = models + 1
  /\ End("invalid_turn")
  /\ UNCHANGED <<contract, plan, tools, bytes, violated, late, toolvars, step>>

(* actor_turn_budget_exhausted                                             *)
TurnsExhausted ==
  /\ pc = "turn" /\ turn = MaxModels
  /\ End("turns_exhausted")
  /\ UNCHANGED <<contract, plan, ledger, late, toolvars, step>>

(* The terminal turn: the declared artifacts are written, and only the     *)
(* termination call submits a patch, which is never empty.                 *)
Terminate(v) ==
  /\ pc = "turn" /\ turn < MaxModels
  /\ CanCallProvider
  /\ v = 0 <=> Current # FinalCall(protocol)
  /\ Writes(protocol, Current) \cap stored = {}
  /\ models' = models + 1
  /\ stored' = stored \cup Writes(protocol, Current)
  /\ outputs' = outputs \cup {Current}
  /\ patch' = IF v = 0 THEN patch ELSE v
  /\ pc' = "call" /\ pos' = pos + 1
  /\ UNCHANGED <<contract, turn, delivered, readers, tools, bytes, violated,
                 late, toolvars, step, outcome>>

(* The store refuses an artifact that is over a byte limit, and would      *)
(* refuse one that was written before.                                     *)
WriteFails ==
  /\ pc = "turn" /\ turn < MaxModels
  /\ CanCallProvider
  /\ Writes(protocol, Current) # {}
  /\ models' = models + 1
  /\ End(IF Writes(protocol, Current) \cap stored # {} THEN "plan_broken"
         ELSE "artifact_write_failed")
  /\ UNCHANGED <<contract, plan, tools, bytes, violated, late, toolvars, step>>

(***************************************************************************)
(* The end of the run                                                      *)
(***************************************************************************)
AllDelivered ==
  delivered = {<<d.artifact, d.consumer>> : d \in Deliveries(protocol)}

AtEnd == pc = "call" /\ pos > Len(compiled.calls)

(* delivery_reconciliation_failed, final_patch_missing,                    *)
(* final_patch_workspace_mismatch, immutable_source_changed; without       *)
(* tools nothing is verified.                                              *)
AcceptPatch ==
  /\ AtEnd
  /\ IF ~AllDelivered \/ patch = 0 THEN End("plan_broken")
     ELSE IF ~hasTools THEN End("patch_ready")
     ELSE IF ~intact \/ patch # work THEN End("patch_refused")
     ELSE pc' = "verify" /\ UNCHANGED outcome
  /\ UNCHANGED <<contract, plan, ledger, late, toolvars, step>>

(* run_public_verification: every step runs, whether or not one failed.    *)
VerifyStep ==
  /\ pc = "verify" /\ step <= Steps
  /\ Invoke("public_test", step)
  /\ step' = step + 1
  /\ UNCHANGED <<contract, pc, plan, models, late, intact, outcome>>

Verified ==
  \A i \in DOMAIN receipts : receipts[i].step > 0 => receipts[i].passed

Conclude ==
  /\ pc = "verify" /\ step > Steps
  /\ End(IF ~intact THEN "immutable_source_changed"
         ELSE IF violated THEN "budget_reconciliation_failed"
         ELSE IF Verified THEN "completed" ELSE "public_verification_failed")
  /\ UNCHANGED <<contract, plan, ledger, late, toolvars, step>>

(* The wall-time ceiling passes.                                           *)
Expire ==
  /\ pc \in {"turn", "verify"} /\ ~late
  /\ late' = TRUE
  /\ UNCHANGED <<contract, pc, plan, ledger, toolvars, step, outcome>>

(* Somebody writes the source snapshot or the immutable base.              *)
Tamper ==
  /\ hasTools
  /\ pc \in {"turn", "verify"} /\ intact
  /\ intact' = FALSE
  /\ UNCHANGED <<contract, pc, plan, ledger, late, work, receipts, step, outcome>>

Next ==
  \/ Compile \/ BeginCall \/ CallFails \/ BadTurn \/ TurnsExhausted
  \/ \E t \in Tools : RequestTool(t)
  \/ \E v \in Versions : Terminate(v)
  \/ WriteFails \/ AcceptPatch \/ VerifyStep \/ Conclude
  \/ Expire \/ Tamper

Spec == Init /\ [][Next]_vars

------------------------------------------------------------------------------
TypeOK ==
  /\ protocol \in Protocol /\ hasTools \in BOOLEAN
  /\ pc \in {"new", "call", "turn", "verify", "done"}
  /\ pos \in Nat \ {0} /\ turn \in 0..MaxModels /\ step \in 1..(Steps + 1)
  /\ stored \subseteq Channels
  /\ {models, tools, bytes} \subseteq Nat
  /\ {violated, late, intact} \subseteq BOOLEAN
  /\ work \in Versions /\ patch \in Versions
  /\ receipts \in Seq(Receipt)

Succeeded == outcome \in {"patch_ready", "completed", "public_verification_failed"}

(* A protocol that compiles gives a plan that the runtime accepts, and no  *)
(* run of it stops because of the plan: every stage starts after the       *)
(* stages it depends on, every read finds its artifact or output, no       *)
(* artifact is written or delivered twice and none is left undelivered     *)
(* (composite_compiler.py against _validate_inputs, _resolve_read and      *)
(* run).                                                                   *)
CompiledPlansRun == outcome \notin {"invalid_plan", "plan_broken"}

(* A run that succeeds has carried every artifact to its consumer once,    *)
(* and a revision has read again all that the first call of its actor was  *)
(* given (ImmutableArtifactStore, "exact directed delivery").              *)
EveryArtifactIsRead ==
  Succeeded => \A ch \in protocol.channels :
    readers[ch] = IF Revises(protocol) /\ To(ch) = protocol.final
                     /\ ch # protocol.feedback
                  THEN <<Consumer(protocol, ch), Revision(protocol)>>
                  ELSE <<Consumer(protocol, ch)>>

(* A completed run's patch is the working copy's diff at the end, and      *)
(* every public step has passed on exactly that content.                   *)
CompletedIsVerified ==
  outcome = "completed" =>
    /\ patch = work
    /\ \A s \in 1..Steps :
         \E i \in DOMAIN receipts :
           /\ receipts[i].step = s /\ receipts[i].passed
           /\ receipts[i].before = patch /\ receipts[i].after = patch

(* The receipts account for every change of the working copy: each starts  *)
(* where the last one ended, whatever became of the tool's output.         *)
ReceiptsChain ==
  LET content(i) == IF i = 0 THEN 0 ELSE receipts[i].after IN
  /\ \A i \in DOMAIN receipts : receipts[i].before = content(i - 1)
  /\ work = content(Len(receipts))

(* Tool output is charged in full, also the error report that replaces an  *)
(* output over its limit and may itself be over it; a run that succeeds    *)
(* has stayed within what was reserved and within the ceiling.             *)
SuccessIsWithinLimits ==
  Succeeded =>
    /\ bytes <= MaxBytes
    /\ \A i \in DOMAIN receipts :
         receipts[i].charged => receipts[i].size <= receipts[i].limit

(* What a run hands over is what its actors were given, its tools did and  *)
(* its tests saw, within its limits (CompositeRuntime.run).                *)
RunIsAccounted ==
  EveryArtifactIsRead /\ CompletedIsVerified /\ ReceiptsChain /\ SuccessIsWithinLimits
=============================================================================
