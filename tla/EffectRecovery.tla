--------------------------- MODULE EffectRecovery ---------------------------
(***************************************************************************)
(* The side effects of one root frame, across crashes and resumes          *)
(* (kernel/operations.py, side_effects.py, tooling.py, io/, api/context.py,*)
(* checkpointing/restore.py).  Every effect is announced by a receipt and  *)
(* a checkpoint, performed, and concluded by a receipt and a checkpoint;   *)
(* after a crash the receipts of the last checkpoint are reconciled with   *)
(* what can be seen of the world.  A checkpoint is atomic here: its files  *)
(* are the subject of CheckpointStore.                                     *)
(***************************************************************************)
EXTENDS Naturals, Sequences, FiniteSets

CONSTANTS
  Plan,       \* the kind of each plan node, in execution order
  FileCount,  \* the number of files a repo_patch node writes
  Policies,   \* the reconciliation policies a resume may name
  MaxCrashes, \* bound: crashes of the kernel
  MaxEdits    \* bound: edits of the target files by others

Kinds == {"model", "write", "service", "sync", "async"}

EffectAssumption ==
  /\ Plan \in Seq(Kinds) /\ Plan # <<>>
  /\ Policies \subseteq {"strict", "best_effort"} /\ Policies # {}
  /\ {MaxCrashes, MaxEdits} \subseteq Nat /\ FileCount \in Nat \ {0}

Nodes == 1..Len(Plan)
OfKind(k) == {n \in Nodes : Plan[n] = k}

VARIABLES
  frame,     \* the process: the node it works on and how far it is
  mind,      \* what the kernel remembers: receipts, statuses, handles
  durable,   \* the same as of the last checkpoint
  policy,    \* the reconciliation policy of this attempt
  sent,      \* provider requests sent for a node (capped at 2)
  ran,       \* performances of a node's effect (capped at 2)
  ended,     \* how the last performance ended
  file,      \* the target files of a node
  process,   \* the process of an async tool
  result,    \* its result file exists
  crashes, edits

world == <<sent, ran, ended, file, process, result>>
effectVars == <<frame, mind, durable, policy, world, crashes, edits>>

Blank == [asked |-> [n \in Nodes |-> "none"],    \* provider receipts
          effect |-> [n \in Nodes |-> "none"],   \* effect receipts
          status |-> [n \in Nodes |-> "pending"],
          handle |-> [n \in Nodes |-> FALSE]]    \* a handle is in the table

EffectInit ==
  /\ frame = [node |-> 0, step |-> "next"]
  /\ mind = Blank /\ durable = Blank /\ policy = "strict"
  /\ sent = [n \in Nodes |-> 0] /\ ran = [n \in Nodes |-> 0]
  /\ ended = [n \in Nodes |-> "none"]
  /\ file = [n \in Nodes |-> [i \in 1..FileCount |-> "before"]]
  /\ process = [n \in Nodes |-> "none"] /\ result = [n \in Nodes |-> FALSE]
  /\ crashes = 0 /\ edits = 0

Capped(k) == IF k < 2 THEN k + 1 ELSE k
Good(s) == s \in {"completed", "reconciled"}
Bad(s) == s \in {"failed", "abandoned"}

Here == frame.node
At(s) == frame.step = s
Step(s) == frame' = [frame EXCEPT !.step = s]
Stop == frame' = [node |-> 0, step |-> "off"]

(* _filesystem_write_reconciliation_state                                  *)
FilesAll(n, s) == \A i \in 1..FileCount : file[n][i] = s

(***************************************************************************)
(* Taking up a node: _execute_operations                                   *)
(***************************************************************************)
FirstStep(k) ==
  CASE k \in {"model", "write"} -> "ask" [] k = "async" -> "start" [] OTHER -> "launch"

TakeUp ==
  /\ At("next") /\ Here < Len(Plan)
  /\ LET n == Here + 1 IN
     IF mind.status[n] \in {"completed", "recovery_blocked"}
     THEN frame' = [node |-> n, step |-> "next"] /\ UNCHANGED mind
     ELSE /\ frame' = [node |-> n, step |-> FirstStep(Plan[n])]
          /\ mind' = [mind EXCEPT !.status[n] = "running"]
  /\ UNCHANGED <<durable, policy, world, crashes, edits>>

Finish ==
  /\ At("next") /\ Here = Len(Plan)
  /\ Step("finished")
  /\ UNCHANGED <<mind, durable, policy, world, crashes, edits>>

(* The node's output is there and its status follows.                      *)
Concluded(m, n) == [m EXCEPT !.status[n] = "completed"]

(***************************************************************************)
(* A model request: run_model_request                                      *)
(***************************************************************************)
AfterAnswer(m) ==
  IF Plan[Here] = "model"
  THEN Step("next") /\ mind' = Concluded(m, Here)
  ELSE Step("launch") /\ mind' = m

ReuseAnswer ==
  /\ At("ask") /\ Good(mind.asked[Here])
  /\ AfterAnswer(mind)
  /\ UNCHANGED <<durable, policy, world, crashes, edits>>

Ask ==
  /\ At("ask") /\ mind.asked[Here] = "none"
  /\ mind' = [mind EXCEPT !.asked[Here] = "launched"]
  /\ durable' = mind'
  /\ Step("send")
  /\ UNCHANGED <<policy, world, crashes, edits>>

(* The provider answers, or raises and ends the attempt.                   *)
Send(answered) ==
  /\ At("send")
  /\ sent' = [sent EXCEPT ![Here] = Capped(@)]
  /\ IF answered THEN Step("answered") ELSE Stop
  /\ UNCHANGED <<mind, durable, policy, ran, ended, file, process, result,
                 crashes, edits>>

Answer ==
  /\ At("answered")
  /\ LET m == [mind EXCEPT !.asked[Here] = "completed"] IN
     durable' = m /\ AfterAnswer(m)
  /\ UNCHANGED <<policy, world, crashes, edits>>

(***************************************************************************)
(* Effects announced first: files, services and synchronous tools          *)
(***************************************************************************)
(* A faulty variant: the announcement is not yet published.                *)
LaunchUnpublished ==
  /\ At("launch") /\ mind.effect[Here] = "none"
  /\ mind' = [mind EXCEPT !.effect[Here] = "launched"]
  /\ Step("perform")
  /\ UNCHANGED <<durable, policy, world, crashes, edits>>

Launch ==
  /\ At("launch") /\ mind.effect[Here] = "none"
  /\ mind' = [mind EXCEPT !.effect[Here] = "launched"]
  /\ durable' = mind'
  /\ Step("perform")
  /\ UNCHANGED <<policy, world, crashes, edits>>

(* A write announced in an earlier attempt: the files decide again, and    *)
(* any other unresolved announcement is refused (HardInvalidation).        *)
Relaunch ==
  /\ At("launch") /\ mind.effect[Here] # "none"
  /\ IF Plan[Here] = "write" /\ FilesAll(Here, "before") THEN Step("perform") ELSE Stop
  /\ UNCHANGED <<mind, durable, policy, world, crashes, edits>>

Written(n) == {i \in 1..FileCount : file[n][i] = "after"}

(* One file is replaced: atomically, or in place when the target is busy,  *)
(* and then it is torn for a while (_write_text_atomic).                   *)
WriteFile ==
  /\ At("perform") /\ Plan[Here] = "write" /\ Written(Here) # 1..FileCount
  /\ LET i == Cardinality(Written(Here)) + 1 IN
     \/ file' = [file EXCEPT ![Here][i] = "after"]
     \/ file[Here][i] # "torn" /\ file' = [file EXCEPT ![Here][i] = "torn"]
  /\ UNCHANGED <<frame, mind, durable, policy, sent, ran, ended, process,
                 result, crashes, edits>>

WriteEnds(end) ==
  /\ At("perform") /\ Plan[Here] = "write"
  /\ end = "completed" => Written(Here) = 1..FileCount
  /\ ended' = [ended EXCEPT ![Here] = end]
  /\ Step("conclude")
  /\ UNCHANGED <<mind, durable, policy, sent, ran, file, process, result,
                 crashes, edits>>

Call(end) ==
  /\ At("perform") /\ Plan[Here] \in {"service", "sync"}
  /\ ran' = [ran EXCEPT ![Here] = Capped(@)]
  /\ ended' = [ended EXCEPT ![Here] = end]
  /\ Step("conclude")
  /\ UNCHANGED <<mind, durable, policy, sent, file, process, result, crashes, edits>>

(* A tool that raises leaves no receipt of its end.                        *)
CallRaises ==
  /\ At("perform") /\ Plan[Here] = "sync"
  /\ ran' = [ran EXCEPT ![Here] = Capped(@)]
  /\ ended' = [ended EXCEPT ![Here] = "failed"]
  /\ Stop
  /\ UNCHANGED <<mind, durable, policy, sent, file, process, result, crashes, edits>>

(* The receipt of the end and its checkpoint; the node's status changes    *)
(* after it.  A failure ends the attempt.                                  *)
ConcludeEffect ==
  /\ At("conclude")
  /\ LET m == [mind EXCEPT !.effect[Here] = ended[Here]] IN
     /\ durable' = m
     /\ IF ended[Here] = "completed"
        THEN Step("next") /\ mind' = Concluded(m, Here)
        ELSE Stop /\ mind' = m
  /\ UNCHANGED <<policy, world, crashes, edits>>

(***************************************************************************)
(* Asynchronous tools: started first, announced afterwards                 *)
(***************************************************************************)
StartAsync ==
  /\ At("start") /\ mind.effect[Here] = "none"
  /\ ran' = [ran EXCEPT ![Here] = Capped(@)]
  /\ process' = [process EXCEPT ![Here] = "running"]
  /\ result' = [result EXCEPT ![Here] = FALSE]
  /\ mind' = [mind EXCEPT !.handle[Here] = TRUE]
  /\ Step("log")
  /\ UNCHANGED <<durable, policy, sent, ended, file, crashes, edits>>

LogAsync ==
  /\ At("log")
  /\ mind' = [mind EXCEPT !.effect[Here] = "launched"]
  /\ durable' = mind'
  /\ Step("await")
  /\ UNCHANGED <<policy, world, crashes, edits>>

(* It ends well, with an output but also on stderr, or without an output.  *)
ProcessEnds(n, how) ==
  /\ process[n] = "running"
  /\ process' = [process EXCEPT ![n] = how]
  /\ UNCHANGED <<frame, mind, durable, policy, sent, ran, ended, file, result,
                 crashes, edits>>

(* wait_async: an output is written to the result file whatever the        *)
(* verdict; then a failure ends the attempt without a receipt.             *)
AwaitAsync ==
  /\ At("await") /\ process[Here] # "running"
  /\ result' = [result EXCEPT ![Here] = process[Here] \in {"good", "noisy"}]
  /\ ended' = [ended EXCEPT ![Here] =
                   IF process[Here] = "good" THEN "completed" ELSE "failed"]
  /\ IF process[Here] = "good" THEN Step("conclude") ELSE Stop
  /\ UNCHANGED <<mind, durable, policy, sent, ran, file, process, crashes, edits>>

(***************************************************************************)
(* Crash and resume                                                        *)
(***************************************************************************)
Crash ==
  /\ ~At("off") /\ ~At("finished") /\ crashes < MaxCrashes
  /\ crashes' = crashes + 1
  /\ Stop
  /\ UNCHANGED <<mind, durable, policy, world, edits>>

(* Between attempts somebody changes a target of an unfinished write.      *)
Edit(n, i) ==
  /\ At("off") /\ edits < MaxEdits
  /\ Plan[n] = "write" /\ durable.effect[n] \in {"none", "launched"}
  /\ file[n][i] # "other"
  /\ edits' = edits + 1
  /\ file' = [file EXCEPT ![n][i] = "other"]
  /\ UNCHANGED <<frame, mind, durable, policy, sent, ran, ended, process,
                 result, crashes>>

(* What reconciliation makes of a receipt: _reconcile_side_effect_receipts.*)
(* "unresolved" stands for what a strict resume does not accept.           *)
SeenEffect(n) ==
  LET r == durable.effect[n] IN
  IF r # "launched" THEN r
  ELSE IF Plan[n] = "write" /\ FilesAll(n, "after") THEN "reconciled"
  ELSE IF Plan[n] = "write" /\ FilesAll(n, "before") THEN "launched"
  ELSE IF Plan[n] = "async" /\ durable.handle[n] /\ result[n] THEN "reconciled"
  ELSE "unresolved"

SeenAsked(n) ==
  IF durable.asked[n] = "launched" THEN "unresolved" ELSE durable.asked[n]

Uncertain(n) == "unresolved" \in {SeenEffect(n), SeenAsked(n)}

(* A faulty variant: what is unresolved is carried on.                     *)
CarriedEffect(n) == SeenEffect(n)

(* An unresolved async launch stays as it is, any other is abandoned.      *)
EffectAfter(n) ==
  IF SeenEffect(n) # "unresolved" THEN SeenEffect(n)
  ELSE IF Plan[n] = "async" THEN "launched" ELSE "abandoned"

AskedAfter(n) == IF SeenAsked(n) = "unresolved" THEN "abandoned" ELSE SeenAsked(n)

(* A faulty variant: the uncertain nodes are not blocked.                  *)
BlockedOnFailure(n) == Bad(EffectAfter(n)) /\ ~Uncertain(n)

Blocked(n) == Uncertain(n) \/ Bad(EffectAfter(n)) \/ Bad(AskedAfter(n))

(* _restore_completed_nodes_from_receipts                                  *)
Restored(n) ==
  IF Plan[n] = "model" THEN Good(SeenAsked(n)) ELSE Good(SeenEffect(n))

StatusAfter(n) ==
  IF Restored(n) \/ durable.status[n] = "completed" THEN "completed"
  ELSE IF Blocked(n) THEN "recovery_blocked"
  ELSE durable.status[n]

(* A faulty variant: what cannot be resolved does not stop a resume.       *)
AnyAccepts(p) == TRUE

(* A strict resume raises at the first unresolved receipt.                 *)
Accepts(p) == p = "strict" => \A n \in Nodes : ~Uncertain(n)

Resume(p) ==
  /\ At("off") /\ Accepts(p)
  /\ mind' = [asked |-> [n \in Nodes |-> AskedAfter(n)],
              effect |-> [n \in Nodes |-> EffectAfter(n)],
              status |-> [n \in Nodes |-> StatusAfter(n)],
              handle |-> durable.handle]
  /\ policy' = p
  /\ frame' = [node |-> 0, step |-> "next"]
  /\ UNCHANGED <<durable, world, crashes, edits>>

Work ==
  \/ TakeUp \/ Finish \/ ReuseAnswer \/ Ask \/ Answer
  \/ \E b \in BOOLEAN : Send(b)
  \/ Launch \/ Relaunch \/ WriteFile
  \/ \E e \in {"completed", "failed"} : WriteEnds(e) \/ Call(e)
  \/ CallRaises \/ ConcludeEffect
  \/ StartAsync \/ LogAsync \/ AwaitAsync

Ends == \E n \in Nodes, how \in {"good", "noisy", "bad"} : ProcessEnds(n, how)
Resumes == \E p \in Policies : Resume(p)

EffectNext ==
  \/ Work \/ Ends \/ Crash \/ Resumes
  \/ \E n \in Nodes, i \in 1..FileCount : Edit(n, i)

EffectSpec == EffectInit /\ [][EffectNext]_effectVars

(* The kernel works on, tools end, and a stopped run is resumed again.     *)
FairEffectSpec == EffectSpec /\ WF_effectVars(Work) /\ WF_effectVars(Ends) /\ WF_effectVars(Resumes)

------------------------------------------------------------------------------
Receipts == {"none", "launched", "completed", "failed", "reconciled", "abandoned"}

Memory == [asked : [Nodes -> Receipts], effect : [Nodes -> Receipts],
           status : [Nodes -> {"pending", "running", "completed", "recovery_blocked"}],
           handle : [Nodes -> BOOLEAN]]

EffectTypeOK ==
  /\ frame.node \in 0..Len(Plan)
  /\ {mind, durable} \subseteq Memory
  /\ policy \in {"strict", "best_effort"}
  /\ sent \in [Nodes -> 0..2] /\ ran \in [Nodes -> 0..2]
  /\ file \in [Nodes -> [1..FileCount -> {"before", "after", "torn", "other"}]]
  /\ process \in [Nodes -> {"none", "running", "good", "noisy", "bad"}]
  /\ result \in [Nodes -> BOOLEAN]

(* However often the run is stopped and resumed from its last checkpoint,  *)
(* no provider request is sent twice and no service is called and no       *)
(* synchronous tool is run twice (run_model_request,                       *)
(* _execute_service_action_node, _execute_tool_operation).                 *)
AtMostOnce ==
  \A n \in Nodes :
    sent[n] <= 1 /\ (Plan[n] \in {"service", "sync"} => ran[n] <= 1)

(* A node is taken for completed only when its effect has taken place: all *)
(* files hold the new content, the call was made and went well             *)
(* (_restore_completed_nodes_from_receipts against the world).             *)
CompletedIsDone ==
  \A n \in Nodes : mind.status[n] = "completed" /\ ~At("off") =>
    CASE Plan[n] = "write" -> \A i \in 1..FileCount : file[n][i] = "after"
      [] Plan[n] = "model" -> sent[n] >= 1
      [] Plan[n] = "async" -> ran[n] >= 1
      [] OTHER -> ran[n] >= 1 /\ ended[n] = "completed"

(* Both: an effect happens once, and counts as done when it has happened.  *)
EffectsHappenOnce == AtMostOnce /\ CompletedIsDone

(* A run that is only ever resumed strictly passes over a node only when   *)
(* it is known to have failed (_reconcile_side_effect_receipts).           *)
StrictPassesOverFailuresOnly ==
  \A n \in Nodes :
    mind.status[n] = "recovery_blocked" =>
      mind.effect[n] = "failed" /\ ended[n] = "failed"

(* What every run of effects keeps, and what one adds that is only ever    *)
(* resumed strictly (side_effects.py, restore.py).                         *)
EffectsAreReconciled ==
  EffectsHappenOnce /\ (Policies = {"strict"} => StrictPassesOverFailuresOnly)

(* A run resumed with best effort as often as it stops reaches the end of  *)
(* its plan: nothing left behind by an attempt makes every later one stop  *)
(* at the same place.                                                      *)
BestEffortGetsThrough == <>At("finished")

(* A tool whose run was judged failed gives no output                      *)
(* (tooling.py: "tool execution failed"), also not after a resume.         *)
FailedToolGivesNoOutput ==
  \A n \in OfKind("async") :
    mind.status[n] = "completed" /\ ran[n] = 1 => ended[n] # "failed"
=============================================================================
