---------------------------- MODULE BranchGroup ----------------------------
(***************************************************************************)
(* One horizontal branch group of the kernel runtime: the root frame fans  *)
(* a frontier of plan nodes out to branches on a thread pool, collects     *)
(* their results, cancels the others when one fails, and applies the       *)
(* results (runtime/kernel/branches/, branching.py).  Every provider       *)
(* request of a branch is bracketed by side-effect receipts and            *)
(* checkpoints (runtime/api/context.py, kernel/checkpointing/), so that a  *)
(* killed run can be resumed.                                              *)
(*                                                                         *)
(* The state shared by the branches (context.state of the parent, guarded  *)
(* by persist_lock) is mem.  A checkpoint is a copy of it, published only  *)
(* for resumption when it is eligible: disk is the latest eligible one.    *)
(* A kill leaves disk and nothing else.                                    *)
(***************************************************************************)
EXTENDS Naturals, Sequences, FiniteSets, SequencesExt

CONSTANTS
  Branches,       \* the branch plans of the group
  Steps,          \* the provider-backed nodes each branch executes in order
  ReconcileHook,  \* the provider offers reconcile_request
  MaxFaults,      \* bound: kills and failing writes
  MaxRuns         \* bound: the first attempt and the resumptions

ASSUME GroupAssumption ==
  /\ IsFiniteSet(Branches)
  /\ Steps \in Nat \ {0}
  /\ ReconcileHook \in BOOLEAN
  /\ MaxFaults \in Nat
  /\ MaxRuns \in Nat

VARIABLES
  mem,      \* branch states, resume snapshots, publications, budget
  disk,     \* the latest resume-eligible checkpoint
  phase,    \* where the coordinating thread is
  event,    \* cancellation_event, set together with its reason
  erred,    \* propagated_resume_error
  pending,  \* the futures the coordinator waits for
  results,  \* branch_results, by branch
  future,   \* the state of each future
  ret,      \* how the thread of a done future ended
  pc,       \* where each branch's thread is
  ctx,      \* each branch's own context: its progress
  sends,    \* requests handed to the provider, in all attempts together
  late,     \* those of this attempt handed over after the event was set
  cause,    \* what happened so far: a relaunch, a failed branch
  faults,   \* kills and failing writes so far
  runs      \* attempts so far

sharedVars == <<mem, disk>>
groupVars == <<phase, event, erred, pending, results>>
threadVars == <<future, ret, pc, ctx>>
sendVars == <<sends, late>>
boundVars == <<faults, runs>>
vars == <<sharedVars, groupVars, threadVars, sendVars, cause, boundVars>>

Terminal == {"completed", "cancelled", "failed"}

(* A branch's progress: nodes with a completed request, model calls        *)
(* consumed, and whether a launch receipt has no terminal one yet.         *)
Progress == [done : 0..Steps, calls : 0..Steps, open : BOOLEAN]
Fresh == [done |-> 0, calls |-> 0, open |-> FALSE]

(* The branch's candidate artifact among a list of publications.           *)
Publication == {"none", "emitted", "accepted"}

(* What a thread leaves in its future.  Two ends carry no result: the      *)
(* branch could not be recovered, or its last checkpoint was not written.  *)
Result == [status : Terminal \cup {"unrecovered", "raised"}, calls : 0..Steps,
           own : Publication, artifact : BOOLEAN]
Without(status) == [status |-> status, calls |-> 0, own |-> "none", artifact |-> FALSE]

-----------------------------------------------------------------------------
(* Checkpoints.                                                            *)

(* A faulty variant: failed branches are not looked for.                   *)
EligibleWithFailures(m) == \A b \in Branches : m.status[b] = "running" => b \in m.held

Eligible(m) ==
  /\ \A b \in Branches : m.status[b] # "failed"
  /\ \A b \in Branches : m.status[b] = "running" => b \in m.held

Publish(m) ==
  /\ mem' = m
  /\ disk' = IF Eligible(m) THEN m ELSE disk

(* A faulty variant: the snapshot is not stored.                           *)
PersistState(b, progress) ==
  Publish([mem EXCEPT !.status[b] = "running", !.snap[b] = progress, !.own[b] = "none"])

(* persist_branch_state: the branch's snapshot enters the shared state and *)
(* a checkpoint is published, all under persist_lock.                      *)
Persist(b, progress) ==
  Publish([mem EXCEPT !.status[b] = "running",
                      !.held = @ \cup {b},
                      !.snap[b] = progress,
                      !.own[b] = "none"])

-----------------------------------------------------------------------------
(* A branch's thread.                                                      *)

Goto(b, from, to) == pc[b] = from /\ pc' = [pc EXCEPT ![b] = to]

(* raise_if_cancelled returns.                                             *)
Uncancelled == ~event

(* The future is done and its thread gone.                                 *)
Ends(b, how) ==
  /\ future' = [future EXCEPT ![b] = "done"]
  /\ ret' = [ret EXCEPT ![b] = how]
  /\ pc' = [pc EXCEPT ![b] = "idle"]
  /\ ctx' = [ctx EXCEPT ![b] = Fresh]

(* finalize_branch_result: the terminal state replaces the snapshot and a  *)
(* checkpoint is published; when that cannot be written the exception      *)
(* leaves the thread as it is.                                             *)
Finalize(b, status, own) ==
  LET m == [mem EXCEPT !.status[b] = status,
                       !.held = @ \ {b},
                       !.snap[b] = Fresh,
                       !.used[b] = ctx[b].calls,
                       !.own[b] = own,
                       !.listed[b] = IF @ = "none" THEN own ELSE @]
  IN  /\ \/ /\ Publish(m)
            /\ Ends(b, [status |-> status, calls |-> ctx[b].calls, own |-> own,
                        artifact |-> status = "completed"])
            /\ UNCHANGED faults
         \/ /\ faults < MaxFaults
            /\ faults' = faults + 1
            /\ mem' = m
            /\ UNCHANGED disk
            /\ Ends(b, Without("raised"))
      /\ cause' = IF status = "failed" THEN cause \cup {"failure"} ELSE cause
      /\ UNCHANGED <<groupVars, sendVars, runs>>

(* A pool thread picks the future up; from here it cannot be cancelled.    *)
StartBranch(b) ==
  /\ future[b] = "pending"
  /\ future' = [future EXCEPT ![b] = "running"]
  /\ pc' = [pc EXCEPT ![b] = IF b \in mem.held THEN "restore" ELSE "begin"]
  /\ UNCHANGED <<sharedVars, groupVars, ret, ctx, sendVars, cause, boundVars>>

(* The provider's reconcile_request finds a request it was sent.           *)
Reconcilable(b, saved) == ReconcileHook /\ sends[b][saved.done + 1] > 0

(* _restore_branch_resume_snapshot: a reconciled request completes its     *)
(* node; one that cannot be reconciled raises ResumeRecoveryError.         *)
Restore(b) ==
  LET saved == mem.snap[b]
  IN  /\ saved.open => Reconcilable(b, saved)
      /\ Goto(b, "restore", "begin")
      /\ ctx' = [ctx EXCEPT ![b] = IF saved.open
                                     THEN [saved EXCEPT !.open = FALSE, !.done = @ + 1]
                                     ELSE saved]
      /\ UNCHANGED <<sharedVars, groupVars, future, ret, sendVars, cause, boundVars>>

RestoreFails(b) ==
  /\ pc[b] = "restore"
  /\ mem.snap[b].open
  /\ Ends(b, Without("unrecovered"))
  /\ UNCHANGED <<sharedVars, groupVars, sendVars, cause, boundVars>>

(* A step that goes on only while the cancellation event is clear.         *)
Unless(b, from, to) ==
  /\ Uncancelled
  /\ Goto(b, from, to)
  /\ UNCHANGED <<sharedVars, groupVars, future, ret, ctx, sendVars, cause, boundVars>>

Begin(b) == Unless(b, "begin", "next")

(* run_model_request: the launch receipt is recorded, which persists it,   *)
(* the boundary is published, the event is read a last time, and only then *)
(* does the request go out.                                                *)
Launch(b) ==
  LET opened == [ctx[b] EXCEPT !.open = TRUE]
  IN  /\ Uncancelled
      /\ ctx[b].done < Steps
      /\ Goto(b, "next", "launched")
      /\ ctx' = [ctx EXCEPT ![b] = opened]
      /\ Persist(b, opened)
      /\ UNCHANGED <<groupVars, future, ret, sendVars, cause, boundVars>>

LaunchBoundary(b) ==
  /\ Goto(b, "launched", "armed")
  /\ Persist(b, ctx[b])
  /\ UNCHANGED <<groupVars, future, ret, ctx, sendVars, cause, boundVars>>

Clear(b) == Unless(b, "armed", "cleared")

Send(b) ==
  /\ Goto(b, "cleared", "sent")
  /\ sends' = [sends EXCEPT ![b][ctx[b].done + 1] = @ + 1]
  /\ late' = [late EXCEPT ![b] = IF event THEN @ + 1 ELSE @]
  /\ UNCHANGED <<sharedVars, groupVars, future, ret, ctx, cause, boundVars>>

(* A faulty variant: a call is consumed for each of its two receipts.      *)
AnswerAgain(b) ==
  LET answered == [done |-> ctx[b].done + 1, calls |-> ctx[b].calls + 2, open |-> FALSE]
  IN  /\ Goto(b, "sent", "answered")
      /\ ctx' = [ctx EXCEPT ![b] = answered]
      /\ Persist(b, answered)
      /\ UNCHANGED <<groupVars, future, ret, sendVars, cause, boundVars>>

(* The provider answers: the call is consumed and the completion receipt   *)
(* recorded, which persists it; its boundary and, once the event is seen   *)
(* clear, the node's are published.                                        *)
Answer(b) ==
  LET answered == [done |-> ctx[b].done + 1, calls |-> ctx[b].calls + 1, open |-> FALSE]
  IN  /\ Goto(b, "sent", "answered")
      /\ ctx' = [ctx EXCEPT ![b] = answered]
      /\ Persist(b, answered)
      /\ UNCHANGED <<groupVars, future, ret, sendVars, cause, boundVars>>

CompletionBoundary(b) ==
  /\ Goto(b, "answered", "kept")
  /\ Persist(b, ctx[b])
  /\ UNCHANGED <<groupVars, future, ret, ctx, sendVars, cause, boundVars>>

CompleteNode(b) ==
  /\ Uncancelled
  /\ Goto(b, "kept", "next")
  /\ Persist(b, ctx[b])
  /\ UNCHANGED <<groupVars, future, ret, ctx, sendVars, cause, boundVars>>

(* All nodes done: the event is read for the last time.  The candidate     *)
(* artifact is withheld if a sibling failed meanwhile, and the branch is   *)
(* completed all the same.                                                 *)
CloseNodes(b) == ctx[b].done = Steps /\ Unless(b, "next", "closed")

Emit(b) ==
  /\ Goto(b, "closed", IF event THEN "withheld" ELSE "published")
  /\ UNCHANGED <<sharedVars, groupVars, future, ret, ctx, sendVars, cause, boundVars>>

Complete(b) ==
  \/ pc[b] = "published" /\ Finalize(b, "completed", "emitted")
  \/ pc[b] = "withheld" /\ Finalize(b, "completed", "none")

(* BranchCancelled, raised by raise_if_cancelled or noticed at the start.  *)
Cancelled(b) ==
  /\ event
  /\ pc[b] \in {"begin", "next", "armed", "kept"}
  /\ Finalize(b, "cancelled", "none")

(* A write, the provider or the reservation check fails.                   *)
Fail(b) ==
  /\ pc[b] \in {"next", "launched", "sent", "answered", "closed"}
  /\ Finalize(b, "failed", "none")

BranchStep(b) ==
  \/ StartBranch(b) \/ Restore(b) \/ RestoreFails(b) \/ Begin(b)
  \/ Launch(b) \/ LaunchBoundary(b) \/ Clear(b) \/ Send(b)
  \/ Answer(b) \/ CompletionBoundary(b) \/ CompleteNode(b)
  \/ CloseNodes(b) \/ Emit(b) \/ Complete(b) \/ Cancelled(b) \/ Fail(b)

-----------------------------------------------------------------------------
(* The coordinating thread.                                                *)

(* Faulty variants: results are added for siblings that could not be       *)
(* cancelled, and cancelled futures stay in the wait.                      *)
TookAll(b, added, stop) ==
  LET siblings == {c \in pending \ {b} : stop}
      cancelled == {c \in siblings : future[c] = "pending"}
  IN  /\ pending' = (pending \ {b}) \ cancelled
      /\ future' = [c \in Branches |-> IF c \in cancelled THEN "cancelled" ELSE future[c]]
      /\ results' = [c \in Branches |->
                       results[c] \o (IF c = b THEN added ELSE <<>>)
                                  \o (IF c \in siblings THEN <<Without("cancelled")>> ELSE <<>>)]
      /\ event' = (event \/ stop)
      /\ UNCHANGED <<sharedVars, phase, ret, pc, ctx, sendVars, cause, boundVars>>

TookAndWaits(b, added, stop) ==
  /\ pending' = pending \ {b}
  /\ future' = [c \in Branches |-> IF stop /\ c \in pending /\ future[c] = "pending"
                                     THEN "cancelled" ELSE future[c]]
  /\ results' = [results EXCEPT ![b] = @ \o added]
  /\ event' = (event \/ stop)
  /\ UNCHANGED <<sharedVars, phase, ret, pc, ctx, sendVars, cause, boundVars>>

(* A future is taken; to stop is to set the event and to cancel those that *)
(* no thread has picked up, each with a result of its own.                 *)
Took(b, added, stop) ==
  LET cancelled == {c \in pending \ {b} : stop /\ future[c] = "pending"}
  IN  /\ pending' = (pending \ {b}) \ cancelled
      /\ future' = [c \in Branches |-> IF c \in cancelled THEN "cancelled" ELSE future[c]]
      /\ results' = [c \in Branches |->
                       results[c] \o (IF c = b THEN added ELSE <<>>)
                                  \o (IF c \in cancelled THEN <<Without("cancelled")>> ELSE <<>>)]
      /\ event' = (event \/ stop)
      /\ UNCHANGED <<sharedVars, phase, ret, pc, ctx, sendVars, cause, boundVars>>

Done(b) == phase = "collecting" /\ b \in pending /\ future[b] = "done"

(* A result; the first failed one stops the siblings.                      *)
TakeResult(b) ==
  /\ Done(b)
  /\ ret[b].status \in Terminal
  /\ Took(b, <<ret[b]>>, ret[b].status = "failed" /\ ~event)
  /\ UNCHANGED erred

(* ResumeRecoveryError; the first one stops the siblings and is raised     *)
(* when the results are applied.                                           *)
TakeUnrecovered(b) ==
  /\ Done(b)
  /\ ret[b].status = "unrecovered"
  /\ Took(b, <<>>, ~erred)
  /\ erred' = TRUE

(* Any other exception leaves the loop: the pool drops what has not        *)
(* started and waits for the rest, which nothing tells to stop.            *)
TakeRaised(b) ==
  /\ Done(b)
  /\ ret[b].status = "raised"
  /\ phase' = "draining"
  /\ pending' = {}
  /\ future' = [c \in Branches |-> IF future[c] = "pending" THEN "cancelled" ELSE future[c]]
  /\ UNCHANGED <<sharedVars, event, erred, results, ret, pc, ctx, sendVars, cause, boundVars>>

Drained ==
  /\ phase = "draining"
  /\ \A b \in Branches : future[b] # "running"
  /\ phase' = "failed"
  /\ UNCHANGED <<sharedVars, event, erred, pending, results, threadVars, sendVars, cause,
                 boundVars>>

(* The sum of f's values, counted in units.                                *)
TotalOf(f) == Cardinality(UNION {{x} \X (1..f[x]) : x \in DOMAIN f})

CallsIn(taken) == TotalOf([i \in DOMAIN taken |-> taken[i].calls])

CallsTaken == TotalOf([b \in Branches |-> CallsIn(results[b])])

AcceptedOf(b, publication) ==
  IF publication # "none" /\ \E i \in DOMAIN results[b] :
                               results[b][i].status # "failed" /\ results[b][i].own # "none"
    THEN "accepted" ELSE publication

(* _apply_branch_group_results: states, budget, accepted publications, and *)
(* a checkpoint whose eligibility the outcome of the group decides.        *)
Apply ==
  LET answered == {b \in Branches : results[b] # <<>>}
      completed == {b \in answered : Last(results[b]).status = "completed"}
      failed == \E b \in answered : \E r \in ToSet(results[b]) : r.status = "failed"
      own == [b \in Branches |-> IF b \in answered THEN Last(results[b]).own ELSE mem.own[b]]
      m == [mem EXCEPT
              !.status = [b \in Branches |-> IF b \in answered THEN Last(results[b]).status
                                                               ELSE @[b]],
              !.used = [b \in Branches |-> IF b \in answered THEN Last(results[b]).calls
                                                             ELSE @[b]],
              !.spent = @ + CallsTaken,
              !.own = [b \in Branches |-> AcceptedOf(b, own[b])],
              !.listed = [b \in Branches |->
                            AcceptedOf(b, IF @[b] = "none" THEN own[b] ELSE @[b])],
              !.held = @ \ completed,
              !.snap = [b \in Branches |-> IF b \in completed THEN Fresh ELSE @[b]]]
      succeeds == ~erred /\ ~failed
  IN  /\ phase = "collecting"
      /\ pending = {}
      /\ mem' = m
      /\ disk' = IF succeeds THEN m ELSE disk
      /\ phase' = IF succeeds THEN "returned" ELSE "failed"
      /\ UNCHANGED <<event, erred, pending, results, threadVars, sendVars, cause, boundVars>>

(* A kill: the checkpoint is all that is left.                             *)
Crash ==
  /\ phase \in {"collecting", "draining", "returned"}
  /\ faults < MaxFaults
  /\ faults' = faults + 1
  /\ phase' = "killed"
  /\ mem' = disk
  /\ event' = FALSE
  /\ erred' = FALSE
  /\ pending' = {}
  /\ results' = [b \in Branches |-> <<>>]
  /\ future' = [b \in Branches |-> "none"]
  /\ ret' = [b \in Branches |-> Without("cancelled")]
  /\ pc' = [b \in Branches |-> "idle"]
  /\ ctx' = [b \in Branches |-> Fresh]
  /\ UNCHANGED <<disk, sendVars, cause, runs>>

-----------------------------------------------------------------------------
(* The root frame reaches the group: for the first time, or restored from  *)
(* the checkpoint after a kill or a failed attempt.                        *)

(* _restored_branch_frontier: the publications of a finished group.        *)
Restorable(m) ==
  /\ \A b \in Branches : /\ m.status[b] \in {"completed", "cancelled"}
                         /\ m.status[b] = "completed" => m.listed[b] = "accepted"
  /\ \E b \in Branches : m.listed[b] = "accepted"

Attempt(to, submitted, taken) ==
  /\ runs < MaxRuns
  /\ runs' = runs + 1
  /\ phase' = to
  /\ event' = FALSE
  /\ erred' = FALSE
  /\ pending' = submitted
  /\ results' = taken
  /\ future' = [b \in Branches |-> IF b \in submitted THEN "pending" ELSE "none"]
  /\ ret' = [b \in Branches |-> Without("cancelled")]
  /\ late' = [b \in Branches |-> 0]
  /\ UNCHANGED <<pc, ctx, sends, faults>>

Stopped == phase \in {"killed", "failed"}

(* What the checkpoint recorded of a branch in a terminal state.           *)
Recorded(m, b) ==
  [status |-> m.status[b], calls |-> m.used[b], own |-> m.own[b],
   artifact |-> IF m.own[b] = "none" THEN m.listed[b] = "accepted" ELSE m.own[b] = "accepted"]

RestoreFrontier ==
  /\ Stopped
  /\ Restorable(disk)
  /\ mem' = disk
  /\ Attempt("returned", {},
             [b \in Branches |->
                IF disk.listed[b] = "accepted"
                  THEN <<[Without("completed") EXCEPT !.artifact = TRUE]>> ELSE <<>>])
  /\ UNCHANGED <<disk, cause>>

(* _resume_horizontal_branches: branches with a snapshot run again, those  *)
(* in a terminal state contribute what was recorded of them.               *)
ResumeGroup ==
  /\ Stopped
  /\ ~Restorable(disk)
  /\ disk.held # {}
  /\ mem' = disk
  /\ Attempt("collecting", disk.held,
             [b \in Branches |-> IF disk.status[b] \in Terminal THEN <<Recorded(disk, b)>> ELSE <<>>])
  /\ UNCHANGED <<disk, cause>>

(* _execute_horizontal_branches, at first and whenever a checkpoint has    *)
(* neither a finished group nor a snapshot.                                *)
ExecuteGroup ==
  /\ \/ phase = "ready" /\ UNCHANGED cause
     \/ /\ Stopped
        /\ ~Restorable(disk)
        /\ disk.held = {}
        /\ cause' = cause \cup {"relaunch"}
  /\ LET m == [disk EXCEPT !.status = [b \in Branches |-> "pending"],
                           !.used = [b \in Branches |-> 0],
                           !.own = [b \in Branches |-> "none"]]
     IN  mem' = m /\ disk' = m
  /\ Attempt("collecting", Branches, [b \in Branches |-> <<>>])

-----------------------------------------------------------------------------
NoGroup ==
  [status |-> [b \in Branches |-> "none"],
   held |-> {},
   snap |-> [b \in Branches |-> Fresh],
   used |-> [b \in Branches |-> 0],
   own |-> [b \in Branches |-> "none"],
   listed |-> [b \in Branches |-> "none"],
   spent |-> 0]

Init ==
  /\ mem = NoGroup
  /\ disk = NoGroup
  /\ phase = "ready"
  /\ event = FALSE
  /\ erred = FALSE
  /\ pending = {}
  /\ results = [b \in Branches |-> <<>>]
  /\ future = [b \in Branches |-> "none"]
  /\ ret = [b \in Branches |-> Without("cancelled")]
  /\ pc = [b \in Branches |-> "idle"]
  /\ ctx = [b \in Branches |-> Fresh]
  /\ sends = [b \in Branches |-> [i \in 1..Steps |-> 0]]
  /\ late = [b \in Branches |-> 0]
  /\ cause = {}
  /\ faults = 0
  /\ runs = 0

Coordinate ==
  \/ Drained
  \/ Apply
  \/ \E b \in Branches : TakeResult(b) \/ TakeUnrecovered(b) \/ TakeRaised(b)

Next ==
  \/ \E b \in Branches : BranchStep(b)
  \/ Coordinate
  \/ Crash
  \/ RestoreFrontier
  \/ ResumeGroup
  \/ ExecuteGroup

Spec == Init /\ [][Next]_vars

(* Threads run and the provider answers or fails; nobody has to resume a   *)
(* stopped run.                                                            *)
FairSpec ==
  /\ Spec
  /\ \A b \in Branches : WF_vars(BranchStep(b))
  /\ WF_vars(Coordinate)

-----------------------------------------------------------------------------
(* Properties.                                                             *)

Shared ==
  [status : [Branches -> Terminal \cup {"none", "pending", "running"}],
   held : SUBSET Branches,
   snap : [Branches -> Progress],
   used : [Branches -> 0..Steps],
   own : [Branches -> Publication],
   listed : [Branches -> Publication],
   spent : Nat]

(* The types of the shared state, the pool, the threads and the counters.  *)
TypeOK ==
  /\ {mem, disk} \subseteq Shared
  /\ phase \in {"ready", "collecting", "draining", "returned", "failed", "killed"}
  /\ {event, erred} \subseteq BOOLEAN
  /\ pending \subseteq Branches
  /\ \A b \in Branches : results[b] \in Seq(Result)
  /\ future \in [Branches -> {"none", "pending", "running", "done", "cancelled"}]
  /\ ret \in [Branches -> Result]
  /\ pc \in [Branches -> {"idle", "restore", "begin", "next", "launched", "armed", "cleared",
                          "sent", "answered", "kept", "closed", "withheld", "published"}]
  /\ ctx \in [Branches -> Progress]
  /\ sends \in [Branches -> [1..Steps -> Nat]]
  /\ late \in [Branches -> Nat]
  /\ cause \subseteq {"relaunch", "failure"}
  /\ faults \in 0..MaxFaults
  /\ runs \in 0..MaxRuns

(* Cancelling the siblings takes their futures out of the wait as it adds  *)
(* their results: no branch is counted twice, and when the results are     *)
(* applied without a recovery error each submitted branch has one.         *)
OneResultEach ==
  \A b \in Branches :
    /\ Len(results[b]) <= 1
    /\ b \in pending => results[b] = <<>>
    /\ phase = "collecting" /\ ~erred /\ future[b] # "none" /\ b \notin pending
         => results[b] # <<>>

(* Nobody tells a running request to stop: after the event is set a branch *)
(* may still hand over the one request it had already cleared, no other.   *)
AtMostOneLateSend == \A b \in Branches : late[b] <= 1

(* The launch receipt is durable before the request goes out: until a      *)
(* sibling fails, the checkpoint a kill would leave holds the snapshot of  *)
(* the very request that is in flight.                                     *)
SentIsRecorded ==
  \A b \in Branches :
    pc[b] \in {"cleared", "sent"} /\ (\A c \in Branches : mem.status[c] # "failed")
      => b \in disk.held /\ disk.snap[b] = ctx[b]

(* Resuming from snapshots never repeats a request: one that is sent again *)
(* was lost by a failed sibling's ineligible checkpoints, or by launching  *)
(* the whole group again.                                                  *)
ReissueHasCause ==
  \A b \in Branches : \A i \in 1..Steps : sends[b][i] > 1 => cause # {}

(* A kill leaves something that can be resumed: no failed branch, every    *)
(* running branch with its snapshot, and no node recorded as completed     *)
(* whose request never went out.                                           *)
ResumePointIsSound ==
  \A b \in Branches :
    /\ disk.status[b] # "failed"
    /\ disk.status[b] = "running" => b \in disk.held
    /\ \A i \in 1..disk.snap[b].done : sends[b][i] > 0

TotalSends == TotalOf([b \in Branches |-> TotalOf(sends[b])])

(* The run's budget is charged once per call: restoring a finished         *)
(* frontier, or applying a resumed group, never charges a call again.      *)
ChargedOnce == mem.spent <= TotalSends

(* Whatever fails, the group ends: the coordinator never waits for a       *)
(* branch that will not answer.                                            *)
GroupEnds == phase = "collecting" ~> phase \in {"returned", "failed", "killed"}

(* Requests and what is known of them agree, also after kills: none is     *)
(* sent past a set event twice, all are recorded, each is charged once     *)
(* (context.py, accounting.py).                                            *)
SendsAreAccounted == AtMostOneLateSend /\ SentIsRecorded /\ ChargedOnce

(* A resumption starts from what was durable and repeats a request only    *)
(* for a recorded reason (resume.py).                                      *)
ResumeIsSound == ReissueHasCause /\ ResumePointIsSound

(* "provider request was already launched and must be reconciled before    *)
(* reissue" (context.py:357): no request is handed over twice.             *)
NeverReissued == \A b \in Branches : \A i \in 1..Steps : sends[b][i] <= 1

(* "horizontal merge did not return required frontier output"              *)
(* (plan_helpers.py:107): what a finished group hands to the merge has a   *)
(* worker output for every branch.                                         *)
FrontierIsWhole ==
  phase = "returned" => \A b \in Branches : \E r \in ToSet(results[b]) : r.status = "completed"

(* The same for the content: the output of a completed branch carries its  *)
(* artifact, also when the group was resumed (branching.py:125).           *)
CompletedKeepsArtifact ==
  phase = "returned" =>
    \A b \in Branches : \A r \in ToSet(results[b]) : r.status = "completed" => r.artifact

=============================================================================
