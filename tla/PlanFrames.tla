----------------------------- MODULE PlanFrames -----------------------------
(* The older kernel's execution plans: how a prompt or a benchmark task    *)
(* becomes a plan of nodes (runtime/api/plan_compiler.py, plan_nodes.py),  *)
(* what a plan must be to be accepted (contracts/execution.py), and how    *)
(* the frames of a run work it off (kernel/loop.py, root_frame.py,         *)
(* operations.py): alone on the root frame, by child frames, or by a group *)
(* of branches whose outputs a merge node joins, up to the verify node and *)
(* the answer, with kills and resumptions from the last checkpoint.        *)
(*                                                                         *)
(* What happens inside a branch group is BranchGroup, what a resumption    *)
(* finds out about an interrupted effect is EffectRecovery; both are       *)
(* choices here. The topology and the stop policy are a runtime's own code:*)
(* which mode a frame runs in, which children it gets, whether a run that  *)
(* may stop does, are choices too. Values are who computed them in which   *)
(* attempt.                                                                *)
EXTENDS Naturals, FiniteSets, SequencesExt

CONSTANTS
  Tasks,        \* benchmark tasks, as the operator Task makes them
  Requests,     \* prompts: [words, files, allowed, service, preference]
  Hosts,        \* isolation policies: [network, write], BOOLEANs
  MaxSteps,     \* execution.max_steps of the runtime profile
  MaxResumes    \* bound: resumptions of a run

VARIABLES
  task,         \* what was submitted
  host,         \* the isolation policy it was submitted under
  plan,         \* what it was compiled to
  life,         \* execution_state of the run
  status,       \* plan_node_status
  artifacts,    \* state.artifacts, by output key
  workers,      \* state.worker_plans: whose outputs a merge node waits to merge
  queue,        \* state.queue
  active,       \* the frame that runs and the nodes it still has to run
  answer,       \* the local artifact of _run: none or one snapshot
  steps,        \* frames taken by this attempt
  saved,        \* the last checkpoint: none or one
  resumes       \* resumptions so far

PlanAssumption == MaxSteps \in Nat \ {0} /\ MaxResumes \in Nat

state == <<status, artifacts, workers, queue>>
vars == <<task, host, plan, life, state, active, answer, steps, saved, resumes>>

-----------------------------------------------------------------------------
(* Tasks. An operation's id is a number; its output key is one too.        *)
Op(id, kind, deps, out, visible) ==
  [id |-> id, kind |-> kind, deps |-> deps, out |-> out, visible |-> visible,
   declared |-> TRUE]

Task(ops, keys, exact, required, bestEffort, allowed) ==
  [ops |-> ops, keys |-> keys, exact |-> exact, required |-> required,
   bestEffort |-> bestEffort, allowed |-> allowed]

(* _category_allowed: no category listed is every category.                *)
Allows(r, scopes) == r.allowed = {} \/ scopes \subseteq r.allowed

Reads(r) == [i \in 1..r.files |-> Op(i, "tool_call", <<>>, i, FALSE)]
AfterReads(r, kind) ==
  Append(Reads(r), Op(r.files + 1, kind, [i \in 1..r.files |-> i], r.files + 1, TRUE))
Alone(kind, visible) == <<Op(1, kind, <<>>, 1, visible)>>

(* _service_request_spec: what looks like a service call and is none.      *)
ServiceFits(r) ==
  /\ r.service # "malformed"
  /\ r.allowed = {} \/ "service/http" \in r.allowed

(* solve_request_to_task, template by template: when one fits, the         *)
(* operations it makes, and whether it knows the exact answer.             *)
Template(when, ops, exact) == [when |-> when, ops |-> ops, exact |-> exact]
Arithmetic(r) ==
  Template(/\ \E pair \in {{"sum", "product"}, {"min", "max"}, {"max", "median"}} :
                pair \cup {"numbers"} \subseteq r.words
           /\ Allows(r, {"math/basic"}),
           <<Op(1, "builtin_op", <<>>, 1, FALSE), Op(2, "builtin_op", <<>>, 2, FALSE)>>, TRUE)
Synthesis(r) ==
  Template({"numbers", "modulus", "square"} \subseteq r.words /\ Allows(r, {"generated/local"}),
           Alone("tool_synthesis", FALSE), TRUE)
Lookup(r) ==
  Template("symbol" \in r.words \/ (r.files > 0 /\ "owner" \in r.words),
           Alone("memory_lookup", FALSE), TRUE)
Patch(r) ==
  Template(/\ r.files > 0 /\ "edit" \in r.words
           /\ Allows(r, {"filesystem/read", "filesystem/patch"}),
           AfterReads(r, "repo_patch"), FALSE)
Service(r) ==
  Template(r.service # "none",
           IF ServiceFits(r) THEN Alone("service_action", TRUE) ELSE <<>>, FALSE)
Inspection(r) ==
  Template(r.files > 0 /\ "inspect" \in r.words /\ Allows(r, {"filesystem/read"}),
           AfterReads(r, "direct_response"), FALSE)
Direct == Template(TRUE, Alone("direct_response", TRUE), FALSE)

(* _verification_policy.                                                   *)
MustVerify(preference, exact) ==
  preference = "required" \/ (preference = "auto" /\ exact)

ToTask(r) ==
  LET templates == <<Arithmetic(r), Synthesis(r), Lookup(r), Patch(r), Service(r),
                     Inspection(r), Direct>>
      fits(i) == templates[i].when /\ \A j \in 1..(i - 1) : ~templates[j].when
      t == templates[CHOOSE i \in DOMAIN templates : fits(i)]
      required == MustVerify(r.preference, t.exact)
  IN  Task(t.ops, <<>>, t.exact, required, ~required, r.allowed)

-----------------------------------------------------------------------------
(* Compilation. Every kind of operation may branch: operations with equal  *)
(* dependencies form a group, named by its first member, and the group gets *)
(* a merge node on which whoever depends on a member depends too.          *)
None == 0
MergeOf(group) == 100 + group
VerifyId == 200
IsMerge(n) == n.kind = "merge"

Ids(ns) == [i \in DOMAIN ns |-> ns[i].id]
IdSet(ns) == ToSet(Ids(ns))

GroupIn(ops, deps) ==
  LET same == SelectSeq(ops, LAMBDA p : p.deps = deps)
  IN  IF Len(same) > 1 THEN same[1].id ELSE None

Node(id, kind, deps, out, group, declared) ==
  [id |-> id, kind |-> kind, deps |-> deps, out |-> out, group |-> group,
   declared |-> declared]

(* _attach_branch_groups.                                                  *)
Grouped(ops) ==
  [i \in DOMAIN ops |->
     Node(ops[i].id, ops[i].kind, ops[i].deps, ops[i].out, GroupIn(ops, ops[i].deps),
          ops[i].declared)]

Members(ns, group) == SelectSeq(ns, LAMBDA n : n.group = group)

MergesFor(ns) ==
  LET firsts == SelectSeq(ns, LAMBDA n : n.group = n.id)
  IN  [i \in DOMAIN firsts |->
         Node(MergeOf(firsts[i].id), "merge", Ids(Members(ns, firsts[i].id)),
              MergeOf(firsts[i].id), None, TRUE)]

MergesAfter(ns, id) == {MergeOf(n.group) : n \in {m \in ToSet(ns) : m.id = id /\ m.group # None}}

(* A faulty variant: nobody is rewired to the merge nodes.                 *)
MergesBeside(ns) == ns \o MergesFor(ns)

(* _append_merge_nodes.                                                    *)
WithMerges(ns) ==
  LET Joined(deps, d) ==
        FoldLeft(LAMBDA acc, m : IF m \in ToSet(acc) THEN acc ELSE Append(acc, m),
                 deps, SetToSeq(MergesAfter(ns, d)))
  IN  [i \in DOMAIN ns |-> [ns[i] EXCEPT !.deps = FoldLeft(Joined, @, @)]] \o MergesFor(ns)

(* _task_terminal_output_keys.                                             *)
TerminalKeys(t) ==
  LET shown == SelectSeq(t.ops, LAMBDA o : o.visible)
      outs(ops) == [i \in DOMAIN ops |-> ops[i].out]
  IN  IF t.keys # <<>> THEN t.keys ELSE IF shown # <<>> THEN outs(shown) ELSE outs(t.ops)

(* _terminal_dependency_node_ids: the producer, or the merge it feeds.     *)
TerminalNodes(ns, keys) ==
  LET producers(key) == SelectSeq(ns, LAMBDA n : n.out = key)
      merges(id) == SelectSeq(ns, LAMBDA n : IsMerge(n) /\ id \in ToSet(n.deps))
      node(key) == LET id == Last(producers(key)).id
                   IN  IF merges(id) = <<>> THEN id ELSE Last(merges(id)).id
  IN  FoldLeft(LAMBDA acc, key :
                 IF producers(key) = <<>> \/ node(key) \in ToSet(acc) THEN acc
                 ELSE Append(acc, node(key)), <<>>, keys)

(* _append_verify_node; tasks are externally visible unless they say       *)
(* otherwise, which nothing in the repository does.                        *)
WithVerify(ns, t, keys) ==
  LET deps == TerminalNodes(ns, keys)
  IN  IF (t.required \/ t.exact) /\ keys # <<>> /\ deps # <<>>
        THEN Append(ns, Node(VerifyId, "verify", deps, VerifyId, None, TRUE))
        ELSE ns

(* _compile_plan_nodes and compile_execution_plan_from_task.               *)
CompileNodes(t) == WithVerify(WithMerges(Grouped(t.ops)), t, TerminalKeys(t))
Compile(t) ==
  LET keys == TerminalKeys(t)
      ns == CompileNodes(t)
      verifies == \E n \in ToSet(ns) : n.kind = "verify"
  IN  [nodes |-> ns,
       order |-> <<>>,
       keys |-> keys,
       verifies |-> verifies,
       mustVerify |-> (t.required \/ t.exact) /\ keys # <<>>,
       bestEffort |-> t.bestEffort]

-----------------------------------------------------------------------------
(* ExecutionPlan.validate_execution_plan. In an acyclic plan every node is *)
(* reachable from a root, so that reachability asks for nothing more.      *)
IsUnique(s) == Cardinality(ToSet(s)) = Len(s)
Acyclic(ns) ==
  \A S \in SUBSET ToSet(ns) :
    S # {} => \E n \in S : ToSet(n.deps) \cap {m.id : m \in S} = {}

HookHolds(ns, n) ==
  CASE IsMerge(n) -> LET own == Ids(Members(ns, n.id - 100)) IN own # <<>> /\ own = n.deps
    [] n.kind = "verify" -> /\ n.deps # <<>>
                            /\ \A m \in ToSet(ns) : m.id \in ToSet(n.deps) => m.kind # "verify"
    [] OTHER -> n.declared

Valid(p) ==
  LET ns == p.nodes
      made == SelectSeq(ns, LAMBDA n : n.kind # "verify")
  IN  /\ IsUnique(Ids(ns))
      /\ \A n \in ToSet(ns) : ToSet(n.deps) \subseteq IdSet(ns) /\ HookHolds(ns, n)
      /\ \A n \in ToSet(ns) : n.group # None => n.kind \notin {"merge", "verify"}
      /\ Acyclic(ns)
      /\ IsUnique([i \in DOMAIN made |-> made[i].out])
      /\ ToSet(p.keys) \subseteq {n.out : n \in ToSet(made)}
      /\ \A n, m \in ToSet(ns) : n.group = m.group /\ n.group # None => n.deps = m.deps
      /\ p.mustVerify => p.verifies

(* execution_plan_requirements and _preflight_execution_plan_contract.     *)
Needs(p) == {n.kind : n \in ToSet(p.nodes)} \cap {"service_action", "repo_patch"}
HostTakes(h, p) ==
  /\ "service_action" \in Needs(p) => h.network
  /\ "repo_patch" \in Needs(p) => h.write

-----------------------------------------------------------------------------
(* The compiled plan as the run reads it.                                  *)
NodeOf(id) == CHOOSE n \in ToSet(plan.nodes) : n.id = id
OutOf(id) == NodeOf(id).out
DepsOf(id) == ToSet(NodeOf(id).deps)
GroupOf(id) == NodeOf(id).group
Verifies == {n.id : n \in {m \in ToSet(plan.nodes) : m.kind = "verify"}}

(* _ordered_execution_nodes: depth first, a node after what it depends on. *)
Ordered(ns) ==
  LET deps(id) == (CHOOSE n \in ToSet(ns) : n.id = id).deps
      visit[p \in Seq(Nat) \X Nat] ==
        IF p[2] \in ToSet(p[1]) THEN p[1]
        ELSE Append(FoldLeft(LAMBDA order, d : visit[<<order, d>>], p[1], deps(p[2])), p[2])
  IN  FoldLeft(LAMBDA order, id : visit[<<order, id>>], <<>>, Ids(ns))

(* The input bindings a node must find: what its own operation depends on. *)
Bound(id) == IF NodeOf(id).kind \in {"merge", "verify"} THEN {} ELSE DepsOf(id) \cap 1..100

(* A value is known by what it is, who computed it and in which attempt; a *)
(* verdict also by what it saw.                                            *)
Value(what, by, ok, saw) ==
  [what |-> what, by |-> by, attempt |-> resumes, ok |-> ok, saw |-> saw]
Output(id) == Value("output", id, TRUE, <<>>)
Missing == [what |-> "missing", by |-> None, attempt |-> 0, ok |-> FALSE, saw |-> <<>>]

With(f, key, value) == [k \in DOMAIN f \cup {key} |-> IF k = key THEN value ELSE f[k]]
Without(f, key) == [k \in DOMAIN f \ {key} |-> f[k]]
Found(held, key) == IF key \in DOMAIN held THEN held[key] ELSE Missing
Snapshot(held) == [i \in DOMAIN plan.keys |-> Found(held, plan.keys[i])]

Present(held) == ToSet(plan.keys) \subseteq DOMAIN held
Pending(st) == \E id \in IdSet(plan.nodes) : st[id] # "completed"
VerifyPending(st) == \E id \in Verifies : st[id] # "completed"
Verdicts(held) == {held[OutOf(id)] : id \in {v \in Verifies : OutOf(v) \in DOMAIN held}}
Verified == \E v \in Verdicts(artifacts) : v.ok

(* _active_runnable_frontier: the nodes of the first runnable one's group. *)
Frontier ==
  LET runnable == SelectSeq(plan.order, LAMBDA id :
                    /\ status[id] # "completed"
                    /\ \A d \in DepsOf(id) : status[d] = "completed")
  IN  CASE runnable = <<>> -> <<>>
        [] runnable # <<>> /\ GroupOf(Head(runnable)) = None -> <<Head(runnable)>>
        [] OTHER -> SelectSeq(runnable, LAMBDA id : GroupOf(id) = GroupOf(Head(runnable)))

(* Frames: the root frame, or the child frame of one operation.            *)
Root == 0
NoFrame == [frame |-> None, todo |-> <<>>, at |-> "none", mode |-> "none"]
Frame(frame, todo, at, mode) == [frame |-> frame, todo |-> todo, at |-> at, mode |-> mode]

(* _schedule_root_continuation does nothing once every node is completed.  *)
Continue(st, q) == IF Pending(st) THEN <<Root>> \o q ELSE q
ContinueLater(st, q) == IF Pending(st) THEN Append(q, Root) ELSE q

NoPlan == [nodes |-> <<>>, order |-> <<>>, keys |-> <<>>, verifies |-> FALSE,
           mustVerify |-> FALSE, bestEffort |-> FALSE]
Empty == [k \in {} |-> Missing]

Init ==
  /\ task \in Tasks \cup {ToTask(r) : r \in Requests}
  /\ host \in Hosts
  /\ plan = NoPlan
  /\ life = "submitted"
  /\ status = [id \in {} |-> "new"]
  /\ artifacts = Empty
  /\ workers = [id \in {} |-> {}]
  /\ queue = <<>>
  /\ active = NoFrame
  /\ answer = <<>>
  /\ steps = 0
  /\ saved = <<>>
  /\ resumes = 0

-----------------------------------------------------------------------------
(* _compiled_execution_plan_for_request, the host's preflight and _run up  *)
(* to its loop. A prompt that fits no template has no operations.          *)
Accepted == task.ops # <<>> /\ Valid(Compile(task)) /\ HostTakes(host, Compile(task))

Refuse ==
  /\ life = "submitted" /\ ~Accepted
  /\ life' = "refused"
  /\ UNCHANGED <<task, host, plan, state, active, answer, steps, saved, resumes>>

Submit ==
  /\ life = "submitted" /\ Accepted
  /\ life' = "running"
  /\ LET compiled == Compile(task)
     IN  /\ plan' = [compiled EXCEPT !.order = Ordered(compiled.nodes)]
         /\ status' = [id \in IdSet(compiled.nodes) |-> "new"]
  /\ queue' = <<Root>>
  /\ UNCHANGED <<task, host, artifacts, workers, active, answer, steps, saved, resumes>>

(* The loop takes the first frame. A root frame with nothing to run goes   *)
(* to its end; one with a frontier runs in the mode its topology selects.  *)
Takes(frame) ==
  /\ life = "running" /\ active.at = "none" /\ queue # <<>> /\ steps < MaxSteps
  /\ Head(queue) = frame
  /\ steps' = steps + 1

TakeChild ==
  /\ \E id \in IdSet(plan.nodes) : Takes(id) /\ active' = Frame(id, <<id>>, "ops", "child")
  /\ queue' = Tail(queue)
  /\ UNCHANGED <<task, host, plan, life, status, artifacts, workers, answer, saved, resumes>>

TakeRoot ==
  /\ Takes(Root)
  /\ IF Frontier = <<>> THEN active' = Frame(Root, <<>>, "end", "idle")
     ELSE \/ active' = Frame(Root, plan.order, "ops", "single")
          \/ active' = Frame(Root, Frontier, "ops", "frontier")
  /\ answer' = <<>>
  /\ queue' = Tail(queue)
  /\ UNCHANGED <<task, host, plan, life, status, artifacts, workers, saved, resumes>>

(* mode "vertical": a child frame for each node proposed, then the root.   *)
TakeVertical ==
  /\ Takes(Root) /\ Frontier # <<>>
  /\ answer' = <<>>
  /\ \E proposed \in SUBSET ToSet(Frontier) :
       queue' = ContinueLater(status, Tail(queue) \o
                  SelectSeq(Frontier, LAMBDA id : id \in proposed))
  /\ UNCHANGED <<task, host, plan, life, status, artifacts, workers, active, saved, resumes>>

(* _execute_horizontal_branches, which saves a checkpoint before it starts *)
(* the branches; a group that cannot be launched is run as operations.     *)
FanOut ==
  /\ Takes(Root) /\ Len(Frontier) > 1
  /\ answer' = <<>>
  /\ active' = Frame(Root, Frontier, "group", "frontier")
  /\ queue' = Tail(queue)
  /\ saved' = << [status |-> status, artifacts |-> artifacts, workers |-> workers,
                  queue |-> queue] >>
  /\ UNCHANGED <<task, host, plan, life, status, artifacts, workers, resumes>>

(* The group hands the outputs of the branches that have one to the merge  *)
(* node, whose frontier counts as completed from here on.                  *)
GroupReturns ==
  /\ life = "running" /\ active.at = "group"
  /\ LET front == active.todo
         merge == MergeOf(GroupOf(front[1]))
         done == [id \in DOMAIN status |->
                    IF id \in ToSet(front) THEN "completed" ELSE status[id]]
     IN  IF merge \notin IdSet(plan.nodes)
           THEN life' = "broken" /\ UNCHANGED <<status, workers, queue>>
           ELSE /\ \E answered \in SUBSET ToSet(front) \ {{}} :
                     workers' = With(workers, merge, {Output(id) : id \in answered})
                /\ status' = done
                /\ queue' = Continue(done, queue)
                /\ UNCHANGED life
  /\ active' = NoFrame
  /\ UNCHANGED <<task, host, plan, artifacts, answer, steps, saved, resumes>>

GroupFails ==
  /\ life = "running" /\ active.at = "group"
  /\ life' = "failed"
  /\ active' = NoFrame
  /\ UNCHANGED <<task, host, plan, state, answer, steps, saved, resumes>>

-----------------------------------------------------------------------------
(* _execute_operations: the next node of the frame.                        *)
Here(at) == life = "running" /\ active.at = at
ThisNode == Head(active.todo)
Rest == [active EXCEPT !.todo = Tail(@), !.at = "ops"]

(* What a completed node left is used again, what a blocked one would have *)
(* written is the block.                                                   *)
Reuse ==
  /\ Here("ops") /\ active.todo # <<>>
  /\ \/ /\ status[ThisNode] = "completed" /\ OutOf(ThisNode) \in DOMAIN artifacts
        /\ UNCHANGED artifacts
     \/ /\ status[ThisNode] = "blocked"
        /\ artifacts' = With(artifacts, OutOf(ThisNode), Value("blocked", ThisNode, FALSE, <<>>))
  /\ active' = Rest
  /\ UNCHANGED <<task, host, plan, life, status, workers, queue, answer, steps, saved, resumes>>

Begin ==
  /\ Here("ops") /\ active.todo # <<>> /\ status[ThisNode] # "blocked"
  /\ ~(status[ThisNode] = "completed" /\ OutOf(ThisNode) \in DOMAIN artifacts)
  /\ status' = [status EXCEPT ![ThisNode] = "running"]
  /\ IF \A d \in Bound(ThisNode) : OutOf(d) \in DOMAIN artifacts
       THEN active' = [active EXCEPT !.at = "busy"] /\ UNCHANGED life
       ELSE life' = "broken" /\ active' = NoFrame
  /\ UNCHANGED <<task, host, plan, artifacts, workers, queue, answer, steps, saved, resumes>>

(* publish_checkpoint_boundary around the effect of a node, with the frame *)
(* that runs ahead of the queue.                                           *)
Effectful(id) == NodeOf(id).kind \notin {"memory_lookup", "merge", "verify"}
Publish ==
  /\ Here("busy") /\ Effectful(ThisNode)
  /\ saved' = << [status |-> status, artifacts |-> artifacts, workers |-> workers,
                  queue |-> <<active.frame>> \o queue] >>
  /\ UNCHANGED <<task, host, plan, life, state, active, answer, steps, resumes>>

(* A faulty variant: the branches' outputs are forgotten.                  *)
HandedNothing(merge) == {}

(* _execute_merge_node: what the branches returned, else what its frontier *)
(* left; _apply_horizontal_frontier_outputs asks for all of it.            *)
Handed(merge) == IF merge \in DOMAIN workers THEN workers[merge] ELSE {}
Merged(merge) ==
  IF Handed(merge) # {} THEN Handed(merge)
  ELSE {[Found(artifacts, OutOf(d)) EXCEPT !.by = d] : d \in DepsOf(merge)}
MergeLacks(merge) == {v.by : v \in Merged(merge)} # DepsOf(merge)

Completes ==
  /\ status' = [id \in DOMAIN status |->
                  IF id = ThisNode \/ (IsMerge(NodeOf(ThisNode)) /\ id \in DepsOf(ThisNode))
                    THEN "completed" ELSE status[id]]
  /\ active' = Rest
  /\ UNCHANGED <<task, host, plan, life, queue, answer, steps, saved, resumes>>

Complete ==
  /\ Here("busy") /\ NodeOf(ThisNode).kind \notin {"merge", "verify"}
  /\ artifacts' = With(artifacts, OutOf(ThisNode), Output(ThisNode))
  /\ Completes
  /\ UNCHANGED workers

Merge ==
  /\ Here("busy") /\ IsMerge(NodeOf(ThisNode)) /\ ~MergeLacks(ThisNode)
  /\ artifacts' = [k \in DOMAIN artifacts \cup {OutOf(d) : d \in DepsOf(ThisNode)}
                         \cup {OutOf(ThisNode)} |->
                     IF k = OutOf(ThisNode) THEN Output(ThisNode)
                     ELSE IF \E v \in Merged(ThisNode) : OutOf(v.by) = k
                       THEN CHOOSE v \in Merged(ThisNode) : OutOf(v.by) = k
                     ELSE artifacts[k]]
  /\ workers' = Without(workers, ThisNode)
  /\ Completes

(* _execute_verify_node: the verdict is the checkers'.                     *)
Verify ==
  /\ Here("busy") /\ NodeOf(ThisNode).kind = "verify"
  /\ \E ok \in BOOLEAN :
       artifacts' = With(artifacts, OutOf(ThisNode),
                         Value("verdict", ThisNode, ok, Snapshot(artifacts)))
  /\ Completes
  /\ UNCHANGED workers

(* A node that fails, and a merge that lacks an output, end the run.       *)
NodeFails ==
  /\ Here("busy")
  /\ ~IsMerge(NodeOf(ThisNode)) \/ MergeLacks(ThisNode)
  /\ status' = [status EXCEPT ![ThisNode] = "failed"]
  /\ life' = "failed"
  /\ active' = NoFrame
  /\ UNCHANGED <<task, host, plan, artifacts, workers, queue, answer, steps, saved, resumes>>

-----------------------------------------------------------------------------
(* A faulty variant: the artifacts are the answer at once.                 *)
ResolveAtOnce == answer' = << Snapshot(artifacts) >> /\ UNCHANGED queue

(* _resolve_terminal_progress: the artifacts are the answer unless a       *)
(* verify node is still to run.                                            *)
Resolve ==
  IF Verdicts(artifacts) = {} /\ VerifyPending(status)
    THEN answer' = <<>> /\ queue' = Continue(status, queue)
    ELSE answer' = << Snapshot(artifacts) >> /\ UNCHANGED queue

EndFrame ==
  /\ Here("end") \/ (Here("ops") /\ active.todo = <<>>)
  /\ CASE active.mode = "child" -> UNCHANGED <<answer, queue>>
       [] active.mode = "single" \/ (active.mode # "child" /\ Present(artifacts)) -> Resolve
       [] active.mode = "frontier" /\ ~Present(artifacts) ->
            answer' = <<>> /\ queue' = Continue(status, queue)
       [] OTHER -> UNCHANGED <<answer, queue>>
  /\ active' = NoFrame
  /\ UNCHANGED <<task, host, plan, life, status, artifacts, workers, steps, saved, resumes>>

(* After a frame the stop policy is asked, unless frames and nodes remain; *)
(* the loop also ends with its queue or its steps. A snapshot of several   *)
(* keys is a dict that has them all.                                       *)
IsNone(a) == a \in {<<>>, << <<Missing>> >>}
Unresolved ==
  IF answer # <<>> /\ Len(plan.keys) > 1 THEN {} ELSE ToSet(plan.keys) \ DOMAIN artifacts

Finish ==
  /\ Here("none") /\ steps > 0
  /\ \E stops \in BOOLEAN :
       /\ IF stops THEN ~(queue # <<>> /\ Pending(status)) ELSE queue = <<>> \/ steps = MaxSteps
       /\ LET final == IF IsNone(answer) /\ DOMAIN artifacts # {}
                         THEN << Snapshot(artifacts) >> ELSE answer
              unverified == plan.verifies /\ ~Verified
              cancels == stops /\ (Unresolved # {} \/ IsNone(final) \/ unverified)
              fails == ~plan.bestEffort /\ (unverified \/ IsNone(final))
          IN  /\ life' = CASE cancels -> "cancelled"
                           [] ~cancels /\ fails -> "failed"
                           [] OTHER -> "completed"
              /\ answer' = IF ~cancels /\ fails THEN <<>> ELSE final
  /\ UNCHANGED <<task, host, plan, state, active, steps, saved, resumes>>

(* An interrupt cancels the run; a kill leaves it with what its last       *)
(* checkpoint holds.                                                       *)
Interrupt ==
  /\ life = "running"
  /\ life' = "cancelled"
  /\ active' = NoFrame
  /\ answer' = <<>>
  /\ UNCHANGED <<task, host, plan, state, steps, saved, resumes>>

Kill ==
  /\ life = "running"
  /\ life' = "down"
  /\ active' = NoFrame
  /\ answer' = <<>>
  /\ steps' = 0
  /\ UNCHANGED <<task, host, plan, state, saved, resumes>>

(* _restore_from_checkpoint: an interrupted node runs again, or counts as  *)
(* completed with the output its receipt holds, or is blocked.             *)
Resume ==
  /\ life = "down" /\ saved # <<>> /\ resumes < MaxResumes
  /\ life' = "running"
  /\ resumes' = resumes + 1
  /\ LET s == saved[1]
         cut == {id \in DOMAIN s.status : s.status[id] = "running"}
     IN  \E now \in [cut -> {"running", "completed", "blocked"}] :
           LET known == {id \in cut : now[id] = "completed"}
           IN  /\ status' = [id \in DOMAIN s.status |->
                               IF id \in cut THEN now[id] ELSE s.status[id]]
               /\ artifacts' = [k \in DOMAIN s.artifacts \cup {OutOf(id) : id \in known} |->
                                  IF k \in {OutOf(id) : id \in known}
                                    THEN Output(CHOOSE id \in known : OutOf(id) = k)
                                    ELSE s.artifacts[k]]
               /\ workers' = s.workers
               /\ queue' = s.queue
  /\ UNCHANGED <<task, host, plan, active, answer, steps, saved>>

(* Work that cannot be reconciled under the strict policy ends the run.    *)
ResumeFails ==
  /\ life = "down" /\ saved # <<>> /\ resumes < MaxResumes
  /\ life' = "failed"
  /\ UNCHANGED <<task, host, plan, state, active, answer, steps, saved, resumes>>

Next ==
  \/ Refuse \/ Submit
  \/ TakeChild \/ TakeRoot \/ TakeVertical
  \/ FanOut \/ GroupReturns \/ GroupFails
  \/ Reuse \/ Begin \/ Publish \/ Complete \/ Merge \/ Verify \/ NodeFails
  \/ EndFrame \/ Finish
  \/ Interrupt \/ Kill \/ Resume \/ ResumeFails

Spec == Init /\ [][Next]_vars

-----------------------------------------------------------------------------
TypeOK ==
  /\ life \in {"submitted", "refused", "running", "broken", "down", "completed", "failed",
               "cancelled"}
  /\ DOMAIN status = IdSet(plan.nodes)
  /\ \A id \in DOMAIN status :
       status[id] \in {"new", "running", "completed", "failed", "blocked"}
  /\ DOMAIN artifacts \subseteq {n.out : n \in ToSet(plan.nodes)}
  /\ \A m \in DOMAIN workers : IsMerge(NodeOf(m)) /\ workers[m] # {}
  /\ active.at \in {"none", "ops", "busy", "group", "end"}
  /\ ToSet(queue) \subseteq {Root} \cup DOMAIN status
  /\ Len(answer) <= 1 /\ Len(saved) <= 1
  /\ steps <= MaxSteps /\ resumes <= MaxResumes

(* What a task's author has to keep to: operations are named once, write   *)
(* one key each, depend on each other without a cycle, and write what the  *)
(* task says it answers with.                                              *)
WellFormed(t) ==
  LET ids == {o.id : o \in ToSet(t.ops)}
  IN  /\ \A i, j \in DOMAIN t.ops :
           i # j => t.ops[i].id # t.ops[j].id /\ t.ops[i].out # t.ops[j].out
      /\ \A o \in ToSet(t.ops) : o.declared /\ ToSet(o.deps) \subseteq ids
      /\ \E rank \in [ids -> 1..Len(t.ops)] : \A o \in ToSet(t.ops) :
           \A d \in ToSet(o.deps) : rank[d] < rank[o.id]
      /\ ToSet(t.keys) \subseteq {o.out : o \in ToSet(t.ops)}

(* A plan does nothing its request did not allow and is refused for a      *)
(* reason in its task, and what is accepted can be worked off: no node     *)
(* starts before what it depends on or misses an input, no output is       *)
(* written that nobody computed, and the queue runs dry only once the      *)
(* terminal outputs are there and verified (plan_compiler.py,              *)
(* root_frame.py).                                                         *)
PlansCanBeFollowed ==
  /\ plan # NoPlan =>
       \A n \in ToSet(plan.nodes) :
         /\ n.kind = "repo_patch" => Allows(task, {"filesystem/read", "filesystem/patch"})
         /\ n.kind = "service_action" => Allows(task, {"service/http"})
  /\ life = "refused" =>
       \/ task.ops = <<>> \/ ~WellFormed(task)
       \/ \E o \in ToSet(task.ops) : \/ o.kind = "service_action" /\ ~host.network
                                     \/ o.kind = "repo_patch" /\ ~host.write
  /\ life # "broken"
  /\ \A id \in DOMAIN status : status[id] \in {"running", "completed", "failed"} =>
       \A d \in DepsOf(id) : status[d] \in {"completed", "blocked"}
  /\ \A k \in DOMAIN artifacts : artifacts[k].what # "missing"
  /\ Here("none") /\ queue = <<>> => Present(artifacts) /\ ~VerifyPending(status)

(* A run that had to be verified completes with what its verify node saw   *)
(* and approved, also after a resumption (verification.py, loop.py).       *)
AnswersAreVerified ==
  life = "completed" /\ plan.mustVerify /\ ~plan.bestEffort =>
    \E v \in Verdicts(artifacts) : v.ok /\ answer = << v.saw >>

PlansAreFollowed == PlansCanBeFollowed /\ AnswersAreVerified

=============================================================================
