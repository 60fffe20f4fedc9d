----------------------------- MODULE MCRuntime -----------------------------
(* The modules of the runtime that share no state, checked side by side:   *)
(* a behaviour is one of the module that "which" names, in the instance it *)
(* stands for, and the others stay in an initial state.                    *)
(*   composite          RunEvidence: every protocol of three actors        *)
(*                      without tools, and two of them with tools          *)
(*   run, chosen        CheckpointStore: resumes under either of two       *)
(*                      request ids, and resumes from any checkpoint       *)
(*   effects, either, best  EffectRecovery: plans of three nodes, with    *)
(*                      every effect next to the one that is hardest to    *)
(*                      reconcile beside it, resumed strictly only, under  *)
(*                      either policy, and with best effort only           *)
(*   group              BranchGroup: two fairly scheduled branches         *)
(*   hosted, batched    RuntimeHost: one invocation or the two steps of an *)
(*                      episode, in two calls; two runs in one call        *)
(*   released, mixed    HarnessRelease: builds of two whole releases; one  *)
(*                      build of them or of any that crosses their parts   *)
(*   shell              KernelShell: two lone tasks and an episode of two  *)
EXTENDS RunEvidence, EffectRecovery, CheckpointStore

CONSTANTS r1, r2, b1, b2

VARIABLES which,
  cEnvelope, cIndex, cLatest, cManifest, cAttempts, cHost, cStale, cReport,
  cAnswered, cKernel, cClock, cKnown,
  at, recalled, kept, under, asked, performed, verdict, target, job, output,
  stops, changes,
  mem, disk, phase, event, erred, pending, results, future, ret, thread, ctx,
  sends, lateSends, cause, faults, runs,
  dirs, call, box, reply, back, past,
  installed, gens, pointer, build, load, spent,
  shell, stage, current, forks, events, saved, mine, gone, traced, moves, starts

Pairs == {<<a, b, 1>> : a, b \in Actor}
ToolLimits == [t \in {"read", "edit", "public_test"} |-> IF t = "edit" THEN 1 ELSE 3]
Fork == {<<1, 3, 1>>, <<2, 3, 1>>}
Sampled == {[channels |-> Fork, feedback |-> NoChannel, final |-> 3],
            [channels |-> {<<1, 2, 1>>, <<2, 3, 1>>, <<3, 2, 1>>},
             feedback |-> <<3, 2, 1>>, final |-> 2]}

(* A run is resumed under either of two request ids.                       *)
TwoIds == {r1, r2}
Chosen == INSTANCE CheckpointStore WITH Requests <- {r1}, KeepFailures <- TRUE,
  Explicit <- TRUE, MaxClock <- 4, MaxAttempts <- 2,
  envelope <- cEnvelope, index <- cIndex, latest <- cLatest, manifest <- cManifest,
  attempts <- cAttempts, host <- cHost, stale <- cStale, report <- cReport,
  answered <- cAnswered, kernel <- cKernel, clock <- cClock, known <- cKnown

Effects == <<"sync", "async", "model">>
Either == INSTANCE EffectRecovery WITH Plan <- <<"write", "service">>, FileCount <- 2,
  Policies <- {"strict", "best_effort"}, MaxCrashes <- 3, MaxEdits <- 1,
  frame <- at, mind <- recalled, durable <- kept, policy <- under, sent <- asked,
  ran <- performed, ended <- verdict, file <- target, process <- job,
  result <- output, crashes <- stops, edits <- changes
Best == INSTANCE EffectRecovery WITH Plan <- <<"write", "async", "sync">>,
  FileCount <- 2, Policies <- {"best_effort"}, MaxCrashes <- 2, MaxEdits <- 1,
  frame <- at, mind <- recalled, durable <- kept, policy <- under, sent <- asked,
  ran <- performed, ended <- verdict, file <- target, process <- job,
  result <- output, crashes <- stops, edits <- changes

Group == INSTANCE BranchGroup WITH Branches <- {b1, b2}, Steps <- 1,
  ReconcileHook <- TRUE, MaxFaults <- 2, MaxRuns <- 2, pc <- thread,
  late <- lateSends

Invocation(u, s, t, seal) ==
  [unit |-> u, step |-> s, task |-> t, sealed |-> seal]
Hosted == INSTANCE RuntimeHost WITH
  Requests <- {<<Invocation("u1", 1, 1, TRUE)>>,
               <<Invocation("u1", 2, 1, FALSE), Invocation("u1", 1, 2, TRUE)>>},
  Backends <- {"local", "docker"}, MaxCheckpoints <- 2, MaxCalls <- 2, MaxKills <- 1
Batched == INSTANCE RuntimeHost WITH
  Requests <- {<<Invocation("u1", 1, 1, TRUE), Invocation("u2", 2, 1, TRUE),
                 Invocation("u2", 1, 2, FALSE)>>},
  Backends <- {"local", "docker"}, MaxCheckpoints <- 1, MaxCalls <- 1, MaxKills <- 0

Whole(n) ==
  [protocol |-> n, deps |-> [id |-> n, tools |-> n], deployment |-> n, notes |-> n,
   plan |-> [protocol |-> n, deps |-> [id |-> n, tools |-> n], body |-> n],
   epoch |-> [id |-> n, deployment |-> n, tools |-> n],
   profile |-> [id |-> n, deployment |-> n]]
Crossed == {[Whole(1) EXCEPT ![f] = Whole(2)[f]] : f \in DOMAIN Whole(1)}
             \cup {[Whole(1) EXCEPT !.epoch.tools = 2]}
Release == INSTANCE HarnessRelease WITH Requests <- {Whole(1), Whole(2)},
  Closure <- <<{1, 2}, {1}>>, MaxBuilds <- 2, MaxLoads <- 1, MaxEdits <- 1
Mixed == INSTANCE HarnessRelease WITH Requests <- {Whole(1), Whole(2)} \cup Crossed,
  Closure <- <<{1, 2}, {1}>>, MaxBuilds <- 1, MaxLoads <- 1, MaxEdits <- 1

Shell == INSTANCE KernelShell WITH Lone <- {"t1", "t2"}, Episode <- {"e1", "e2"},
  Names <- {1}, Branches <- {b1, b2}, MaxRuns <- 3, MaxMoves <- 3

ASSUME PlanAssumption /\ RunAssumption
ASSUME /\ Release!HarnessReleaseAssumption /\ Mixed!HarnessReleaseAssumption
       /\ Shell!KernelShellAssumption
       /\ Hosted!HostAssumption /\ Batched!HostAssumption
ASSUME /\ StoreAssumption /\ Chosen!StoreAssumption
       /\ EffectAssumption /\ Either!EffectAssumption /\ Best!EffectAssumption

chosen == <<cEnvelope, cIndex, cLatest, cManifest, cAttempts, cHost, cStale, cReport,
            cAnswered, cKernel, cClock, cKnown>>
stores == <<storeVars, chosen>>
others == <<at, recalled, kept, under, asked, performed, verdict, target, job,
            output, stops, changes>>
effects == <<effectVars, others>>
group == <<mem, disk, phase, event, erred, pending, results, future, ret, thread,
           ctx, sends, lateSends, cause, faults, runs>>
releasing == <<installed, gens, pointer, build, load, spent>>
hosting == <<dirs, call, box, reply, back, past>>
shells == <<shell, stage, current, forks, events, saved, mine, gone, traced, moves,
            starts>>
hosts == <<hosting, releasing, shells>>
all == <<which, vars, evidence, stores, effects, group, hosts>>

MCInit ==
  /\ which \in {"composite", "run", "chosen", "effects", "either", "best", "group",
               "hosted", "batched", "released", "mixed", "shell"}
  /\ EvidenceInit
  /\ IF which = "composite" THEN hasTools => protocol \in Sampled
     ELSE protocol = [channels |-> {}, feedback |-> NoChannel, final |-> 1]
            /\ ~hasTools
  /\ StoreInit /\ Chosen!StoreInit
  /\ EffectInit
  /\ IF which = "best" THEN Best!EffectInit ELSE Either!EffectInit
  /\ Group!Init
  /\ IF which = "hosted" THEN Hosted!Init
     ELSE Batched!Init /\ (which # "batched" => past.keep /\ past.backend = "local")
  /\ Release!Init
  /\ Shell!ShellInit

RunComposite ==
  which = "composite" /\ EvidenceNext /\ UNCHANGED <<which, stores, effects, group, hosts>>

RunStore ==
  /\ \/ which = "run" /\ StoreNext /\ UNCHANGED chosen
     \/ which = "chosen" /\ Chosen!StoreNext /\ UNCHANGED storeVars
  /\ UNCHANGED <<which, vars, evidence, effects, group, hosts>>

RunEffects ==
  /\ \/ which = "effects" /\ EffectNext /\ UNCHANGED others
     \/ /\ \/ which = "either" /\ Either!EffectNext
           \/ which = "best" /\ Best!EffectNext
        /\ UNCHANGED effectVars
  /\ UNCHANGED <<which, vars, evidence, stores, group, hosts>>

RunGroup ==
  /\ which = "group" /\ Group!Next
  /\ UNCHANGED <<which, vars, evidence, stores, effects, hosts>>

RunHost ==
  /\ \/ which = "hosted" /\ Hosted!Next
     \/ which = "batched" /\ Batched!Next
  /\ UNCHANGED <<which, vars, evidence, stores, effects, group, releasing, shells>>

RunRelease ==
  /\ \/ which = "released" /\ Release!Next
     \/ which = "mixed" /\ Mixed!Next
  /\ UNCHANGED <<which, vars, evidence, stores, effects, group, hosting, shells>>

RunShell ==
  /\ which = "shell" /\ Shell!ShellNext
  /\ UNCHANGED <<which, vars, evidence, stores, effects, group, hosting, releasing>>

MCNext ==
  \/ RunComposite \/ RunStore \/ RunEffects \/ RunGroup
  \/ RunHost \/ RunRelease \/ RunShell

(* The fairness of EffectRecovery's and BranchGroup's FairSpec.            *)
BestDoes(A) ==
  /\ which = "best" /\ A
  /\ UNCHANGED <<which, vars, evidence, stores, effectVars, group, hosts>>
GroupDoes(A) ==
  which = "group" /\ A /\ UNCHANGED <<which, vars, evidence, stores, effects, hosts>>

MCSpec ==
  /\ MCInit /\ [][MCNext]_all
  /\ WF_all(BestDoes(Best!Work)) /\ WF_all(BestDoes(Best!Ends))
  /\ WF_all(BestDoes(Best!Resumes))
  /\ \A b \in {b1, b2} : WF_all(GroupDoes(Group!BranchStep(b)))
  /\ WF_all(GroupDoes(Group!Coordinate))

------------------------------------------------------------------------------
(* The type invariant of the module that runs.                             *)
AllTypesOK ==
  CASE which = "composite" -> EvidenceTypeOK
    [] which = "run" -> StoreTypeOK
    [] which = "chosen" -> Chosen!StoreTypeOK
    [] which = "effects" -> EffectTypeOK
    [] which = "either" -> Either!EffectTypeOK
    [] which = "best" -> Best!EffectTypeOK
    [] which = "group" -> Group!TypeOK
    [] which = "hosted" -> Hosted!TypeOK
    [] which = "batched" -> Batched!TypeOK
    [] which = "released" -> Release!TypeOK
    [] which = "mixed" -> Mixed!TypeOK
    [] OTHER -> Shell!TypeOK

(* Of composite runs CompiledPlansRun and RunIsAccounted, of effects that  *)
(* are resumed strictly EffectsAreReconciled, and of the files of a run    *)
(* RunsKeepTheirWork. The properties of the other instances: of resumes    *)
(* from any checkpoint and of effects under either policy the same, of     *)
(* composite runs that the books kept of them agree, and what runs filed   *)
(* by the host, the releases they load and the shell that a kernel runs    *)
(* them in promise;                                                        *)
HostedRunsAreFaithful ==
  /\ BooksAgree
  /\ which = "chosen" => Chosen!RunsKeepTheirWork
  /\ which = "either" => Either!EffectsAreReconciled
  /\ which = "hosted" => Hosted!HostIsFaithful
  /\ which = "batched" => Batched!HostIsFaithful
  /\ which = "released" => Release!ReleasesAreWhole
  /\ which = "mixed" => Mixed!ReleasesAreWhole
  /\ which = "shell" => Shell!ShellIsFaithful

(* and, of the best-effort policy and of branch groups, that they end.     *)
WorkEnds ==
  /\ which = "best" => Best!BestEffortGetsThrough
  /\ which = "group" => Group!GroupEnds
=============================================================================
