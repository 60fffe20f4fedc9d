---------------------------- MODULE HarnessSolve ----------------------------
(* One solve of a public task, from the command to the session             *)
(* (cli_v1.py, solve_command; runtime/sdk/harness_entrypoint.py,           *)
(* harness_executor.py and harness_release_loader.py), while releases are  *)
(* activated, generations and sources altered and other solves run.        *)
(*                                                                         *)
(* The command reads the active release, opens or continues a session      *)
(* pinned to it, and starts a child with the kernel of the release that is *)
(* active by then. The child reads the pointer twice more: once to bind    *)
(* the provider and the command backend, once to execute. Nothing holds a  *)
(* lock. It leaves its evidence and then its result in a workspace of its  *)
(* own, and the command appends the result to the session.                 *)
(*                                                                         *)
(* A release stands for its digest, a message for the workspace its result *)
(* lies in. What a run did is chosen when it ends.                         *)
EXTENDS Naturals, FiniteSets

CONSTANTS
  Release,      \* releases the pointer may name
  Deployment,   \* [Release -> deployments]
  Solver,       \* solve commands
  Workspace,    \* run-artifact workspaces
  MaxMoves,     \* bound: how often the pointer moves
  MaxEdits,     \* bound: what is altered
  Nothing

(* The session's manifest, and what a result says.                         *)
Manifest == [release : Release, version : Nat]
Submission == [release : Release, live : BOOLEAN, finished : BOOLEAN,
               eligible : BOOLEAN, exact : BOOLEAN, intact : BOOLEAN,
               kernel : Release, bound : Release, since : 0..2]

ASSUME SolveAssumption ==
  /\ {MaxMoves, MaxEdits} \subseteq Nat
  /\ Nothing \notin Manifest /\ Nothing \notin Submission

VARIABLES
  active,     \* the active release
  edited,     \* parts of generations, and the source, that were altered
  pinned,     \* the session's manifest, or none
  appended,   \* what was appended to it: <<version it was based on, workspace>>
  claimed,    \* the workspaces there are
  evidence,   \* each workspace's controlled run evidence, or none
  results,    \* each workspace's result, or none
  work,       \* what each command and its child have in hand
  told,       \* the workspaces whose solve was reported to have succeeded
  moves,
  since       \* history: moves of the pointer since each command began, at most 2

solveVars == <<active, edited, pinned, appended, claimed, evidence, results, work,
               told, moves, since>>

Disk == <<claimed, evidence, results>>
World == <<active, edited, moves, since>>
SessionLog == <<pinned, appended, told>>

Idle ==
  [at |-> "idle", live |-> FALSE, paired |-> FALSE, recorded |-> Nothing,
   release |-> Nothing, base |-> 0, kernel |-> Nothing, bound |-> Nothing,
   ws |-> Nothing, finished |-> FALSE, exact |-> FALSE, intact |-> FALSE, attended |-> TRUE]

SolveInit ==
  /\ active \in Release /\ edited = {}
  /\ pinned = Nothing /\ appended = {}
  /\ claimed = {}
  /\ evidence = [w \in Workspace |-> Nothing] /\ results = [w \in Workspace |-> Nothing]
  /\ work = [p \in Solver |-> Idle]
  /\ told = {} /\ moves = 0 /\ since = [p \in Solver |-> 0]

Stands(p, here) == work[p].at = here
Hold(p, new) == work' = [work EXCEPT ![p] = new]
Drop(p) == Hold(p, Idle)

------------------------------------------------------------------------------
(* A generation passes when its files are what its manifest says, its      *)
(* typed parts agree and its kernel is the bundle it names.                *)
FilesAgree(r) == <<r, "files">> \notin edited
TypesAgree(r) == <<r, "types">> \notin edited
KernelAgrees(r) == <<r, "kernel">> \notin edited
Validates(r) == FilesAgree(r) /\ TypesAgree(r) /\ KernelAgrees(r)

Sound(r) == Validates(r) /\ <<Nothing, "source">> \notin edited

Parts == (Release \X {"files", "types", "kernel"}) \union {<<Nothing, "source">>}

(* What goes on meanwhile.                                                 *)
Activate(r) ==
  /\ r # active /\ moves < MaxMoves
  /\ active' = r /\ moves' = moves + 1
  /\ since' = [p \in Solver |-> IF Stands(p, "idle") \/ since[p] = 2 THEN since[p]
                                ELSE since[p] + 1]
  /\ UNCHANGED <<edited, SessionLog, Disk, work>>

Edit(part) ==
  /\ part \notin edited /\ Cardinality(edited) < MaxEdits
  /\ edited' = edited \union {part}
  /\ UNCHANGED <<active, moves, since, SessionLog, Disk, work>>

------------------------------------------------------------------------------
(* The command: a replay names the manifests it was recorded in, which are *)
(* bound to a release, and a live solve names none.                        *)
Execution(live, r) == [live |-> live, recorded |-> IF live THEN Nothing ELSE r]

Load(p, live, paired, r) ==
  LET how == Execution(live, r) IN
  /\ Stands(p, "idle") /\ Validates(active)
  /\ Hold(p, [Idle EXCEPT !.at = "context", !.live = how.live, !.paired = paired,
                          !.recorded = how.recorded, !.release = active])
  /\ since' = [since EXCEPT ![p] = 0]
  /\ UNCHANGED <<active, edited, moves, SessionLog, Disk>>

(* create_session and context_for_next: the session is pinned to the       *)
(* release it was created under.                                           *)
Context(p) ==
  LET fresh == [release |-> work[p].release, version |-> 0]
      current == IF pinned = Nothing THEN fresh ELSE pinned IN
  /\ Stands(p, "context")
  /\ pinned' = current
  /\ IF current.release = work[p].release
       THEN Hold(p, [work[p] EXCEPT !.at = "launch", !.base = current.version])
       ELSE Drop(p)
  /\ UNCHANGED <<World, appended, told, Disk>>

(* _active_release and the child's script: the kernel of whatever release  *)
(* is active now.                                                          *)
Launch(p) ==
  /\ Stands(p, "launch")
  /\ Hold(p, [work[p] EXCEPT !.at = "bind", !.kernel = active])
  /\ UNCHANGED <<World, SessionLog, Disk>>

(* The child. The adapters are derived from the release it finds active: a *)
(* replay must have been recorded for it.                                  *)
Bindable(p) == Validates(active) /\ (work[p].live \/ work[p].recorded = active)

Bind(p) ==
  /\ Stands(p, "bind")
  /\ IF Bindable(p)
       THEN Hold(p, [work[p] EXCEPT !.at = "check", !.bound = active])
       ELSE Drop(p)
  /\ UNCHANGED <<World, SessionLog, Disk>>

(* The executor loads the active release once more, and asks that the      *)
(* context it was given is pinned to it, that the provider has its         *)
(* deployment and that the source is the task's snapshot.                  *)
(* A faulty variant asks only that the release has the same deployment.    *)
ContextDeploys(p) == Deployment[work[p].release] = Deployment[active]
ContextAgrees(p) == work[p].release = active
DeploymentAgrees(p) == Deployment[work[p].bound] = Deployment[active]
Admissible(p) == Sound(active) /\ ContextAgrees(p) /\ DeploymentAgrees(p)

Check(p) ==
  /\ Stands(p, "check")
  /\ IF Admissible(p)
       THEN Hold(p, [work[p] EXCEPT !.at = "claim", !.release = active])
       ELSE Drop(p)
  /\ UNCHANGED <<World, SessionLog, Disk>>

(* A workspace is made by one solve. One without a workspace of its own    *)
(* takes any that is not there yet. The runtime may fail to initialize,    *)
(* and the workspace stays.                                                *)
Claim(p, w, starts) ==
  /\ Stands(p, "claim")
  /\ claimed' = claimed \union {w}
  /\ IF w \notin claimed /\ starts
       THEN Hold(p, [work[p] EXCEPT !.at = "run", !.ws = w])
       ELSE Drop(p)
  /\ UNCHANGED <<World, SessionLog, evidence, results>>

(* The run finishes or fails, with its recording consumed exactly, or with *)
(* as many live requests as rounds, or not.                                *)
Run(p, finished, exact) ==
  /\ Stands(p, "run")
  /\ Hold(p, [work[p] EXCEPT !.at = "verify", !.finished = finished,
                             !.exact = exact, !.intact = Sound(work[p].release)])
  /\ UNCHANGED <<World, SessionLog, Disk>>

(* After the run: source, base and generation are what they were, and a    *)
(* live run that finished sent what it has rounds for.                     *)
ProvenanceCounts(p) == work[p].finished /\ work[p].live => work[p].exact

Verify(p) ==
  /\ Stands(p, "verify")
  /\ IF Sound(work[p].release) /\ ProvenanceCounts(p)
       THEN Hold(p, [work[p] EXCEPT !.at = IF work[p].finished /\ work[p].paired
                                           THEN "evidence"
                                           ELSE "result"])
       ELSE Drop(p)
  /\ UNCHANGED <<World, SessionLog, Disk>>

RunEvidence(p) == [release |-> work[p].release, live |-> work[p].live]

PutEvidence(p) ==
  /\ Stands(p, "evidence")
  /\ evidence' = [evidence EXCEPT ![work[p].ws] = RunEvidence(p)]
  /\ Hold(p, [work[p] EXCEPT !.at = "result"])
  /\ UNCHANGED <<World, SessionLog, claimed, results>>

(* A result may be submitted to an evaluator when the run finished with    *)
(* its budget in order and its evidence on file.                           *)
Eligible(p, healthy) == work[p].finished /\ healthy /\ work[p].paired

Result(p, healthy) ==
  [release |-> work[p].release, live |-> work[p].live,
   finished |-> work[p].finished, eligible |-> Eligible(p, healthy),
   exact |-> work[p].exact, intact |-> work[p].intact,
   kernel |-> work[p].kernel, bound |-> work[p].bound, since |-> since[p]]

PutResult(p, healthy) ==
  /\ Stands(p, "result")
  /\ results' = [results EXCEPT ![work[p].ws] = Result(p, healthy)]
  /\ Hold(p, [work[p] EXCEPT !.at = "reconcile"])
  /\ UNCHANGED <<World, SessionLog, claimed, evidence>>

(* With the result on file, the replays must have been consumed exactly;   *)
(* the command takes no failed result and no error.                        *)
Reconciles(p) == work[p].live \/ work[p].exact
Answered(p) == work[p].attended /\ work[p].finished /\ Reconciles(p)

Reconcile(p) ==
  /\ Stands(p, "reconcile")
  /\ IF Answered(p) THEN Hold(p, [work[p] EXCEPT !.at = "append"]) ELSE Drop(p)
  /\ UNCHANGED <<World, SessionLog, Disk>>

(* append_solve_result: refused when the session has gone on since.        *)
Appends(p) ==
  /\ results[work[p].ws].release = pinned.release
  /\ work[p].base = pinned.version

AppendResult(p) ==
  /\ Stands(p, "append")
  /\ IF Appends(p)
       THEN /\ pinned' = [pinned EXCEPT !.version = @ + 1]
            /\ appended' = appended \union {<<pinned.version, work[p].ws>>}
            /\ told' = told \union {work[p].ws}
       ELSE UNCHANGED SessionLog
  /\ Drop(p)
  /\ UNCHANGED <<World, Disk>>

(* The child ends at its deadline, or the command ends and leaves it.      *)
KillSolve(p) ==
  /\ work[p].at \in {"run", "verify", "evidence", "result", "reconcile"}
  /\ Drop(p)
  /\ UNCHANGED <<World, SessionLog, Disk>>

Abandon(p) ==
  /\ work[p].at \in {"run", "verify", "evidence", "result"} /\ work[p].attended
  /\ Hold(p, [work[p] EXCEPT !.attended = FALSE])
  /\ UNCHANGED <<World, SessionLog, Disk>>

Solving(p) ==
  \/ \E live, paired \in BOOLEAN, r \in Release : Load(p, live, paired, r)
  \/ Context(p) \/ Launch(p) \/ Bind(p) \/ Check(p)
  \/ \E w \in Workspace, starts \in BOOLEAN : Claim(p, w, starts)
  \/ \E finished, exact \in BOOLEAN : Run(p, finished, exact)
  \/ Verify(p) \/ PutEvidence(p)
  \/ \E healthy \in BOOLEAN : PutResult(p, healthy)
  \/ Reconcile(p) \/ AppendResult(p) \/ KillSolve(p) \/ Abandon(p)

SolveNext ==
  \/ \E r \in Release : Activate(r)
  \/ \E part \in Parts : Edit(part)
  \/ \E p \in Solver : Solving(p)

SolveSpec == SolveInit /\ [][SolveNext]_solveVars

------------------------------------------------------------------------------
(* The type of the state; a workspace holds nothing before it is claimed.  *)
SolveTypeOK ==
  /\ active \in Release /\ edited \subseteq Parts
  /\ pinned # Nothing => pinned.release \in Release /\ pinned.version = Cardinality(appended)
  /\ claimed \subseteq Workspace
  /\ \A w \in Workspace \ claimed : evidence[w] = Nothing /\ results[w] = Nothing
  /\ \A p \in Solver : work[p].ws \in claimed \union {Nothing}
  /\ told \subseteq claimed

(* A result on file was computed under a release and a source nobody had   *)
(* altered; when an evaluator may have it, the evidence beside it names    *)
(* its release, and a live one counts every request that was sent.         *)
ResultIsSound(w) ==
  LET res == results[w] IN
  /\ res.intact
  /\ res.eligible =>
       /\ evidence[w] = [release |-> res.release, live |-> res.live]
       /\ res.live => res.exact

(* Unless the pointer moved twice while it was solved, the kernel, the     *)
(* adapters and the protocol of a result are one release's.                *)
OfOneRelease(res) == res.since < 2 => {res.kernel, res.bound} = {res.release}

(* A session's messages are one per version, of results no other message   *)
(* has, that finished, were replayed exactly and continue its release.     *)
MessagesAreSound ==
  /\ {m[1] : m \in appended} = 0..(Cardinality(appended) - 1)
  /\ Cardinality({m[2] : m \in appended}) = Cardinality(appended)
  /\ told = {m[2] : m \in appended}
  /\ \A w \in told :
       /\ results[w] # Nothing /\ results[w].finished /\ results[w].exact
       /\ results[w].release = pinned.release

(* Whatever moved while it was solved, a result on file can be accounted   *)
(* for, and a session holds such results only, each of them once.          *)
SolvesAreAccountable ==
  /\ \A w \in Workspace :
       results[w] # Nothing => ResultIsSound(w) /\ OfOneRelease(results[w])
  /\ MessagesAreSound
==============================================================================
