------------------------- MODULE HarnessSolveProofs -------------------------
(***************************************************************************)
(* What holds of solves for every set of releases, solve commands and      *)
(* workspaces, and however often releases are activated, altered or        *)
(* deployed anew (cli_v1.py, runtime/sdk/harness_executor.py).             *)
(*                                                                         *)
(* Nothing holds a lock from the command's first read of the pointer to    *)
(* the append of its result, so the inductive invariant says of a solve    *)
(* in each state what its earlier reads are still worth: before the check, *)
(* how often the pointer moved tells whether the release it knows is still *)
(* the active one (Reads); behind it, what it has read is one release's    *)
(* unless the pointer came back (Bound); and from the claim on it alone    *)
(* owns its workspace, which holds what the solve says (Owned).            *)
(***************************************************************************)
EXTENDS HarnessSolve, FiniteSetTheorems, TLAPS

-----------------------------------------------------------------------------
(* The inductive invariant.                                                *)

BeforeCheck == {"context", "launch", "bind", "check"}
Owning == {"run", "verify", "evidence", "result", "reconcile", "append"}
Stage == {"idle", "claim"} \cup BeforeCheck \cup Owning

Work == [at : Stage, live : BOOLEAN, paired : BOOLEAN,
         recorded : Release \cup {Nothing}, release : Release \cup {Nothing},
         base : Nat, kernel : Release \cup {Nothing}, bound : Release \cup {Nothing},
         ws : Workspace \cup {Nothing}, finished : BOOLEAN, exact : BOOLEAN,
         intact : BOOLEAN, attended : BOOLEAN]

(* A run's evidence.                                                       *)
Record == [release : Release, live : BOOLEAN]

SolveTyped ==
  /\ active \in Release
  /\ edited \subseteq Parts
  /\ pinned \in Manifest \cup {Nothing}
  /\ claimed \subseteq Workspace
  /\ evidence \in [Workspace -> Record \cup {Nothing}]
  /\ results \in [Workspace -> Submission \cup {Nothing}]
  /\ work \in [Solver -> Work]
  /\ since \in [Solver -> 0..2]

(* What solve p may hold, as w, of the releases ...                        *)
Reads(p, w) ==
  /\ w.at # "idle" => w.release \in Release
  /\ w.at \in BeforeCheck =>
       /\ since[p] = 0 => active = w.release
       /\ since[p] = 1 => active # w.release
  /\ w.at \notin {"idle", "context"} => pinned # Nothing /\ pinned.release = w.release

Bound(p, w) ==
  /\ w.at \in {"bind", "check"} =>
       w.kernel \in Release /\ (since[p] = 0 => w.kernel = w.release)
  /\ w.at = "check" => w.bound \in Release /\ (since[p] = 0 => w.bound = w.release)
  /\ w.at \in Owning \cup {"claim"} =>
       /\ {w.kernel, w.bound} \subseteq Release
       /\ since[p] < 2 => w.kernel = w.release /\ w.bound = w.release

(* ... and of its workspace.                                               *)
Owned(w) ==
  /\ w.at \in {"idle", "claim"} \cup BeforeCheck => w.ws = Nothing
  /\ w.at \in Owning => w.ws \in claimed /\ w.ws \notin told
  /\ w.at \in {"run", "verify", "evidence", "result"} => results[w.ws] = Nothing
  /\ w.at = "verify" => (Sound(w.release) => w.intact)
  /\ w.at \in {"evidence", "result"} => w.intact
  /\ w.at \in {"evidence", "result", "reconcile", "append"} =>
       (w.live /\ w.finished => w.exact)
  /\ w.at = "evidence" => w.finished /\ w.paired
  /\ w.at = "result" /\ w.finished /\ w.paired =>
       evidence[w.ws] = [release |-> w.release, live |-> w.live]
  /\ w.at \in {"reconcile", "append"} =>
       /\ results[w.ws] \in Submission
       /\ results[w.ws].release = w.release
       /\ results[w.ws].finished = w.finished /\ results[w.ws].exact = w.exact
  /\ w.at = "append" => w.finished /\ w.exact

OwnersDiffer ==
  \A p, q \in Solver :
    p # q /\ work[p].at \in Owning /\ work[q].at \in Owning => work[p].ws # work[q].ws

DiskInv ==
  /\ told \subseteq claimed
  /\ \A w \in Workspace :
       /\ w \notin claimed => evidence[w] = Nothing /\ results[w] = Nothing
       /\ results[w] # Nothing => ResultIsSound(w) /\ OfOneRelease(results[w])

LogInv ==
  /\ IsFiniteSet(appended)
  /\ pinned = Nothing => appended = {}
  /\ pinned # Nothing => pinned.version = Cardinality(appended)
  /\ MessagesAreSound

SolveInv ==
  /\ SolveTyped
  /\ \A p \in Solver : Reads(p, work[p]) /\ Bound(p, work[p]) /\ Owned(work[p])
  /\ OwnersDiffer
  /\ DiskInv
  /\ LogInv

-----------------------------------------------------------------------------
(* Steps that change nothing but what one solve has in hand.               *)

Quiet == UNCHANGED <<World, SessionLog, Disk>>

LEMMA QuietIs ==
  ASSUME Quiet
  PROVE  UNCHANGED <<active, edited, moves, since, pinned, appended, told, claimed, evidence, results>>
BY DEF Quiet, World, SessionLog, Disk

(* What a solve takes in hand fits what it had.                            *)
Fits(p, new) ==
  /\ new \in Work
  /\ Reads(p, new) /\ Bound(p, new) /\ Owned(new)
  /\ new.at \in Owning => work[p].at \in Owning /\ new.ws = work[p].ws

LEMMA HoldIsSafe ==
  ASSUME SolveInv, NEW p \in Solver, NEW new, Fits(p, new), Hold(p, new), Quiet
  PROVE  SolveInv'
<1>1. UNCHANGED <<active, edited, moves, since, pinned, appended, told, claimed, evidence, results>>
  BY QuietIs
<1>2. work \in [Solver -> Work] /\ new \in Work
  BY DEF SolveInv, SolveTyped, Fits
<1>3. /\ work' \in [Solver -> Work]
      /\ work'[p] = new
      /\ \A q \in Solver : q # p => work'[q] = work[q]
  BY <1>2 DEF Hold
<1>4. SolveTyped'
  BY <1>1, <1>3 DEF SolveInv, SolveTyped
<1>5. ASSUME NEW q \in Solver
      PROVE  Reads(q, work[q])' /\ Bound(q, work[q])' /\ Owned(work[q])'
  <2>1. CASE q = p
    BY <1>1, <1>3, <2>1
    DEF Fits, Reads, Bound, Owned, Sound, Validates, FilesAgree, TypesAgree, KernelAgrees
  <2>2. CASE q # p
    <3>1. Reads(q, work[q]) /\ Bound(q, work[q]) /\ Owned(work[q])
      BY DEF SolveInv
    <3> QED
      BY <1>1, <1>3, <2>2, <3>1
      DEF Reads, Bound, Owned, Sound, Validates, FilesAgree, TypesAgree, KernelAgrees
  <2> QED
    BY <2>1, <2>2
<1>6. OwnersDiffer'
  BY <1>3 DEF SolveInv, OwnersDiffer, Fits
<1>7. DiskInv' /\ LogInv'
  BY <1>1 DEF SolveInv, DiskInv, LogInv, ResultIsSound, OfOneRelease, MessagesAreSound
<1> QED
  BY <1>4, <1>5, <1>6, <1>7 DEF SolveInv

LEMMA IdleFits ==
  ASSUME NEW p
  PROVE  Fits(p, Idle)
BY DEF Fits, Idle, Work, Stage, Reads, Bound, Owned, BeforeCheck, Owning

LEMMA DropIsSafe ==
  ASSUME SolveInv, NEW p \in Solver, Drop(p), Quiet
  PROVE  SolveInv'
BY IdleFits, HoldIsSafe DEF Drop

(* What is in hand.                                                        *)
LEMMA InHand ==
  ASSUME SolveInv, NEW p \in Solver
  PROVE  /\ work[p] \in Work
         /\ Reads(p, work[p]) /\ Bound(p, work[p]) /\ Owned(work[p])
BY DEF SolveInv, SolveTyped

LEMMA LaunchIsSafe ==
  ASSUME SolveInv, NEW p \in Solver, Launch(p)
  PROVE  SolveInv'
<1> DEFINE new == [work[p] EXCEPT !.at = "bind", !.kernel = active]
<1>1. Quiet /\ Hold(p, new) /\ work[p].at = "launch"
  BY DEF Launch, Quiet, Stands
<1>2. active \in Release
  BY DEF SolveInv, SolveTyped
<1>3. Fits(p, new)
  <2>1. /\ work[p] \in Work
        /\ Reads(p, work[p]) /\ Bound(p, work[p]) /\ Owned(work[p])
    BY InHand
  <2>2. /\ new.at = "bind" /\ new.live = work[p].live /\ new.paired = work[p].paired
        /\ new.recorded = work[p].recorded /\ new.release = work[p].release
        /\ new.base = work[p].base /\ new.kernel = active /\ new.bound = work[p].bound
        /\ new.ws = work[p].ws /\ new.finished = work[p].finished
        /\ new.exact = work[p].exact /\ new.intact = work[p].intact
        /\ new.attended = work[p].attended
    BY <2>1 DEF Work
  <2>3. new \in Work
    BY <2>1, <1>1, <1>2 DEF Work, Stage, BeforeCheck, Owning
  <2> HIDE DEF new
  <2>4. Reads(p, new) /\ Bound(p, new)
    BY <2>1, <2>2, <1>1, <1>2 DEF Reads, Bound, BeforeCheck, Owning
  <2>5. Owned(new)
    BY <2>1, <2>2, <1>1, <1>2 DEF Owned, BeforeCheck, Owning
  <2>6. new.at \in Owning => work[p].at \in Owning
    BY <2>2, <1>1, <1>2 DEF Owning
  <2> QED
    BY <2>2, <2>3, <2>4, <2>5, <2>6 DEF Fits
<1> HIDE DEF new
<1> QED
  BY <1>1, <1>3, HoldIsSafe

LEMMA BindIsSafe ==
  ASSUME SolveInv, NEW p \in Solver, Bind(p)
  PROVE  SolveInv'
<1> DEFINE new == [work[p] EXCEPT !.at = "check", !.bound = active]
<1>1. Quiet /\ (Hold(p, new) \/ Drop(p)) /\ work[p].at = "bind"
  BY DEF Bind, Quiet, Stands
<1>2. active \in Release
  BY DEF SolveInv, SolveTyped
<1>3. Fits(p, new)
  <2>1. /\ work[p] \in Work
        /\ Reads(p, work[p]) /\ Bound(p, work[p]) /\ Owned(work[p])
    BY InHand
  <2>2. /\ new.at = "check" /\ new.live = work[p].live /\ new.paired = work[p].paired
        /\ new.recorded = work[p].recorded /\ new.release = work[p].release
        /\ new.base = work[p].base /\ new.kernel = work[p].kernel /\ new.bound = active
        /\ new.ws = work[p].ws /\ new.finished = work[p].finished
        /\ new.exact = work[p].exact /\ new.intact = work[p].intact
        /\ new.attended = work[p].attended
    BY <2>1 DEF Work
  <2>3. new \in Work
    BY <2>1, <1>1, <1>2 DEF Work, Stage, BeforeCheck, Owning
  <2> HIDE DEF new
  <2>4. Reads(p, new) /\ Bound(p, new)
    BY <2>1, <2>2, <1>1, <1>2 DEF Reads, Bound, BeforeCheck, Owning
  <2>5. Owned(new)
    BY <2>1, <2>2, <1>1, <1>2 DEF Owned, BeforeCheck, Owning
  <2>6. new.at \in Owning => work[p].at \in Owning
    BY <2>2, <1>1, <1>2 DEF Owning
  <2> QED
    BY <2>2, <2>3, <2>4, <2>5, <2>6 DEF Fits
<1> HIDE DEF new
<1> QED
  BY <1>1, <1>3, HoldIsSafe, DropIsSafe

(* The check finds the release the command read: either the pointer has    *)
(* not moved since, or it has moved away and come back.                    *)
LEMMA CheckIsSafe ==
  ASSUME SolveInv, NEW p \in Solver, Check(p)
  PROVE  SolveInv'
<1> DEFINE new == [work[p] EXCEPT !.at = "claim", !.release = active]
<1>1. /\ Quiet /\ work[p].at = "check"
      /\ Drop(p) \/ (Hold(p, new) /\ work[p].release = active)
  BY DEF Check, Quiet, Stands, Admissible, ContextAgrees
<1>2. active \in Release /\ since[p] \in 0..2
  BY DEF SolveInv, SolveTyped
<1>3. ASSUME work[p].release = active PROVE Fits(p, new)
  <2>1. /\ work[p] \in Work
        /\ Reads(p, work[p]) /\ Bound(p, work[p]) /\ Owned(work[p])
    BY InHand
  <2>2. /\ new.at = "claim" /\ new.live = work[p].live /\ new.paired = work[p].paired
        /\ new.recorded = work[p].recorded /\ new.release = active
        /\ new.base = work[p].base /\ new.kernel = work[p].kernel
        /\ new.bound = work[p].bound /\ new.ws = work[p].ws
        /\ new.finished = work[p].finished /\ new.exact = work[p].exact
        /\ new.intact = work[p].intact /\ new.attended = work[p].attended
    BY <2>1 DEF Work
  <2>3. new \in Work
    BY <2>1, <1>1, <1>2, <1>3 DEF Work, Stage, BeforeCheck, Owning
  <2> HIDE DEF new
  <2>4. Reads(p, new) /\ Bound(p, new)
    BY <2>1, <2>2, <1>1, <1>2, <1>3 DEF Reads, Bound, BeforeCheck, Owning
  <2>5. Owned(new)
    BY <2>1, <2>2, <1>1, <1>2, <1>3 DEF Owned, BeforeCheck, Owning
  <2>6. new.at \in Owning => work[p].at \in Owning
    BY <2>2, <1>1, <1>2, <1>3 DEF Owning
  <2> QED
    BY <2>2, <2>3, <2>4, <2>5, <2>6 DEF Fits
<1> HIDE DEF new
<1> QED
  BY <1>1, <1>3, HoldIsSafe, DropIsSafe

LEMMA RunIsSafe ==
  ASSUME SolveInv, NEW p \in Solver, NEW finished \in BOOLEAN, NEW exact \in BOOLEAN,
         Run(p, finished, exact)
  PROVE  SolveInv'
<1> DEFINE intact == Sound(work[p].release)
           new == [work[p] EXCEPT !.at = "verify", !.finished = finished,
                                  !.exact = exact, !.intact = intact]
<1>1. Quiet /\ Hold(p, new) /\ work[p].at = "run"
  BY DEF Run, Quiet, Stands
<1>2. intact \in BOOLEAN /\ (Sound(work[p].release) => intact)
  BY DEF Sound, Validates, FilesAgree
<1> HIDE DEF intact
<1>3. Fits(p, new)
  <2>1. /\ work[p] \in Work
        /\ Reads(p, work[p]) /\ Bound(p, work[p]) /\ Owned(work[p])
    BY InHand
  <2>2. /\ new.at = "verify" /\ new.live = work[p].live /\ new.paired = work[p].paired
        /\ new.recorded = work[p].recorded /\ new.release = work[p].release
        /\ new.base = work[p].base /\ new.kernel = work[p].kernel
        /\ new.bound = work[p].bound /\ new.ws = work[p].ws /\ new.finished = finished
        /\ new.exact = exact /\ new.intact = intact /\ new.attended = work[p].attended
    BY <2>1 DEF Work
  <2>3. new \in Work
    BY <2>1, <1>1, <1>2 DEF Work, Stage, BeforeCheck, Owning
  <2> HIDE DEF new
  <2>4. Reads(p, new) /\ Bound(p, new)
    BY <2>1, <2>2, <1>1, <1>2 DEF Reads, Bound, BeforeCheck, Owning
  <2>5. Owned(new)
    BY <2>1, <2>2, <1>1, <1>2 DEF Owned, BeforeCheck, Owning
  <2>6. new.at \in Owning => work[p].at \in Owning
    BY <2>2, <1>1, <1>2 DEF Owning
  <2> QED
    BY <2>2, <2>3, <2>4, <2>5, <2>6 DEF Fits
<1> HIDE DEF new
<1> QED
  BY <1>1, <1>3, HoldIsSafe

LEMMA VerifyIsSafe ==
  ASSUME SolveInv, NEW p \in Solver, Verify(p)
  PROVE  SolveInv'
<1> DEFINE next == IF work[p].finished /\ work[p].paired THEN "evidence" ELSE "result"
           new == [work[p] EXCEPT !.at = next]
<1>1. /\ Quiet /\ work[p].at = "verify"
      /\ \/ Drop(p)
         \/ Hold(p, new) /\ Sound(work[p].release) /\ ProvenanceCounts(p)
  BY DEF Verify, Quiet, Stands
<1>2. ASSUME Sound(work[p].release), ProvenanceCounts(p) PROVE Fits(p, new)
  BY <1>1, <1>2, InHand
  DEF Fits, Work, Stage, Reads, Bound, Owned, BeforeCheck, Owning, ProvenanceCounts
<1> HIDE DEF new
<1> QED
  BY <1>1, <1>2, HoldIsSafe, DropIsSafe

LEMMA ReconcileIsSafe ==
  ASSUME SolveInv, NEW p \in Solver, Reconcile(p)
  PROVE  SolveInv'
<1> DEFINE new == [work[p] EXCEPT !.at = "append"]
<1>1. /\ Quiet /\ work[p].at = "reconcile"
      /\ Drop(p) \/ (Hold(p, new) /\ Answered(p))
  BY DEF Reconcile, Quiet, Stands
<1>2. ASSUME Answered(p) PROVE Fits(p, new)
  <2>1. /\ work[p] \in Work
        /\ Reads(p, work[p]) /\ Bound(p, work[p]) /\ Owned(work[p])
    BY InHand
  <2>2. /\ new.at = "append" /\ new.live = work[p].live /\ new.paired = work[p].paired
        /\ new.recorded = work[p].recorded /\ new.release = work[p].release
        /\ new.base = work[p].base /\ new.kernel = work[p].kernel
        /\ new.bound = work[p].bound /\ new.ws = work[p].ws
        /\ new.finished = work[p].finished /\ new.exact = work[p].exact
        /\ new.intact = work[p].intact /\ new.attended = work[p].attended
    BY <2>1 DEF Work
  <2>3. new \in Work
    BY <2>1, <1>1, <1>2 DEF Work, Stage, BeforeCheck, Owning
  <2> HIDE DEF new
  <2>4. Reads(p, new) /\ Bound(p, new)
    BY <2>1, <2>2, <1>1, <1>2 DEF Reads, Bound, BeforeCheck, Owning
  <2>5. Owned(new)
    BY <2>1, <2>2, <1>1, <1>2 DEF Owned, BeforeCheck, Owning, Answered, Reconciles
  <2>6. new.at \in Owning => work[p].at \in Owning
    BY <2>2, <1>1, <1>2 DEF Owning
  <2> QED
    BY <2>2, <2>3, <2>4, <2>5, <2>6 DEF Fits
<1> HIDE DEF new
<1> QED
  BY <1>1, <1>2, HoldIsSafe, DropIsSafe

LEMMA AbandonIsSafe ==
  ASSUME SolveInv, NEW p \in Solver, Abandon(p)
  PROVE  SolveInv'
<1> DEFINE new == [work[p] EXCEPT !.attended = FALSE]
<1>1. Quiet /\ Hold(p, new)
  BY DEF Abandon, Quiet
<1>2. Fits(p, new)
  BY InHand DEF Fits, Work, Reads, Bound, Owned
<1> HIDE DEF new
<1> QED
  BY <1>1, <1>2, HoldIsSafe

LEMMA KillIsSafe ==
  ASSUME SolveInv, NEW p \in Solver, KillSolve(p)
  PROVE  SolveInv'
BY DropIsSafe DEF KillSolve, Quiet

-----------------------------------------------------------------------------
(* Steps of the world around.                                              *)

(* A move of the pointer is one away from the release a solve knows, or    *)
(* the second at least.                                                    *)
LEMMA ActivateIsSafe ==
  ASSUME SolveInv, NEW r \in Release, Activate(r)
  PROVE  SolveInv'
<1>1. /\ active' = r /\ r # active
      /\ UNCHANGED <<edited, pinned, appended, told, claimed, evidence, results, work>>
      /\ since \in [Solver -> 0..2]
      /\ since' = [p \in Solver |-> IF work[p].at = "idle" \/ since[p] = 2 THEN since[p]
                                    ELSE since[p] + 1]
  BY DEF Activate, SolveInv, SolveTyped, SessionLog, Disk, Stands
<1>2. ASSUME NEW p \in Solver
      PROVE  /\ since[p] \in 0..2 /\ since'[p] \in 0..2
             /\ work[p].at # "idle" => since'[p] = IF since[p] = 2 THEN 2 ELSE since[p] + 1
  BY <1>1
<1>3. SolveTyped'
  <2>1. since' \in [Solver -> 0..2]
    BY <1>1, <1>2
  <2> QED
    BY <1>1, <2>1 DEF SolveInv, SolveTyped
<1>4. ASSUME NEW p \in Solver
      PROVE  Reads(p, work[p])' /\ Bound(p, work[p])' /\ Owned(work[p])'
  <2>1. work'[p] = work[p]
    BY <1>1
  <2>2. Reads(p, work[p])'
    BY <1>1, <1>2, <2>1, InHand DEF Reads, BeforeCheck
  <2>3. Bound(p, work[p])'
    BY <1>1, <1>2, <2>1, InHand DEF Bound, Owning
  <2>4. Owned(work[p])'
    BY <1>1, <2>1, InHand DEF Owned, Sound, Validates, FilesAgree, TypesAgree, KernelAgrees
  <2> QED
    BY <2>2, <2>3, <2>4
<1>5. OwnersDiffer' /\ DiskInv' /\ LogInv'
  BY <1>1
  DEF SolveInv, OwnersDiffer, DiskInv, LogInv, ResultIsSound, OfOneRelease, MessagesAreSound
<1> QED
  BY <1>3, <1>4, <1>5 DEF SolveInv

(* What was altered stays so: sound after the run is sound before it.      *)
LEMMA EditIsSafe ==
  ASSUME SolveInv, NEW part \in Parts, Edit(part)
  PROVE  SolveInv'
<1>1. /\ edited' = edited \cup {part}
      /\ UNCHANGED <<active, since, pinned, appended, told, claimed, evidence, results, work>>
  BY DEF Edit, SessionLog, Disk
<1>2. SolveTyped'
  BY <1>1 DEF SolveInv, SolveTyped
<1>3. \A r : Sound(r)' => Sound(r)
  BY <1>1 DEF Sound, Validates, FilesAgree, TypesAgree, KernelAgrees
<1>4. ASSUME NEW p \in Solver
      PROVE  Reads(p, work[p])' /\ Bound(p, work[p])' /\ Owned(work[p])'
  <2>1. work' = work
    BY <1>1
  <2>2. Reads(p, work[p])' /\ Bound(p, work[p])'
    BY <1>1, <2>1, InHand DEF Reads, Bound
  <2>3. work[p].at = "verify" /\ Sound(work[p].release)' => work[p].intact
    BY <1>3, <2>1, InHand DEF Owned
  <2>4. Owned(work[p])'
    BY <1>1, <2>1, <2>3, InHand DEF Owned
  <2> QED
    BY <2>2, <2>4
<1>5. OwnersDiffer' /\ DiskInv' /\ LogInv'
  BY <1>1
  DEF SolveInv, OwnersDiffer, DiskInv, LogInv, ResultIsSound, OfOneRelease, MessagesAreSound
<1> QED
  BY <1>2, <1>4, <1>5 DEF SolveInv

-----------------------------------------------------------------------------
(* Steps of a solve that others can see.                                   *)

LEMMA LoadIsSafe ==
  ASSUME SolveInv, NEW p \in Solver, NEW live \in BOOLEAN, NEW paired \in BOOLEAN,
         NEW r \in Release, Load(p, live, paired, r)
  PROVE  SolveInv'
<1> DEFINE new == [Idle EXCEPT !.at = "context", !.live = live, !.paired = paired,
                               !.recorded = IF live THEN Nothing ELSE r, !.release = active]
<1>1. /\ work[p].at = "idle" /\ work' = [work EXCEPT ![p] = new]
      /\ since' = [since EXCEPT ![p] = 0]
      /\ UNCHANGED <<active, edited, pinned, appended, told, claimed, evidence, results>>
  BY DEF Load, Stands, Hold, SessionLog, Disk, Execution
<1>2. /\ active \in Release /\ work \in [Solver -> Work] /\ since \in [Solver -> 0..2]
  BY DEF SolveInv, SolveTyped
<1>3. new.at = "context" /\ new.release = active /\ new.ws = Nothing
  BY DEF Idle
<1>4. new \in Work
  BY <1>2 DEF Idle, Work, Stage, BeforeCheck
<1> HIDE DEF new
<1>5. /\ work' \in [Solver -> Work] /\ work'[p] = new /\ since'[p] = 0
      /\ since' \in [Solver -> 0..2]
      /\ \A q \in Solver : q # p => work'[q] = work[q] /\ since'[q] = since[q]
  BY <1>1, <1>2, <1>4
<1>6. SolveTyped'
  BY <1>1, <1>5 DEF SolveInv, SolveTyped
<1>7. ASSUME NEW q \in Solver
      PROVE  Reads(q, work[q])' /\ Bound(q, work[q])' /\ Owned(work[q])'
  <2>1. CASE q = p
    BY <1>1, <1>2, <1>3, <1>5, <2>1 DEF Reads, Bound, Owned, BeforeCheck, Owning
  <2>2. CASE q # p
    BY <1>1, <1>5, <2>2, InHand
    DEF Reads, Bound, Owned, Sound, Validates, FilesAgree, TypesAgree, KernelAgrees
  <2> QED
    BY <2>1, <2>2
<1>8. OwnersDiffer'
  BY <1>3, <1>5 DEF SolveInv, OwnersDiffer, Owning
<1>9. DiskInv' /\ LogInv'
  BY <1>1 DEF SolveInv, DiskInv, LogInv, ResultIsSound, OfOneRelease, MessagesAreSound
<1> QED
  BY <1>6, <1>7, <1>8, <1>9 DEF SolveInv

(* The session there is, or a new one of the release the command read; a   *)
(* solve goes on only with the session's release.                          *)
LEMMA ContextIsSafe ==
  ASSUME SolveInv, NEW p \in Solver, Context(p)
  PROVE  SolveInv'
<1> DEFINE fresh == [release |-> work[p].release, version |-> 0]
           new == [work[p] EXCEPT !.at = "launch", !.base = pinned'.version]
<1>1. /\ work[p].at = "context"
      /\ pinned' = IF pinned = Nothing THEN fresh ELSE pinned
      /\ \/ pinned'.release = work[p].release /\ work' = [work EXCEPT ![p] = new]
         \/ work' = [work EXCEPT ![p] = Idle]
      /\ UNCHANGED <<active, edited, since, appended, told, claimed, evidence, results>>
  BY DEF Context, Stands, Hold, Drop, World, Disk
<1>2. work[p] \in Work /\ Reads(p, work[p]) /\ Bound(p, work[p]) /\ Owned(work[p])
  BY InHand
<1>3. fresh \in Manifest /\ pinned' \in Manifest /\ pinned' # Nothing
  <2>1. fresh \in Manifest
    BY <1>1, <1>2 DEF Reads, Manifest
  <2>2. pinned \in Manifest \cup {Nothing}
    BY DEF SolveInv, SolveTyped
  <2> QED
    BY <1>1, <2>1, <2>2, SolveAssumption
<1>4. /\ new.at = "launch" /\ new.ws = work[p].ws /\ new.release = work[p].release
      /\ new \in Work
  BY <1>2, <1>3 DEF Work, Stage, BeforeCheck, Manifest
<1> HIDE DEF new
<1>5. work \in [Solver -> Work] /\ Idle \in Work /\ Idle.at = "idle" /\ Idle.ws = Nothing
  BY IdleFits DEF SolveInv, SolveTyped, Fits, Idle
<1>6. PICK held \in {new, Idle} :
        /\ work' = [work EXCEPT ![p] = held]
        /\ held = new => pinned'.release = work[p].release
  <2>1. new # Idle
    BY <1>4, <1>5
  <2> QED
    BY <1>1, <2>1
<1>7. /\ work' \in [Solver -> Work] /\ work'[p] = held
      /\ \A q \in Solver : q # p => work'[q] = work[q]
  BY <1>4, <1>5, <1>6
<1>8. SolveTyped'
  BY <1>1, <1>3, <1>7 DEF SolveInv, SolveTyped
<1>9. pinned # Nothing => pinned' = pinned
  BY <1>1
<1>10. ASSUME NEW q \in Solver
       PROVE  Reads(q, work[q])' /\ Bound(q, work[q])' /\ Owned(work[q])'
  <2>1. CASE q = p
    BY <1>1, <1>2, <1>3, <1>4, <1>5, <1>6, <1>7, <2>1
    DEF Reads, Bound, Owned, BeforeCheck, Owning
  <2>2. CASE q # p
    BY <1>1, <1>7, <1>9, <2>2, InHand
    DEF Reads, Bound, Owned, Sound, Validates, FilesAgree, TypesAgree, KernelAgrees
  <2> QED
    BY <2>1, <2>2
<1>11. OwnersDiffer'
  BY <1>4, <1>5, <1>6, <1>7 DEF SolveInv, OwnersDiffer, Owning
<1>12. DiskInv'
  BY <1>1 DEF SolveInv, DiskInv, ResultIsSound, OfOneRelease
<1>13. LogInv'
  <2>1. CASE pinned # Nothing
    BY <1>1, <1>9, <2>1 DEF SolveInv, LogInv, MessagesAreSound
  <2>2. CASE pinned = Nothing
    <3>1. appended = {} /\ told = {} /\ Cardinality(appended) = 0
      BY <2>2, FS_EmptySet DEF SolveInv, LogInv, MessagesAreSound
    <3>2. pinned'.version = Cardinality(appended)
      BY <1>1, <2>2, <3>1
    <3> QED
      BY <1>1, <1>3, <3>1, <3>2 DEF SolveInv, LogInv, MessagesAreSound
  <2> QED
    BY <2>1, <2>2
<1> QED
  BY <1>8, <1>10, <1>11, <1>12, <1>13 DEF SolveInv

(* A workspace that was not there is nobody's, and holds nothing.          *)
LEMMA ClaimIsSafe ==
  ASSUME SolveInv, NEW p \in Solver, NEW w \in Workspace, NEW starts \in BOOLEAN,
         Claim(p, w, starts)
  PROVE  SolveInv'
<1> DEFINE new == [work[p] EXCEPT !.at = "run", !.ws = w]
<1>1. /\ work[p].at = "claim" /\ claimed' = claimed \cup {w}
      /\ \/ w \notin claimed /\ work' = [work EXCEPT ![p] = new]
         \/ work' = [work EXCEPT ![p] = Idle]
      /\ UNCHANGED <<active, edited, since, pinned, appended, told, evidence, results>>
  BY DEF Claim, Stands, Hold, Drop, World, SessionLog
<1>2. work[p] \in Work /\ Reads(p, work[p]) /\ Bound(p, work[p]) /\ Owned(work[p])
  BY InHand
<1>3. /\ new.at = "run" /\ new.ws = w /\ new.release = work[p].release
      /\ new.kernel = work[p].kernel /\ new.bound = work[p].bound
      /\ new \in Work
  BY <1>2 DEF Work, Stage, Owning
<1> HIDE DEF new
<1>4. /\ work \in [Solver -> Work] /\ Idle \in Work /\ Idle.at = "idle" /\ Idle.ws = Nothing
      /\ claimed \subseteq Workspace
  BY IdleFits DEF SolveInv, SolveTyped, Fits, Idle
<1>5. PICK held \in {new, Idle} :
        work' = [work EXCEPT ![p] = held] /\ (held = new => w \notin claimed)
  <2>1. new # Idle
    BY <1>3, <1>4
  <2> QED
    BY <1>1, <2>1
<1>6. /\ work' \in [Solver -> Work] /\ work'[p] = held
      /\ \A q \in Solver : q # p => work'[q] = work[q]
  BY <1>3, <1>4, <1>5
<1>7. SolveTyped'
  BY <1>1, <1>4, <1>6 DEF SolveInv, SolveTyped
<1>8. told \subseteq claimed /\ (w \notin claimed => results[w] = Nothing)
  BY DEF SolveInv, DiskInv
<1>9. ASSUME NEW q \in Solver
      PROVE  Reads(q, work[q])' /\ Bound(q, work[q])' /\ Owned(work[q])'
  <2>1. CASE q = p /\ held = new
    BY <1>1, <1>2, <1>3, <1>5, <1>6, <1>8, <2>1 DEF Reads, Bound, Owned, BeforeCheck, Owning
  <2>2. CASE q = p /\ held = Idle
    BY <1>4, <1>6, <2>2 DEF Reads, Bound, Owned, BeforeCheck, Owning
  <2>3. CASE q # p
    <3>1. Reads(q, work[q])' /\ Bound(q, work[q])'
      BY <1>1, <1>6, <2>3, InHand DEF Reads, Bound
    <3>2. Owned(work[q])'
      BY <1>1, <1>6, <2>3, InHand
      DEF Owned, Sound, Validates, FilesAgree, TypesAgree, KernelAgrees
    <3> QED
      BY <3>1, <3>2
  <2> QED
    BY <1>5, <2>1, <2>2, <2>3
<1>10. OwnersDiffer'
  <2>1. \A q \in Solver : work[q].at \in Owning => work[q].ws \in claimed
    BY InHand DEF Owned
  <2> QED
    BY <1>3, <1>4, <1>5, <1>6, <2>1 DEF SolveInv, OwnersDiffer, Owning
<1>11. DiskInv'
  BY <1>1, <1>8 DEF SolveInv, DiskInv, ResultIsSound, OfOneRelease
<1>12. LogInv'
  BY <1>1 DEF SolveInv, LogInv, MessagesAreSound
<1> QED
  BY <1>7, <1>9, <1>10, <1>11, <1>12 DEF SolveInv

(* The workspace of a solve is no other's.                                 *)
LEMMA OthersLieElsewhere ==
  ASSUME SolveInv, NEW p \in Solver, NEW q \in Solver, p # q,
         work[p].at \in Owning, work[q].at \in Owning
  PROVE  work[p].ws # work[q].ws
BY DEF SolveInv, OwnersDiffer

LEMMA PutEvidenceIsSafe ==
  ASSUME SolveInv, NEW p \in Solver, PutEvidence(p)
  PROVE  SolveInv'
<1> DEFINE new == [work[p] EXCEPT !.at = "result"]
           run == [release |-> work[p].release, live |-> work[p].live]
           w == work[p].ws
<1>1. /\ work[p].at = "evidence" /\ work' = [work EXCEPT ![p] = new]
      /\ evidence' = [evidence EXCEPT ![w] = run]
      /\ UNCHANGED <<active, edited, since, pinned, appended, told, claimed, results>>
  BY DEF PutEvidence, Stands, Hold, World, SessionLog, RunEvidence
<1>2. /\ work[p] \in Work /\ Reads(p, work[p]) /\ Bound(p, work[p]) /\ Owned(work[p])
      /\ work \in [Solver -> Work] /\ claimed \subseteq Workspace
      /\ evidence \in [Workspace -> Record \cup {Nothing}]
  BY InHand DEF SolveInv, SolveTyped
<1>3. w \in claimed /\ results[w] = Nothing /\ run \in Record
  BY <1>1, <1>2 DEF Owned, Owning, Reads, Work, Record
<1>4. /\ new \in Work
      /\ new.at = "result" /\ new.release = work[p].release /\ new.live = work[p].live
      /\ new.ws = w /\ new.kernel = work[p].kernel /\ new.bound = work[p].bound
      /\ new.intact = work[p].intact /\ new.finished = work[p].finished
      /\ new.exact = work[p].exact
  BY <1>2 DEF Work, Stage, Owning
<1> HIDE DEF new
<1>5. /\ work' \in [Solver -> Work] /\ work'[p] = new
      /\ \A q \in Solver : q # p => work'[q] = work[q]
      /\ evidence' \in [Workspace -> Record \cup {Nothing}] /\ evidence'[w] = run
      /\ \A v \in Workspace : v # w => evidence'[v] = evidence[v]
  BY <1>1, <1>2, <1>3, <1>4
<1>6. SolveTyped'
  BY <1>1, <1>5 DEF SolveInv, SolveTyped
<1>7. ASSUME NEW q \in Solver
      PROVE  Reads(q, work[q])' /\ Bound(q, work[q])' /\ Owned(work[q])'
  <2>1. CASE q = p
    BY <1>1, <1>2, <1>3, <1>4, <1>5, <2>1 DEF Reads, Bound, Owned, BeforeCheck, Owning
  <2>2. CASE q # p
    <3>1. Reads(q, work[q])' /\ Bound(q, work[q])'
      BY <1>1, <1>5, <2>2, InHand DEF Reads, Bound
    <3>2. work[q].at \in Owning => work[q].ws \in Workspace /\ work[q].ws # w
      BY <1>1, <1>2, <2>2, InHand, OthersLieElsewhere DEF Owned, Owning
    <3>3. Owned(work[q])'
      BY <1>1, <1>5, <2>2, <3>2, InHand
      DEF Owned, Owning, Sound, Validates, FilesAgree, TypesAgree, KernelAgrees
    <3> QED
      BY <3>1, <3>3
  <2> QED
    BY <2>1, <2>2
<1>8. OwnersDiffer'
  BY <1>1, <1>4, <1>5 DEF SolveInv, OwnersDiffer, Owning
<1>9. DiskInv'
  <2> SUFFICES ASSUME NEW v \in Workspace
               PROVE  /\ v \notin claimed => evidence'[v] = Nothing /\ results[v] = Nothing
                      /\ results[v] # Nothing => ResultIsSound(v)' /\ OfOneRelease(results[v])
    BY <1>1 DEF SolveInv, DiskInv, OfOneRelease
  <2>1. CASE v = w
    BY <1>3, <2>1
  <2>2. CASE v # w
    BY <1>1, <1>5, <2>2 DEF SolveInv, DiskInv, ResultIsSound
  <2> QED
    BY <2>1, <2>2
<1>10. LogInv'
  BY <1>1 DEF SolveInv, LogInv, MessagesAreSound
<1> QED
  BY <1>6, <1>7, <1>8, <1>9, <1>10 DEF SolveInv

(* What a result says is true when it is filed.                            *)
LEMMA PutResultIsSafe ==
  ASSUME SolveInv, NEW p \in Solver, NEW healthy \in BOOLEAN, PutResult(p, healthy)
  PROVE  SolveInv'
<1> DEFINE new == [work[p] EXCEPT !.at = "reconcile"]
           res == Result(p, healthy)
           w == work[p].ws
<1>1. /\ work[p].at = "result" /\ work' = [work EXCEPT ![p] = new]
      /\ results' = [results EXCEPT ![w] = res]
      /\ UNCHANGED <<active, edited, since, pinned, appended, told, claimed, evidence>>
  BY DEF PutResult, Stands, Hold, World, SessionLog
<1>2. /\ work[p] \in Work /\ Reads(p, work[p]) /\ Bound(p, work[p]) /\ Owned(work[p])
      /\ work \in [Solver -> Work] /\ claimed \subseteq Workspace /\ since[p] \in 0..2
      /\ results \in [Workspace -> Submission \cup {Nothing}]
      /\ told \subseteq claimed
  BY InHand DEF SolveInv, SolveTyped, DiskInv
<1>3. w \in claimed /\ w \notin told /\ results[w] = Nothing
  BY <1>1, <1>2 DEF Owned, Owning
<1>4. /\ res.release = work[p].release /\ res.live = work[p].live
      /\ res.finished = work[p].finished /\ res.exact = work[p].exact
      /\ res.intact = work[p].intact /\ res.kernel = work[p].kernel
      /\ res.bound = work[p].bound /\ res.since = since[p]
      /\ res.eligible = (work[p].finished /\ healthy /\ work[p].paired)
  BY DEF Result, Eligible
<1>5. res \in Submission
  <2>1. work[p].release \in Release /\ {work[p].kernel, work[p].bound} \subseteq Release
    BY <1>1, <1>2 DEF Reads, Bound, Owning
  <2> QED
    BY <1>2, <2>1 DEF Result, Eligible, Submission, Work
<1> HIDE DEF res
<1>6. /\ new \in Work
      /\ new.at = "reconcile" /\ new.release = work[p].release /\ new.live = work[p].live
      /\ new.ws = w /\ new.kernel = work[p].kernel /\ new.bound = work[p].bound
      /\ new.finished = work[p].finished /\ new.exact = work[p].exact
  BY <1>2 DEF Work, Stage, Owning
<1> HIDE DEF new
<1>7. /\ work' \in [Solver -> Work] /\ work'[p] = new
      /\ \A q \in Solver : q # p => work'[q] = work[q]
      /\ results' \in [Workspace -> Submission \cup {Nothing}] /\ results'[w] = res
      /\ \A v \in Workspace : v # w => results'[v] = results[v]
  BY <1>1, <1>2, <1>3, <1>5, <1>6
<1>8. SolveTyped'
  BY <1>1, <1>7 DEF SolveInv, SolveTyped
<1>9. ASSUME NEW q \in Solver
      PROVE  Reads(q, work[q])' /\ Bound(q, work[q])' /\ Owned(work[q])'
  <2>1. CASE q = p
    BY <1>1, <1>2, <1>3, <1>4, <1>5, <1>6, <1>7, <2>1
    DEF Reads, Bound, Owned, BeforeCheck, Owning
  <2>2. CASE q # p
    <3>1. Reads(q, work[q])' /\ Bound(q, work[q])'
      BY <1>1, <1>7, <2>2, InHand DEF Reads, Bound
    <3>2. work[q].at \in Owning => work[q].ws \in Workspace /\ work[q].ws # w
      BY <1>1, <1>2, <2>2, InHand, OthersLieElsewhere DEF Owned, Owning
    <3>3. Owned(work[q])'
      BY <1>1, <1>7, <2>2, <3>2, InHand
      DEF Owned, Owning, Sound, Validates, FilesAgree, TypesAgree, KernelAgrees
    <3> QED
      BY <3>1, <3>3
  <2> QED
    BY <2>1, <2>2
<1>10. OwnersDiffer'
  BY <1>1, <1>6, <1>7 DEF SolveInv, OwnersDiffer, Owning
<1>11. DiskInv'
  <2>1. ASSUME NEW v \in Workspace
        PROVE  /\ v \notin claimed => evidence[v] = Nothing /\ results'[v] = Nothing
               /\ results'[v] # Nothing => ResultIsSound(v)' /\ OfOneRelease(results'[v])
    <3>1. CASE v = w
      <4>1. ResultIsSound(v)'
        BY <1>1, <1>2, <1>4, <1>7, <3>1 DEF Owned, ResultIsSound
      <4>2. OfOneRelease(res)
        BY <1>1, <1>2, <1>4 DEF Bound, OfOneRelease, Owning
      <4> QED
        BY <1>3, <1>7, <3>1, <4>1, <4>2
    <3>2. CASE v # w
      BY <1>1, <1>7, <3>2 DEF SolveInv, DiskInv, ResultIsSound
    <3> QED
      BY <3>1, <3>2
  <2> QED
    BY <1>1, <2>1 DEF SolveInv, DiskInv, OfOneRelease
<1>12. LogInv'
  <2>1. \A v \in told : v \in Workspace /\ results'[v] = results[v]
    BY <1>2, <1>3, <1>7
  <2> QED
    BY <1>1, <2>1 DEF SolveInv, LogInv, MessagesAreSound
<1> QED
  BY <1>8, <1>9, <1>10, <1>11, <1>12 DEF SolveInv

(* A message takes the version the session has, and a workspace that no    *)
(* message has.                                                            *)
LEMMA AppendIsSafe ==
  ASSUME SolveInv, NEW p \in Solver, AppendResult(p)
  PROVE  SolveInv'
<1> DEFINE w == work[p].ws
<1>1. CASE ~Appends(p)
  BY <1>1, DropIsSafe DEF AppendResult, Quiet
<1>2. CASE Appends(p)
  <2> DEFINE m == <<pinned.version, w>>
  <2>1. /\ work[p].at = "append" /\ work' = [work EXCEPT ![p] = Idle]
        /\ pinned' = [pinned EXCEPT !.version = @ + 1]
        /\ appended' = appended \cup {m} /\ told' = told \cup {w}
        /\ results[w].release = pinned.release
        /\ UNCHANGED <<active, edited, since, claimed, evidence, results>>
    BY <1>2 DEF AppendResult, Appends, Stands, Hold, Drop, World, Disk
  <2>2. /\ work[p] \in Work /\ Reads(p, work[p]) /\ Bound(p, work[p]) /\ Owned(work[p])
        /\ work \in [Solver -> Work] /\ claimed \subseteq Workspace
        /\ pinned \in Manifest \cup {Nothing}
    BY InHand DEF SolveInv, SolveTyped
  <2>3. /\ pinned # Nothing /\ pinned \in Manifest /\ pinned.version \in Nat
        /\ w \in claimed /\ w \notin told
        /\ results[w] \in Submission /\ results[w].finished /\ results[w].exact
    BY <2>1, <2>2 DEF Reads, Owned, Owning, Manifest
  <2>4. /\ pinned' \in Manifest /\ pinned'.release = pinned.release
        /\ pinned'.version = pinned.version + 1 /\ pinned' # Nothing
    <3>1. /\ pinned' \in Manifest /\ pinned'.release = pinned.release
          /\ pinned'.version = pinned.version + 1
      BY <2>1, <2>3 DEF Manifest
    <3> QED
      BY <3>1, SolveAssumption
  <2>5. Idle \in Work /\ Idle.at = "idle" /\ Idle.ws = Nothing
    BY IdleFits DEF Fits, Idle
  <2>6. /\ work' \in [Solver -> Work] /\ work'[p] = Idle
        /\ \A q \in Solver : q # p => work'[q] = work[q]
    BY <2>1, <2>2, <2>5
  <2>7. SolveTyped'
    BY <2>1, <2>4, <2>6 DEF SolveInv, SolveTyped
  <2>8. ASSUME NEW q \in Solver
        PROVE  Reads(q, work[q])' /\ Bound(q, work[q])' /\ Owned(work[q])'
    <3>1. CASE q = p
      BY <2>5, <2>6, <3>1 DEF Reads, Bound, Owned, BeforeCheck, Owning
    <3>2. CASE q # p
      <4>1. Reads(q, work[q])' /\ Bound(q, work[q])'
        BY <2>1, <2>3, <2>4, <2>6, <3>2, InHand DEF Reads, Bound
      <4>2. work[q].at \in Owning => work[q].ws # w
        BY <2>1, <3>2, OthersLieElsewhere DEF Owning
      <4>3. Owned(work[q])'
        BY <2>1, <2>6, <3>2, <4>2, InHand
        DEF Owned, Owning, Sound, Validates, FilesAgree, TypesAgree, KernelAgrees
      <4> QED
        BY <4>1, <4>3
    <3> QED
      BY <3>1, <3>2
  <2>9. OwnersDiffer'
    BY <2>5, <2>6 DEF SolveInv, OwnersDiffer, Owning
  <2>10. DiskInv'
    BY <2>1, <2>3 DEF SolveInv, DiskInv, ResultIsSound, OfOneRelease
  <2>11. LogInv'
    <3> DEFINE n == Cardinality(appended)
    <3>1. /\ IsFiniteSet(appended) /\ pinned.version = n
          /\ {x[1] : x \in appended} = 0..(n - 1)
          /\ Cardinality({x[2] : x \in appended}) = n
          /\ told = {x[2] : x \in appended}
      BY <2>3 DEF SolveInv, LogInv, MessagesAreSound
    <3>2. n \in Nat /\ m[1] = n /\ m[2] = w
      BY <2>3, <3>1
    <3>3. m \notin appended
      BY <2>3, <3>1, <3>2
    <3>4. IsFiniteSet(appended') /\ Cardinality(appended') = n + 1
      BY <2>1, <3>1, <3>3, FS_AddElement
    <3>5. told' = {x[2] : x \in appended'}
      BY <2>1, <3>1, <3>2
    <3>6. Cardinality(told') = n + 1
      <4> DEFINE Second == [x \in appended |-> x[2]]
      <4>1. Second \in Surjection(appended, told)
        BY <3>1 DEF Surjection
      <4>2. IsFiniteSet(told)
        BY <3>1, <4>1, FS_Surjection
      <4>3. Cardinality(told) = n
        BY <3>1
      <4> QED
        BY <2>1, <2>3, <4>2, <4>3, FS_AddElement
    <3>7. {x[1] : x \in appended'} = 0..n
      <4>1. {x[1] : x \in appended'} = (0..(n - 1)) \cup {n}
        BY <2>1, <3>1, <3>2
      <4> QED
        BY <3>2, <4>1
    <3>8. \A v \in told' :
            /\ results'[v] # Nothing /\ results'[v].finished /\ results'[v].exact
            /\ results'[v].release = pinned'.release
      <4>1. results[w] # Nothing
        BY <2>3, SolveAssumption
      <4> QED
        BY <2>1, <2>3, <2>4, <4>1 DEF SolveInv, LogInv, MessagesAreSound
    <3> HIDE DEF n, m
    <3>9. MessagesAreSound'
      BY <3>2, <3>4, <3>5, <3>6, <3>7, <3>8 DEF MessagesAreSound
    <3> QED
      BY <2>4, <3>1, <3>4, <3>9 DEF LogInv
  <2> QED
    BY <2>7, <2>8, <2>9, <2>10, <2>11 DEF SolveInv
<1> QED
  BY <1>1, <1>2

-----------------------------------------------------------------------------
LEMMA InitIsSafe ==
  ASSUME SolveInit
  PROVE  SolveInv
<1>1. Cardinality({}) = 0 /\ IsFiniteSet({})
  BY FS_EmptySet
<1>2. SolveTyped
  BY IdleFits DEF SolveInit, SolveTyped, Fits
<1>3. ASSUME NEW p \in Solver
      PROVE  Reads(p, work[p]) /\ Bound(p, work[p]) /\ Owned(work[p])
  BY IdleFits DEF SolveInit, Reads, Bound, Owned, Idle, BeforeCheck, Owning
<1>4. OwnersDiffer
  BY DEF SolveInit, OwnersDiffer, Idle, Owning
<1>5. DiskInv
  BY DEF SolveInit, DiskInv
<1>6. LogInv
  <2>1. {m[1] : m \in appended} = {} /\ {m[2] : m \in appended} = {}
    BY DEF SolveInit
  <2>2. 0..(Cardinality(appended) - 1) = {}
    BY <1>1 DEF SolveInit
  <2> QED
    BY <1>1, <2>1, <2>2 DEF SolveInit, LogInv, MessagesAreSound
<1> QED
  BY <1>2, <1>3, <1>4, <1>5, <1>6 DEF SolveInv

LEMMA StutterIsSafe ==
  ASSUME SolveInv, UNCHANGED solveVars
  PROVE  SolveInv'
<1>1. UNCHANGED <<active, edited, since, pinned, appended, told, claimed, evidence, results, work>>
  BY DEF solveVars
<1>2. SolveTyped' /\ OwnersDiffer'
  BY <1>1 DEF SolveInv, SolveTyped, OwnersDiffer
<1>3. ASSUME NEW p \in Solver
      PROVE  Reads(p, work[p])' /\ Bound(p, work[p])' /\ Owned(work[p])'
  BY <1>1, InHand
  DEF Reads, Bound, Owned, Sound, Validates, FilesAgree, TypesAgree, KernelAgrees
<1>4. DiskInv' /\ LogInv'
  BY <1>1 DEF SolveInv, DiskInv, LogInv, ResultIsSound, OfOneRelease, MessagesAreSound
<1> QED
  BY <1>2, <1>3, <1>4 DEF SolveInv

LEMMA StepIsSafe ==
  ASSUME SolveInv, [SolveNext]_solveVars
  PROVE  SolveInv'
<1>1. ASSUME NEW p \in Solver, Solving(p) PROVE SolveInv'
  BY <1>1, LoadIsSafe, ContextIsSafe, LaunchIsSafe, BindIsSafe, CheckIsSafe, ClaimIsSafe,
     RunIsSafe, VerifyIsSafe, PutEvidenceIsSafe, PutResultIsSafe, ReconcileIsSafe,
     AppendIsSafe, KillIsSafe, AbandonIsSafe DEF Solving
<1>2. CASE \E r \in Release : Activate(r)
  BY <1>2, ActivateIsSafe
<1>3. CASE \E part \in Parts : Edit(part)
  BY <1>3, EditIsSafe
<1>4. CASE UNCHANGED solveVars
  BY <1>4, StutterIsSafe
<1> QED
  BY <1>1, <1>2, <1>3, <1>4 DEF SolveNext

-----------------------------------------------------------------------------
(* The theorems.                                                           *)

(* What solves hold of releases, workspaces and the session agrees with    *)
(* them, whatever moves meanwhile (cli_v1.py, harness_executor.py).        *)
THEOREM SolveInvariant == SolveSpec => []SolveInv
<1>1. SolveInit => SolveInv
  BY InitIsSafe
<1>2. SolveInv /\ [SolveNext]_solveVars => SolveInv'
  BY StepIsSafe
<1> QED
  BY <1>1, <1>2, PTL DEF SolveSpec

(* The variables keep their types, and a workspace holds nothing before it *)
(* is claimed.                                                             *)
THEOREM TypeCorrect == SolveSpec => []SolveTypeOK
<1>1. SolveInv => SolveTypeOK
  <2> SUFFICES ASSUME SolveInv PROVE SolveTypeOK
    OBVIOUS
  <2>1. \A p \in Solver : work[p].ws \in claimed \cup {Nothing}
    BY InHand DEF Owned, Work, Stage, BeforeCheck, Owning
  <2> QED
    BY <2>1 DEF SolveInv, SolveTyped, SolveTypeOK, DiskInv, LogInv, Manifest
<1> QED
  BY <1>1, SolveInvariant, PTL

(* A result on file was computed under a release nobody had altered; one   *)
(* an evaluator may have lies beside evidence of its release and counts    *)
(* every live request; unless the pointer moved twice, kernel, adapters    *)
(* and protocol are one release's; and a session's messages are one per    *)
(* version, each of a result of its own (solve_command,                    *)
(* HarnessExecutor, append_solve_result).                                  *)
THEOREM SolvesHold == SolveSpec => []SolvesAreAccountable
<1>1. SolveInv => SolvesAreAccountable
  BY DEF SolveInv, DiskInv, LogInv, SolvesAreAccountable
<1> QED
  BY <1>1, SolveInvariant, PTL
=============================================================================
