--------------------------- MODULE CheckpointStore ---------------------------
(***************************************************************************)
(* The files of one durable run (storage/run_store.py) and the three who   *)
(* write them: the host that opens and finishes attempts (runtime/host/),  *)
(* the kernel, in a process of its own, that publishes checkpoints         *)
(* (kernel/checkpointing/publication.py), and whoever kills either.        *)
(*                                                                         *)
(* Every file is replaced atomically and one action writes one file; what  *)
(* a process knows beyond the files is lost with it.  An envelope's        *)
(* content is the instant of its publication.                              *)
(***************************************************************************)
EXTENDS Naturals, Sequences, FiniteSets

CONSTANTS
  Requests,      \* the request ids a run is resumed under
  None,
  KeepFailures,  \* ArtifactPolicy.keep_failures
  Explicit,      \* a resume may name its checkpoint
  MaxClock,      \* bound: publications
  MaxAttempts    \* bound: attempts

(* checkpoint.<request>.<sequence number>                                  *)
Id == Requests \X (1..MaxClock)
Ref == Id \cup {None}
Entry == [at : 1..MaxClock, attempt : 1..MaxAttempts, eligible : BOOLEAN]

StoreAssumption ==
  /\ IsFiniteSet(Requests) /\ Requests # {} /\ None \notin Id \cup Entry
  /\ {KeepFailures, Explicit} \subseteq BOOLEAN
  /\ {MaxClock, MaxAttempts} \subseteq Nat

States == {"running", "completed", "cancelled", "paused", "failed", "pruned"}

VARIABLES
  envelope,  \* the envelope files
  index,     \* the rows of index.json
  latest,    \* LATEST.json
  manifest,  \* run_manifest.json
  attempts,  \* the attempt manifests
  host,      \* what the host does
  stale,     \* current_attempt_id in the manifest the host holds
  report,    \* the checkpoint the response names
  answered,  \* the attempt ended with a response
  kernel,    \* the kernel process
  clock,     \* publications so far
  known      \* the last publication a kernel has gone on from

files == <<envelope, index, latest, manifest, attempts>>
storeVars == <<files, host, stale, report, answered, kernel, clock, known>>

NoKernel == [step |-> "off", request |-> None, sequence |-> 0, own |-> None,
             failed |-> FALSE]

StoreInit ==
  /\ envelope = [i \in Id |-> None] /\ index = [i \in Id |-> None]
  /\ latest = None /\ attempts = <<>>
  /\ manifest = [latest |-> None, attempt |-> 0, resumable |-> FALSE,
                 state |-> "running"]
  /\ host = "created" /\ stale = 0 /\ report = None /\ answered = FALSE
  /\ kernel = NoKernel /\ clock = 0 /\ known = 0

(* _checkpoint_index_sort_key                                              *)
Newer(rows, i, j) ==
  i[2] > j[2] \/ (i[2] = j[2] /\ rows[i].at > rows[j].at)

EligibleIn(rows) == {i \in Id : rows[i] # None /\ rows[i].eligible}

(* _latest_resume_eligible_checkpoint_row                                  *)
NewestOf(rows, ids) ==
  IF ids = {} THEN None
  ELSE CHOOSE i \in ids : \A j \in ids \ {i} : Newer(rows, i, j)

Usable(i) == i # None /\ envelope[i] # None /\ envelope[i].eligible

(* latest_usable_checkpoint_ref: the manifest's reference, then that of    *)
(* its attempt, LATEST.json and the rows, newest first.                    *)
ResumePoint ==
  LET ofAttempt == IF manifest.attempt = 0 THEN None
                   ELSE attempts[manifest.attempt].latest
  IN  IF Usable(manifest.latest) THEN manifest.latest
      ELSE IF Usable(ofAttempt) THEN ofAttempt
      ELSE IF Usable(latest) THEN latest
      ELSE NewestOf(index, {i \in EligibleIn(index) : Usable(i)})

PointAt == IF ResumePoint = None THEN 0 ELSE envelope[ResumePoint].at

(***************************************************************************)
(* The host                                                                *)
(***************************************************************************)
(* begin_attempt: the attempt's manifest, then the run's.                  *)
BeginAttempt(from, request, sequence, failed) ==
  /\ Len(attempts) < MaxAttempts
  /\ attempts' = Append(attempts, [latest |-> None, state |-> "running"])
  /\ host' = "begun" /\ report' = None /\ answered' = FALSE
  /\ stale' = manifest.attempt
  /\ kernel' = [step |-> "ready", request |-> request, sequence |-> sequence,
                own |-> from, failed |-> failed]
  /\ UNCHANGED <<envelope, index, latest, manifest, clock, known>>

Solve == \E r \in Requests :
  host = "created" /\ BeginAttempt(None, r, 0, FALSE)

(* resume by run_ref, under any request id.                                *)
ResumeRun == \E r \in Requests :
  /\ host \in {"idle", "crashed"} /\ ResumePoint # None
  /\ BeginAttempt(ResumePoint, r, ResumePoint[2], FALSE)

(* resume by checkpoint_ref: whether the checkpoint is eligible is not     *)
(* asked; with it the failure of a branch may be restored.                 *)
ResumeCheckpoint == \E r \in Requests, i \in Id :
  /\ Explicit /\ host \in {"idle", "crashed"} /\ envelope[i] # None
  /\ \E f \in {FALSE, ~envelope[i].eligible} : BeginAttempt(i, r, i[2], f)

NameAttempt ==
  /\ host = "begun"
  /\ manifest' = [manifest EXCEPT !.attempt = Len(attempts)]
  /\ host' = "running"
  /\ kernel' = [kernel EXCEPT !.step = "run"]
  /\ UNCHANGED <<envelope, index, latest, attempts, stale, report, answered, clock,
                 known>>

(***************************************************************************)
(* The kernel: write_checkpoint                                            *)
(***************************************************************************)
Publishing == <<kernel.request, kernel.sequence>>

(* A branch that has failed stays failed: no later checkpoint of the       *)
(* attempt is eligible (_checkpoint_resume_eligibility).                   *)
WriteEnvelope(eligible) ==
  /\ kernel.step = "run"
  /\ eligible => ~kernel.failed
  /\ clock < MaxClock /\ kernel.sequence < MaxClock
  /\ clock' = clock + 1
  /\ LET i == <<kernel.request, kernel.sequence + 1>> IN
     /\ envelope' = [envelope EXCEPT ![i] =
          [at |-> clock + 1, attempt |-> Len(attempts), eligible |-> eligible]]
     /\ kernel' = [kernel EXCEPT !.step = "index", !.sequence = @ + 1,
                    !.failed = ~eligible]
  /\ UNCHANGED <<index, latest, manifest, attempts, host, stale, report,
                 answered, known>>

(* A row of the same checkpoint id is replaced.                            *)
WriteIndex ==
  /\ kernel.step = "index"
  /\ index' = [index EXCEPT ![Publishing] = envelope[Publishing]]
  /\ kernel' = [kernel EXCEPT !.step = "latest"]
  /\ UNCHANGED <<envelope, latest, manifest, attempts, host, stale, report,
                 answered, clock, known>>

WriteLatest ==
  /\ kernel.step = "latest"
  /\ latest' = NewestOf(index, EligibleIn(index))
  /\ kernel' = [kernel EXCEPT !.step = "manifest"]
  /\ UNCHANGED <<envelope, index, manifest, attempts, host, stale, report,
                 answered, clock, known>>

(* The manifest is read again, and the kernel goes on; it remembers the    *)
(* reference of an eligible checkpoint.                                    *)
NameCheckpoint ==
  /\ kernel.step = "manifest"
  /\ LET newest == NewestOf(index, EligibleIn(index)) IN
     manifest' = [manifest EXCEPT !.attempt = Len(attempts),
                    !.latest = newest, !.resumable = newest # None]
  /\ kernel' = [kernel EXCEPT !.step = "run",
                  !.own = IF envelope[Publishing].eligible THEN Publishing ELSE @]
  /\ known' = IF envelope[Publishing].eligible THEN envelope[Publishing].at
              ELSE known
  /\ UNCHANGED <<envelope, index, latest, attempts, host, stale, report,
                 answered, clock>>

(***************************************************************************)
(* The end of an attempt                                                   *)
(***************************************************************************)
(* A faulty variant: the kernel does not remember its own checkpoint.      *)
RespondFromStore(outcome) ==
  /\ kernel.step = "run"
  /\ report' = ResumePoint
  /\ host' = outcome /\ answered' = TRUE
  /\ kernel' = NoKernel
  /\ UNCHANGED <<files, stale, clock, known>>

(* A response: what the kernel reports is its own last reference, or what  *)
(* the store has (_build_run_result).  An ineligible one is dropped.       *)
Respond(outcome) ==
  /\ kernel.step = "run"
  /\ LET named == IF kernel.own # None THEN kernel.own ELSE ResumePoint IN
     report' = IF Usable(named) THEN named ELSE ResumePoint
  /\ host' = outcome /\ answered' = TRUE
  /\ kernel' = NoKernel
  /\ UNCHANGED <<files, stale, clock, known>>

(* No response, or one that is not accepted: host_launch_failure and the   *)
(* failures of validation.                                                 *)
LoseKernel ==
  /\ kernel.step \notin {"off", "ready"}
  /\ report' = None
  /\ host' = "failed"
  /\ kernel' = NoKernel
  /\ UNCHANGED <<files, stale, answered, clock, known>>

(* A faulty variant: without a response there is nothing to resume from.   *)
ReportedReference == report

Reference == IF report # None THEN report ELSE ResumePoint

Lifecycle ==
  IF host \in {"completed", "cancelled"} THEN host
  ELSE IF Reference # None THEN "paused" ELSE "failed"

(* finish_attempt                                                          *)
FinishAttempt ==
  /\ host \in {"completed", "cancelled", "failed"}
  /\ attempts' = [attempts EXCEPT ![Len(attempts)] =
                    [latest |-> Reference, state |-> Lifecycle]]
  /\ report' = Reference
  /\ host' = "finishing"
  /\ UNCHANGED <<envelope, index, latest, manifest, stale, answered, kernel,
                 clock, known>>

(* A faulty variant: only a paused run is taken for resumable.             *)
FinishRunPaused ==
  /\ host = "finishing"
  /\ LET state == attempts[Len(attempts)].state IN
     /\ manifest' = [latest |-> report, attempt |-> stale, state |-> state,
                     resumable |-> state = "paused"]
     /\ host' = IF state = "failed" /\ ~KeepFailures THEN "pruning" ELSE "idle"
  /\ UNCHANGED <<envelope, index, latest, attempts, stale, report, answered,
                 kernel, clock, known>>

(* finish_run: on the manifest the host held when it began the attempt.    *)
FinishRun ==
  /\ host = "finishing"
  /\ LET state == attempts[Len(attempts)].state IN
     /\ manifest' = [latest |-> report, attempt |-> stale, state |-> state,
                     resumable |-> report # None]
     /\ host' = IF state = "failed" /\ ~KeepFailures THEN "pruning" ELSE "idle"
  /\ UNCHANGED <<envelope, index, latest, attempts, stale, report, answered,
                 kernel, clock, known>>

(* prune_run: the directories, then the manifest.                          *)
PruneFiles ==
  /\ host = "pruning"
  /\ envelope' = [i \in Id |-> None] /\ index' = [i \in Id |-> None]
  /\ latest' = None
  /\ host' = "pruned"
  /\ UNCHANGED <<manifest, attempts, stale, report, answered, kernel, clock, known>>

NamePruned ==
  /\ host = "pruned"
  /\ manifest' = [manifest EXCEPT !.state = "pruned", !.latest = None,
                    !.resumable = FALSE]
  /\ host' = "idle"
  /\ UNCHANGED <<envelope, index, latest, attempts, stale, report, answered,
                 kernel, clock, known>>

(* The machine goes down: the host, and the kernel with it.                *)
MachineStops ==
  /\ host \notin {"created", "idle", "crashed"}
  /\ host' = "crashed" /\ report' = None /\ answered' = FALSE
  /\ kernel' = NoKernel
  /\ UNCHANGED <<files, stale, clock, known>>

StoreNext ==
  \/ Solve \/ ResumeRun \/ ResumeCheckpoint \/ NameAttempt
  \/ \E e \in BOOLEAN : WriteEnvelope(e)
  \/ WriteIndex \/ WriteLatest \/ NameCheckpoint
  \/ \E o \in {"completed", "cancelled", "failed"} : Respond(o)
  \/ LoseKernel \/ FinishAttempt \/ FinishRun \/ PruneFiles \/ NamePruned
  \/ MachineStops

StoreSpec == StoreInit /\ [][StoreNext]_storeVars

------------------------------------------------------------------------------
StoreTypeOK ==
  /\ envelope \in [Id -> Entry \cup {None}]
  /\ index \in [Id -> Entry \cup {None}]
  /\ {latest, report, kernel.own} \subseteq Ref
  /\ manifest \in [latest : Ref, attempt : 0..Len(attempts),
                   resumable : BOOLEAN, state : States]
  /\ attempts \in Seq([latest : Ref, state : States])
  /\ stale \in 0..MaxAttempts /\ answered \in BOOLEAN
  /\ kernel.step \in {"off", "ready", "run", "index", "latest", "manifest"}
  /\ kernel.sequence \in 0..MaxClock
  /\ {clock, known} \subseteq 0..MaxClock

(* A checkpoint from which the kernel has gone on is never lost: wherever  *)
(* the kernel or the machine stops, also between two of write_checkpoint's *)
(* files, a resume of the run starts from it or a later one                *)
(* (write_checkpoint against latest_usable_checkpoint_ref).                *)
NothingKnownIsLost == PointAt >= known

(* After an attempt with a response, a resume of the run goes on from that *)
(* attempt's last eligible checkpoint, even when the attempt itself began  *)
(* from an older one and rows of abandoned work are still the newest in    *)
(* the index (_build_run_result, _finalize_execution_unit).                *)
AnsweredRunResumesItsOwnWork ==
  host = "idle" /\ answered =>
    \A i \in Id :
      envelope[i] # None /\ envelope[i].eligible
        /\ envelope[i].attempt = Len(attempts)
      => ResumePoint # None /\ envelope[ResumePoint].attempt = Len(attempts)
           /\ PointAt >= envelope[i].at

(* What the manifest of a finished run says is what a resume will find     *)
(* (finish_run, prune_run).                                                *)
FinishedRunIsTruthful ==
  host = "idle" =>
    /\ manifest.resumable <=> ResumePoint # None
    /\ manifest.state = "paused" => ResumePoint # None
    /\ manifest.state \in {"failed", "pruned"} => ResumePoint = None

(* No attempt loses its work, and one that answers names its own; a run    *)
(* that nobody resumes from a checkpoint of his own choice loses none of   *)
(* what a kernel has gone on from, and says what is so.                    *)
RunsKeepTheirWork ==
  /\ AnsweredRunResumesItsOwnWork
  /\ ~Explicit => NothingKnownIsLost /\ FinishedRunIsTruthful
=============================================================================
