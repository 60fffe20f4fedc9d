----------------------------- MODULE RuntimeHost -----------------------------
(* The runtime host (runtime/host): a batch of task invocations, a single  *)
(* solve or the resumption of a stopped run is checked, given durable runs *)
(* of its own, handed to a runtime in a child process or in a container,   *)
(* and whatever becomes of that process is filed under each run.           *)
(*                                                                         *)
(* A container knows the runs under /mnt: what it writes into a run        *)
(* directory (manifest, checkpoint index, LATEST, envelopes) names paths   *)
(* of the "box", which mean nothing on the host until the executor has     *)
(* rewritten them, one file after another, when the container has ended    *)
(* well.  How one checkpoint is written is CheckpointStore's matter; here  *)
(* a checkpoint is one step.  A request is a sequence of invocations, each *)
(* of a unit; the invocations of one unit are the steps of an episode and  *)
(* share a run.                                                            *)
EXTENDS Naturals, FiniteSets, SequencesExt

CONSTANTS
  Requests,         \* sequences of [unit, step, task, sealed]
  Backends,         \* a subset of {"local", "docker"}
  MaxCheckpoints,   \* bound: the checkpoints of a run
  MaxCalls,         \* bound: the calls of the host
  MaxKills          \* bound: the calls that are killed

HostAssumption ==
  /\ Backends \subseteq {"local", "docker"}
  /\ MaxCheckpoints \in Nat /\ MaxCalls \in Nat /\ MaxKills \in Nat

VARIABLES
  dirs,    \* unit -> its run directory
  call,    \* the call the host is in
  box,     \* the runtime that works on it
  reply,   \* the response it wrote, as the host has it
  back,    \* how the last call ended
  past     \* the host's backend and artifact policy, what was done and filed
           \* in the call, and the calls and kills so far

vars == <<dirs, call, box, reply, back, past>>

AllUnits == UNION {{r[i].unit : i \in DOMAIN r} : r \in Requests}
MaxLen == 3
Places == {"host", "box"}
NoRef == [id |-> 0, at |-> "host"]
NoRun == [state |-> "none", ref |-> NoRef, root |-> "host", kind |-> "",
          rows |-> <<>>, latest |-> NoRef, request |-> <<>>]
NoCall == [step |-> "idle", mode |-> "none", request |-> <<>>, units |-> <<>>,
           todo |-> <<>>, kind |-> ""]
NoBox == [todo |-> <<>>, results |-> <<>>, reads |-> "host"]
NoReply == [drift |-> FALSE, other |-> FALSE, results |-> <<>>, fair |-> {}]
NoBack == [how |-> "none", mode |-> "none", request |-> <<>>, units |-> {},
           results |-> <<>>, fair |-> {}, bad |-> {}]

Members(r, u) == {i \in DOMAIN r : r[i].unit = u}
First(S) == CHOOSE i \in S : \A j \in S : i <= j

(* The units of a request in the order of their first invocation.          *)
Units(r) ==
  SetToSortSeq({r[i].unit : i \in DOMAIN r},
               LAMBDA a, b : First(Members(r, a)) < First(Members(r, b)))

(* The order in which the runtime takes the steps of an episode, and the   *)
(* one in which the host reads their results; a task's name stands for the *)
(* request id that is made from it.                                        *)
RuntimeOrder(r, u) ==
  SetToSortSeq(Members(r, u), LAMBDA i, j : \/ r[i].step < r[j].step
                                            \/ r[i].step = r[j].step /\ i < j)
(* A faulty variant of HostOrder: the results in the order of the request. *)
HostOrderAsAsked(r, u) == SetToSortSeq(Members(r, u), <)
HostOrder(r, u) ==
  SetToSortSeq(Members(r, u), LAMBDA i, j : \/ r[i].step < r[j].step
                                            \/ r[i].step = r[j].step
                                                 /\ r[i].task < r[j].task)

WorkOrder(r) == FlattenSeq([k \in DOMAIN Units(r) |-> RuntimeOrder(r, Units(r)[k])])

------------------------------------------------------------------------------
(* References to checkpoints.  A path of the box does not exist on the     *)
(* host and a path of the host not in the box, but a child process on the  *)
(* host has the host's paths.                                              *)
Here == IF past.backend = "docker" THEN "box" ELSE "host"

Newest(rows) ==
  LET fit == {k \in DOMAIN rows : rows[k].ok}
  IN IF fit = {} THEN NoRef
     ELSE LET k == Max(fit) IN [id |-> rows[k].id, at |-> rows[k].at]

(* latest_usable_checkpoint_ref: of the manifest's reference, LATEST and   *)
(* the index from its newest row, the first whose file is there to be read *)
(* and says that it is fit to resume from.                                 *)
UsableFrom(dir, place) ==
  LET fit(ref) == ref # NoRef /\ ref.at = place /\ dir.rows[ref.id].ok
      rows == SelectSeq(Reverse([k \in DOMAIN dir.rows |->
                                  [id |-> dir.rows[k].id, at |-> dir.rows[k].at]]), fit)
  IN CASE fit(dir.ref) -> dir.ref
       [] fit(dir.latest) -> dir.latest
       [] rows # <<>> -> Head(rows)
       [] OTHER -> NoRef

------------------------------------------------------------------------------
(* The host's call.  An inspection or a check of the plan, the isolation   *)
(* or the credentials that fails before a run exists changes nothing but   *)
(* the call's own scratch directory, so a call starts when they have       *)
(* passed.  The runs are created, one after another, each with an attempt  *)
(* and the request.                                                        *)
Start(r, mode) ==
  /\ call.step = "idle" /\ past.calls < MaxCalls
  /\ mode = "solve" => Len(r) = 1
  /\ \A i \in DOMAIN r : dirs[r[i].unit] = NoRun
  /\ call' = [step |-> "create", mode |-> mode, request |-> r,
              units |-> Units(r), todo |-> Units(r), kind |-> ""]
  /\ back' = NoBack
  /\ past' = [past EXCEPT !.calls = @ + 1, !.did = [i \in 1..MaxLen |-> ""],
                          !.finals = [u \in AllUnits |-> 0]]
  /\ UNCHANGED <<dirs, box, reply>>

CreateRun ==
  /\ call.step = "create" /\ call.todo # <<>>
  /\ dirs' = [dirs EXCEPT ![Head(call.todo)].state = "running",
                          ![Head(call.todo)].request = call.request]
  /\ call' = [call EXCEPT !.todo = Tail(@),
                          !.step = IF Len(call.todo) = 1 THEN "launch" ELSE @]
  /\ UNCHANGED <<box, reply, back, past>>

(* A resumption: the host finds the run, its request and a checkpoint that *)
(* can be read (the one it would choose, or one that is named), and begins *)
(* an attempt before the runtime is asked whether it can resume at all.    *)
(* In a container the runtime gets a copy of the checkpoint in the box's   *)
(* terms; a path of the box is left as it is.                              *)
(* A faulty variant of Containerized: a copy as it is on the host.         *)
ContainerizedNot(body) == body
Containerized(body) == IF body = "host" THEN "box" ELSE body

Targets(u) ==
  {ref \in {UsableFrom(dirs[u], "host"), Newest(dirs[u].rows)} : ref # NoRef}

Resume(u, target) ==
  /\ call.step = "idle" /\ past.calls < MaxCalls
  /\ dirs[u].state \notin {"none", "pruned"} /\ dirs[u].root = "host"
  /\ target \in Targets(u)
  /\ LET row == dirs[u].rows[target.id]
     IN /\ call' = [step |-> "launch", mode |-> "resume", request |-> dirs[u].request,
                    units |-> <<u>>, todo |-> <<row.by>>, kind |-> ""]
        /\ box' = [NoBox EXCEPT !.reads = IF past.backend = "docker"
                                          THEN Containerized(row.body) ELSE row.body]
  /\ back' = NoBack
  /\ past' = [past EXCEPT !.calls = @ + 1, !.did = [i \in 1..MaxLen |-> ""],
                          !.finals = [v \in AllUnits |-> 0]]
  /\ UNCHANGED <<dirs, reply>>

(* Within the guarded part of the call: the runtime is launched, or the    *)
(* last checks, the image, the mounts or the container fail; a runtime     *)
(* that cannot resume is refused.                                          *)
Launch ==
  /\ call.step = "launch"
  /\ box' = [box EXCEPT !.todo = IF call.mode = "resume" THEN call.todo
                                 ELSE WorkOrder(call.request)]
  /\ call' = [call EXCEPT !.step = "run", !.todo = call.units]
  /\ UNCHANGED <<dirs, reply, back, past>>

LaunchFails ==
  /\ call.step = "launch"
  /\ \E kind \in {"host_launch_failure"} \cup
                 (IF call.mode = "resume" THEN {"resume_not_supported"} ELSE {}) :
       call' = [call EXCEPT !.step = "finish", !.kind = kind, !.todo = call.units]
  /\ UNCHANGED <<dirs, box, reply, back, past>>

------------------------------------------------------------------------------
(* The runtime works off the invocations, unit after unit and step after   *)
(* step.  A checkpoint is written into the run directory in the runtime's  *)
(* own terms: the envelope, its index row, LATEST and the manifest.        *)
KernelCheckpoint(ok) ==
  /\ call.step = "run" /\ box.todo # <<>>
  /\ LET i == Head(box.todo)
         u == call.request[i].unit
         dir == dirs[u]
         rows == Append(dir.rows, [id |-> Len(dir.rows) + 1, at |-> Here,
                                   body |-> Here, ok |-> ok, by |-> i])
     IN /\ Len(dir.rows) < MaxCheckpoints
        /\ dirs' = [dirs EXCEPT ![u] = [dir EXCEPT
             !.rows = rows, !.latest = Newest(rows), !.ref = Newest(rows),
             !.root = Here]]
  /\ UNCHANGED <<call, box, reply, back, past>>

(* An invocation ends: it completes, it fails in a way the runtime gives a *)
(* result for, or it is cancelled.  What follows a failed step of an       *)
(* episode is not run; its results say what it was blocked by.             *)
Result(i, state, ref, kind) ==
  [unit |-> call.request[i].unit, by |-> i, state |-> state, invalid |-> FALSE,
   ref |-> ref, kind |-> kind, score |-> "runtime"]

KernelEnds(outcome) ==
  /\ call.step = "run" /\ box.todo # <<>>
  /\ LET i == Head(box.todo)
         u == call.request[i].unit
         ref == UsableFrom(dirs[u], Here)
         state == IF outcome = "failed" /\ ref # NoRef THEN "paused" ELSE outcome
         rest == SelectSeq(Tail(box.todo), LAMBDA j : call.request[j].unit = u)
         blocked == IF outcome = "completed" THEN <<>>
                    ELSE [k \in DOMAIN rest |->
                            Result(rest[k], "blocked", NoRef, "blocked")]
     IN /\ box' = [box EXCEPT
             !.todo = IF outcome = "completed" THEN Tail(@)
                      ELSE SelectSeq(Tail(@), LAMBDA j : call.request[j].unit # u),
             !.results = @ \o <<Result(i, state, ref,
                                       IF outcome = "completed" THEN "" ELSE outcome)>>
                           \o blocked]
        /\ past' = [past EXCEPT !.did[i] = outcome]
  /\ UNCHANGED <<dirs, call, reply, back>>

(* An error that no result is made for, or the end of the process by other *)
(* hands: the process returns an error and no response is read.            *)
KernelDies ==
  /\ call.step = "run"
  /\ call' = [call EXCEPT !.step = "finish", !.kind = "host_launch_failure"]
  /\ box' = NoBox
  /\ UNCHANGED <<dirs, reply, back, past>>

(* The response.  The runtime is what its directory holds, so the response *)
(* may come from another runtime than the one inspected, answer another    *)
(* request, or lack, repeat or misname a result.                           *)
Flaws(rs) ==
  {[what |-> what, k |-> 0] : what \in {"none", "drift", "other"}} \cup
  (IF call.mode # "batch" THEN {}
   ELSE [what : {"omits", "repeats", "run", "request"}, k : DOMAIN rs])

Flawed(rs, flaw) ==
  CASE flaw.what = "omits" -> RemoveAt(rs, flaw.k)
    [] flaw.what = "repeats" -> Append(rs, rs[flaw.k])
    [] flaw.what = "run" -> [rs EXCEPT ![flaw.k].unit = "another run"]
    [] flaw.what = "request" -> [rs EXCEPT ![flaw.k].by = 0]
    [] OTHER -> rs

(* The files of a run that the executor rewrites after a container, in the *)
(* order in which it writes them.                                          *)
(* A faulty variant of Rewritten: the reference in LATEST is forgotten.    *)
RewrittenButLatest == <<"manifest", "index", "envelopes">>
Rewritten == <<"manifest", "latest", "envelopes", "index">>

KernelAnswers(flaw) ==
  /\ call.step = "run" /\ box.todo = <<>>
  /\ flaw \in Flaws(box.results)
  /\ LET rs == Flawed(box.results, flaw)
         host(k) == [rs[k] EXCEPT !.ref.at = "host"]
         told == {rs[k].unit : k \in DOMAIN rs}
         units == SelectSeq(call.units, LAMBDA u : call.mode # "batch" \/ u \in told)
         files == FlattenSeq([n \in DOMAIN units |->
                     [m \in DOMAIN Rewritten |-> [unit |-> units[n], file |-> Rewritten[m]]]])
         fair == IF flaw.what = "none" THEN ToSet(call.units)
                 ELSE IF flaw.what \in {"drift", "other", "run"} THEN {}
                 ELSE ToSet(call.units) \ {box.results[flaw.k].unit}
     IN /\ reply' = [drift |-> flaw.what = "drift", other |-> flaw.what = "other",
                     results |-> [k \in DOMAIN rs |-> host(k)], fair |-> fair]
        /\ call' = [call EXCEPT !.step = IF past.backend = "docker" THEN "rewrite"
                                         ELSE "check",
                                !.todo = IF past.backend = "docker" THEN files
                                         ELSE <<>>]
  /\ box' = NoBox
  /\ UNCHANGED <<dirs, back, past>>

RewriteFile ==
  /\ call.step = "rewrite"
  /\ IF call.todo = <<>> THEN call' = [call EXCEPT !.step = "check"] /\ UNCHANGED dirs
     ELSE LET u == Head(call.todo).unit
              Host(place) == [k \in DOMAIN dirs[u].rows |->
                                [dirs[u].rows[k] EXCEPT ![place] = "host"]]
          IN /\ call' = [call EXCEPT !.todo = Tail(@)]
             /\ dirs' = [dirs EXCEPT ![u] =
                  CASE Head(call.todo).file = "manifest" ->
                         [@ EXCEPT !.ref.at = "host", !.root = "host"]
                    [] Head(call.todo).file = "latest" -> [@ EXCEPT !.latest.at = "host"]
                    [] Head(call.todo).file = "envelopes" -> [@ EXCEPT !.rows = Host("body")]
                    [] Head(call.todo).file = "index" -> [@ EXCEPT !.rows = Host("at")]
                    [] OTHER -> @]
  /\ UNCHANGED <<box, reply, back, past>>

(* The response as a whole.                                                *)
CheckReply ==
  /\ call.step = "check"
  /\ call' = [call EXCEPT !.step = "finish", !.todo = call.units, !.kind =
       IF reply.drift THEN "capability_drift"
       ELSE IF \/ reply.other
               \/ \E k \in DOMAIN reply.results :
                    reply.results[k].unit \notin ToSet(call.units)
            THEN "protocol_mismatch" ELSE ""]
  /\ UNCHANGED <<dirs, box, reply, back, past>>

(* ... and what it says of one unit of a batch.                            *)
Of(u) == SelectSeq(reply.results, LAMBDA x : x.unit = u)
(* A faulty variant of Verdict: what is missing from a unit goes unseen.   *)
VerdictOfPresent(u) ==
  LET by == [k \in DOMAIN Of(u) |-> Of(u)[k].by]
  IN IF ToSet(by) \subseteq Members(call.request, u) /\ IsInjective(by) THEN ""
     ELSE "protocol_mismatch"
Verdict(u) ==
  LET by == [k \in DOMAIN Of(u) |-> Of(u)[k].by]
  IN IF by = <<>> THEN "missing_batch_result"
     ELSE IF ~(ToSet(by) \subseteq Members(call.request, u) /\ IsInjective(by))
          THEN "protocol_mismatch"
     ELSE IF ToSet(by) # Members(call.request, u) THEN "missing_batch_result" ELSE ""

Ordered(u) ==
  LET order == HostOrder(call.request, u)
      at(i) == {k \in DOMAIN Of(u) : Of(u)[k].by = i}
      there == SelectSeq(order, LAMBDA i : at(i) # {})
  IN [n \in DOMAIN there |-> Of(u)[First(at(there[n]))]]

(* The host scores what the runtime was not told how to score; a verifier  *)
(* that fails on an artifact makes its result invalid in a batch.          *)
Rescored(rs, bad) ==
  [k \in DOMAIN rs |->
     IF ~call.request[rs[k].by].sealed \/ call.mode = "resume" THEN rs[k]
     ELSE IF call.mode = "solve"
          THEN [rs[k] EXCEPT !.score = IF rs[k].state = "completed" THEN "host" ELSE @]
     ELSE IF rs[k].by \in bad
          THEN [rs[k] EXCEPT !.score = "host", !.invalid = TRUE,
                  !.kind = IF @ = "" THEN "private_verifier_failed" ELSE @]
     ELSE [rs[k] EXCEPT !.score = "host"]]

(* reduce_grouped_run_results.  A step that was blocked is not counted     *)
(* among those that ran.                                                   *)
(* A faulty variant of Reduced: the first step's checkpoint is taken.      *)
ReducedToFirst(rs) ==
  LET ran == SelectSeq(rs, LAMBDA x : x.state # "blocked")
      refs == SelectSeq(ran, LAMBDA x : x.ref # NoRef)
      bad == SelectSeq(ran, LAMBDA x : x.state # "completed" \/ x.invalid)
  IN [ref |-> IF refs = <<>> THEN NoRef ELSE Head(refs).ref,
      kind |-> IF bad = <<>> THEN "" ELSE Head(bad).kind,
      state |-> IF \E k \in DOMAIN ran : ran[k].state = "cancelled" THEN "cancelled"
                ELSE IF bad = <<>> /\ ran = rs THEN "completed" ELSE "failed"]
Reduced(rs) ==
  LET ran == SelectSeq(rs, LAMBDA x : x.state # "blocked")
      refs == SelectSeq(ran, LAMBDA x : x.ref # NoRef)
      bad == SelectSeq(ran, LAMBDA x : x.state # "completed" \/ x.invalid)
  IN [ref |-> IF refs = <<>> THEN NoRef ELSE Last(refs).ref,
      kind |-> IF bad = <<>> THEN "" ELSE Head(bad).kind,
      state |-> IF \E k \in DOMAIN ran : ran[k].state = "cancelled" THEN "cancelled"
                ELSE IF bad = <<>> /\ ran = rs THEN "completed" ELSE "failed"]

(* _finalize_execution_unit.  The manifest is written from the host's own  *)
(* copy; a failed run that cannot go on is pruned unless failures are kept.*)
Finalized(dir, rs, kind) ==
  LET told == IF rs = <<>> THEN [state |-> "failed", ref |-> NoRef, kind |-> kind]
              ELSE Reduced(rs)
      unfit == told.ref # NoRef /\ told.ref.at = "host" /\ ~dir.rows[told.ref.id].ok
      ref == IF told.ref = NoRef \/ unfit THEN UsableFrom(dir, "host") ELSE told.ref
      state == IF told.state # "failed" THEN told.state
               ELSE IF ref # NoRef THEN "paused" ELSE "failed"
  IN IF state = "failed" /\ ~past.keep
     THEN [NoRun EXCEPT !.state = "pruned", !.kind = told.kind, !.request = dir.request]
     ELSE [dir EXCEPT !.state = state, !.ref = ref, !.root = "host", !.kind = told.kind]

(* What a container wrote and nobody has rewritten.                        *)
Foreign(u) == \/ dirs[u].root = "box" \/ dirs[u].ref.at = "box" \/ dirs[u].latest.at = "box"
              \/ \E k \in DOMAIN dirs[u].rows : "box" \in {dirs[u].rows[k].at, dirs[u].rows[k].body}

FinishUnit(bad) ==
  /\ call.step = "finish" /\ call.todo # <<>>
  /\ LET u == Head(call.todo)
         kind == IF call.kind # "" \/ call.mode # "batch" THEN call.kind ELSE Verdict(u)
         rs == IF kind # "" THEN <<>>
               ELSE Rescored(IF call.mode = "batch" THEN Ordered(u) ELSE reply.results, bad)
         dir == Finalized(dirs[u], rs, kind)
     IN /\ IF call.mode = "batch" /\ kind = ""
           THEN bad \subseteq {i \in Members(call.request, u) :
                  /\ call.request[i].sealed
                  /\ \E k \in DOMAIN Of(u) : Of(u)[k].by = i /\ Of(u)[k].state = "completed"}
           ELSE bad = {}
        /\ dirs' = [dirs EXCEPT ![u] = dir]
        /\ back' = [back EXCEPT !.how = IF kind # "" THEN "raises" ELSE @,
                      !.bad = @ \cup bad,
                      !.results = @ \o [k \in DOMAIN rs |-> [rs[k] EXCEPT !.ref = dir.ref]]]
        /\ past' = [past EXCEPT !.finals[u] = @ + 1, !.lost = @ \cup
             IF dir.state = "pruned" /\ ~Foreign(u) /\ Newest(dirs[u].rows) # NoRef
             THEN {u} ELSE {}]
  /\ call' = [call EXCEPT !.todo = Tail(@)]
  /\ UNCHANGED <<box, reply>>

(* The call ends.  A batch returns the response with what the host made of *)
(* its results in their place, unless a unit was refused.                  *)
(* A faulty variant of Returned: the response as the runtime wrote it.     *)
ReturnedUnscored == reply.results
Returned ==
  [k \in DOMAIN reply.results |->
     CHOOSE x \in ToSet(back.results) :
       x.unit = reply.results[k].unit /\ x.by = reply.results[k].by]

EndCall ==
  /\ call.step = "finish" /\ call.todo = <<>>
  /\ back' = [how |-> IF back.how = "raises" THEN "raised" ELSE "returned",
              mode |-> call.mode, request |-> call.request, units |-> ToSet(call.units),
              results |-> IF back.how = "raises" THEN <<>> ELSE Returned,
              fair |-> reply.fair, bad |-> back.bad]
  /\ call' = NoCall /\ box' = NoBox /\ reply' = NoReply
  /\ UNCHANGED <<dirs, past>>

(* The host and its runtime are killed.                                    *)
Killed ==
  /\ call.step # "idle" /\ past.kills < MaxKills
  /\ call' = NoCall /\ box' = NoBox /\ reply' = NoReply
  /\ back' = [NoBack EXCEPT !.how = "killed", !.units = ToSet(call.units)]
  /\ past' = [past EXCEPT !.kills = @ + 1]
  /\ UNCHANGED dirs

Init ==
  /\ dirs = [u \in AllUnits |-> NoRun]
  /\ call = NoCall /\ box = NoBox /\ reply = NoReply /\ back = NoBack
  /\ past \in [backend : Backends, keep : BOOLEAN, calls : {0}, kills : {0},
               did : {[i \in 1..MaxLen |-> ""]}, finals : {[u \in AllUnits |-> 0]},
               lost : {{}}]

Next ==
  \/ \E r \in Requests : \E mode \in {"batch", "solve"} : Start(r, mode)
  \/ CreateRun
  \/ \E u \in AllUnits : \E target \in Targets(u) : Resume(u, target)
  \/ Launch \/ LaunchFails
  \/ \E ok \in BOOLEAN : KernelCheckpoint(ok)
  \/ \E outcome \in {"completed", "failed", "cancelled"} : KernelEnds(outcome)
  \/ KernelDies
  \/ \E flaw \in Flaws(box.results) : KernelAnswers(flaw)
  \/ RewriteFile \/ CheckReply
  \/ \E bad \in SUBSET (1..MaxLen) : FinishUnit(bad)
  \/ EndCall \/ Killed

Spec == Init /\ [][Next]_vars

------------------------------------------------------------------------------
(* Types.                                                                  *)
Refs == [id : 0..MaxCheckpoints, at : Places]
TypeOK ==
  /\ \A u \in AllUnits :
       /\ dirs[u].state \in {"none", "running", "paused", "completed", "failed",
                              "cancelled", "pruned"}
       /\ dirs[u].ref \in Refs /\ dirs[u].latest \in Refs /\ dirs[u].root \in Places
       /\ \A k \in DOMAIN dirs[u].rows : dirs[u].rows[k].id = k
  /\ call.step \in {"idle", "create", "launch", "run", "rewrite", "check", "finish"}
  /\ back.how \in {"none", "raises", "returned", "raised", "killed"}

Over == call.step = "idle" /\ back.how \in {"returned", "raised"}

(* Every run of a call that ended by itself is closed, exactly once.  A    *)
(* batch's run is completed if, and as far as the response is what the     *)
(* runtime found only if, each of its steps completed and passed the       *)
(* host's own verifier; a wrong answer about one unit costs the others     *)
(* nothing.                                                                *)
UnitsEndAsTheyWent ==
  Over => \A u \in back.units :
    /\ past.finals[u] = 1 /\ dirs[u].state \notin {"none", "running"}
    /\ LET done == \A i \in Members(back.request, u) :
                     past.did[i] = "completed" /\ i \notin back.bad
       IN back.mode # "resume" =>
            /\ dirs[u].state = "completed" => done
            /\ done /\ u \in back.fair => dirs[u].state = "completed"

(* What a call returns holds one result for every invocation, with the     *)
(* checkpoint its run's manifest names and, where the host knows the       *)
(* answer, with the host's score of it.                                    *)
ReturnsAreFiled ==
  Over /\ back.how = "returned" =>
    /\ back.mode # "resume" =>
         {back.results[k].by : k \in DOMAIN back.results} = DOMAIN back.request
    /\ \A k \in DOMAIN back.results :
         LET x == back.results[k]
         IN /\ x.ref = dirs[x.unit].ref /\ x.ref.at = "host"
            /\ back.mode # "resume" /\ back.request[x.by].sealed
                 /\ x.state = "completed" => x.score = "host"

(* After a call that returned, nothing of its runs names a path that only  *)
(* existed in a container.                                                 *)
NothingForeignStays ==
  Over /\ back.how = "returned" => \A u \in back.units : ~Foreign(u)

(* However a call ended, and after a kill at any point, a run that no      *)
(* container left its own paths in is resumed from its newest checkpoint   *)
(* that is fit, and is pruned only if it never had one.                    *)
WorkIsKept ==
  call.step = "idle" =>
    \A u \in AllUnits :
      /\ u \notin past.lost
      /\ dirs[u].ref # NoRef /\ ~Foreign(u) => dirs[u].rows[dirs[u].ref.id].ok
      /\ dirs[u].state \notin {"none", "pruned"} /\ ~Foreign(u) =>
           UsableFrom(dirs[u], "host") = Newest(dirs[u].rows)

(* A runtime that resumes reads a checkpoint in its own terms.             *)
RuntimeReadsItsOwn ==
  call.mode = "resume" /\ call.step = "run" => box.reads = Here

(* All of it, of every batch, solve and resumption.                        *)
HostIsFaithful == UnitsEndAsTheyWent /\ ReturnsAreFiled /\ NothingForeignStays
                    /\ WorkIsKept /\ RuntimeReadsItsOwn
=============================================================================
