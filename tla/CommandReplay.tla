---------------------------- MODULE CommandReplay ----------------------------
(***************************************************************************)
(* Commands in containers, live and replayed: DockerCommandBackend         *)
(* (isolation/commands.py), the recorder and the replay backend            *)
(* (isolation/replay.py), the adapter that observes the workspace          *)
(* (evaluation/runners/repo_patch_backends.py), and the client that makes  *)
(* the commands.                                                           *)
(*                                                                         *)
(* A client first runs its commands in containers, with a recorder beside  *)
(* it, and then again on a fresh copy against the recording.  Two clients  *)
(* exist: the evaluator's runner (repo_patch_runner.py), whose command 1   *)
(* applies the candidate patch and whose other commands are checks, and    *)
(* the runtime's tools, which edit the tree themselves between commands.   *)
(* A tree is the set of what was done to it: its digest tells any two      *)
(* apart, and nothing is ever undone.  No code of the repository calls the *)
(* recorder; its driver, which may or may not pass the tree after a        *)
(* command, is external.                                                   *)
(***************************************************************************)
EXTENDS Integers, Sequences, FiniteSets, SequencesExt

CONSTANTS
  N,         \* the commands of a run
  Clients,   \* who makes them: runner, runtime or both
  Inputs,    \* the candidate patches, or the tasks of a runtime
  Codes      \* the exit codes of a command's own end

CommandAssumption ==
  N \in Nat \ {0} /\ Clients \subseteq {"runner", "runtime"} /\ 0 \in Codes /\ Codes \subseteq Nat

VARIABLES
  client,     \* runner or runtime
  input,      \* what is recorded, then what is replayed
  edits,      \* before which commands the runtime edits the tree, in each run
  run,        \* live, replay or over
  pc,         \* of the client: next, running or ending
  tree,       \* the working copy
  before,     \* the tree the current command found
  container,  \* what docker runs: none, up, gone or orphan
  own,        \* the exit code the command ended with, or Killed
  overflow, late, status,   \* of DockerCommandBackend.run
  results,    \* per run: the results, with the trees before and after
  verdict,    \* per run: of the runner
  recorder,   \* on, off (a row was refused) or done
  afters,     \* whether the driver passes workspace_after
  rows,       \* the recorded rows
  cursor, physical, virtual   \* the replay backend

world == <<tree, container, own, overflow, late, status>>
recording == <<recorder, afters, rows>>
backend == <<cursor, physical, virtual>>
fixed == <<client, input, edits>>
vars == <<fixed, run, pc, before, world, results, verdict, recording, backend>>

Killed == -1
NoExit == -2
Unset == {}
Now == IF run = "live" THEN "live" ELSE "replay"
k == Len(results[Now]) + 1          \* the current command
Fresh(p) == {<<"input", p>>}
Edit(j) == <<"edit", j>>
Wrote(j) == <<"wrote", j>>

Init ==
  /\ client \in Clients
  /\ \E p \in Inputs : input = [live |-> p, replay |-> p]
  /\ \E e \in SUBSET (1..N) : edits = [live |-> e, replay |-> {}]
  /\ client = "runner" => edits["live"] = {}
  /\ run = "live" /\ pc = "next" /\ before = Unset
  /\ tree = Fresh(input["live"])
  /\ container = "none" /\ own = Killed /\ overflow = FALSE /\ late = FALSE /\ status = "none"
  /\ results = [r \in {"live", "replay"} |-> << >>]
  /\ verdict = [r \in {"live", "replay"} |-> "none"]
  /\ recorder = "on" /\ afters \in BOOLEAN /\ rows = << >>
  /\ cursor = 0 /\ physical = Unset /\ virtual = Unset

------------------------------------------------------------------------------
(* Whether the client goes on: the runner stops when the patch is not      *)
(* applied or the tree of a check is not the patched tree.                 *)
Patched(r) == results[r][1].after
Drifts(r) ==
  \E i \in 2..Len(results[r]) : \/ results[r][i].before # Patched(r)
                                \/ results[r][i].after # Patched(r)
GoesOn(r) ==
  /\ Len(results[r]) < N
  /\ IF client = "runtime" \/ results[r] = << >> THEN TRUE
     ELSE results[r][1].exit = 0 /\ ~Drifts(r)

Succeeded(x) == x.status = "completed" /\ x.exit = 0 /\ ~x.truncated

Verdict(r) ==
  IF results[r][1].exit = 0 /\ Drifts(r) THEN "quarantine"
  ELSE IF /\ results[r][1].exit = 0 /\ Len(results[r]) = N
          /\ \A i \in 2..N : Succeeded(results[r][i])
       THEN "pass" ELSE "fail"

(* The exit code a client sees where the backend reports none.             *)
Shown(s, exit) ==
  IF exit # NoExit THEN exit
  ELSE CASE s = "timed_out" -> 124 [] s = "launch_failed" -> 126 [] OTHER -> 125

------------------------------------------------------------------------------
(* capture_request: the tree is frozen before the command, and becomes the *)
(* tree after the row before.                                              *)
Edited == IF k \in edits[Now] THEN tree \cup {Edit(k)} ELSE tree

Captured ==
  IF recorder = "on" /\ rows # << >>
  THEN [rows EXCEPT ![Len(rows)].after = Edited] ELSE rows

Begin ==
  /\ run = "live" /\ pc = "next" /\ GoesOn("live")
  /\ tree' = Edited /\ before' = Edited /\ rows' = Captured
  /\ \/ /\ container' = (IF container = "orphan" THEN "orphan" ELSE "up")
        /\ pc' = "running" /\ UNCHANGED status
     \/ pc' = "ending" /\ status' = "launch_failed" /\ UNCHANGED container
  /\ UNCHANGED <<fixed, run, own, overflow, late, results, verdict, recorder, afters,
                 backend>>

(* The container writes to the mounted tree and ends.  One that docker rm  *)
(* did not remove goes on writing.                                         *)
Works ==
  /\ container \in {"up", "orphan"} /\ run = "live"
  /\ tree' = tree \cup {Wrote(k)} /\ tree' # tree
  /\ UNCHANGED <<fixed, run, pc, before, container, own, overflow, late, status,
                 results, verdict, recording, backend>>

Ends ==
  /\ run = "live" /\ pc \in {"running", "ending"} /\ own = Killed
  /\ status # "launch_failed" /\ own' \in Codes
  /\ container' = IF container = "up" THEN "gone" ELSE container
  /\ UNCHANGED <<fixed, run, pc, before, tree, overflow, late, status, results,
                 verdict, recording, backend>>

(* The supervising loop: in each round the process's own end is noticed    *)
(* first, then too much output, then the deadline; output may overflow,    *)
(* and time run out, after the last round too.  A container given up is    *)
(* removed, by an attempt whose failure is ignored, and the docker process *)
(* is killed.                                                              *)
Supervise ==
  /\ run = "live" /\ pc = "running"
  /\ overflow' \in BOOLEAN /\ late' \in BOOLEAN
  /\ IF own # Killed THEN status' = "completed" /\ UNCHANGED container
     ELSE /\ \/ overflow' /\ status' = "output_limit"
             \/ late' /\ status' = "timed_out"
          /\ container' \in {"gone", "orphan"}
  /\ pc' = "ending"
  /\ UNCHANGED <<fixed, run, before, tree, own, results, verdict, recording, backend>>

(* A faulty variant: the status of a result is decided by the exit code    *)
(* alone, whatever was given up, and a killed process counts as ended.     *)
ExitDecides ==
  LET exit == IF own = Killed THEN 0 ELSE own
  IN [status |-> IF status = "launch_failed" THEN status ELSE "completed",
      exit |-> IF status = "launch_failed" THEN NoExit ELSE exit,
      truncated |-> overflow]

(* What run returns: a command that was given up never has exit code 0,    *)
(* but keeps any other code, of its own or of its kill.                    *)
Result ==
  LET code == IF own = Killed THEN 137 ELSE own
  IN [status |-> status,
      exit |-> IF status = "launch_failed" \/ (status # "completed" /\ code = 0)
               THEN NoExit ELSE code,
      truncated |-> overflow]

(* bind_row: which results the recorder accepts.                           *)
Recordable(x) ==
  /\ x.status \in {"timed_out", "launch_failed"} => x.exit = NoExit
  /\ x.status = "output_limit" => x.truncated
  /\ ~late \/ x.status = "timed_out"

Row(x) ==
  [k |-> k, before |-> before, after |-> IF afters THEN tree ELSE before, result |-> x]

Observed(x, from, to) ==
  [status |-> x.status, exit |-> Shown(x.status, x.exit), truncated |-> x.truncated,
   before |-> from, after |-> to, own |-> own]

Collect ==
  /\ run = "live" /\ pc = "ending"
  /\ results' = [results EXCEPT !["live"] = Append(@, Observed(Result, before, tree))]
  /\ IF recorder = "on" /\ Recordable(Result)
     THEN rows' = Append(rows, Row(Result)) /\ UNCHANGED recorder
     ELSE recorder' = "off" /\ UNCHANGED rows
  /\ pc' = "next" /\ before' = Unset
  /\ own' = Killed /\ overflow' = FALSE /\ late' = FALSE /\ status' = "none"
  /\ UNCHANGED <<fixed, run, tree, container, verdict, afters, backend>>

(* The client is done; the recorder is finalized, and a client replays the *)
(* run in a fresh copy, with the same or another input and other edits.    *)
Finish ==
  /\ run = "live" /\ pc = "next" /\ ~GoesOn("live")
  /\ verdict' = [verdict EXCEPT !["live"] = IF client = "runner" THEN Verdict("live") ELSE "none"]
  /\ recorder' = IF recorder = "on" THEN "done" ELSE "off"
  /\ run' = IF recorder = "on" THEN "replay" ELSE "over"
  /\ \E p \in IF recorder = "on" THEN Inputs ELSE {input["live"]} :
       input' = [input EXCEPT !["replay"] = p] /\ tree' = Fresh(p)
  /\ \E e \in IF recorder = "on" /\ client = "runtime" THEN SUBSET (1..N) ELSE {{}} :
       edits' = [edits EXCEPT !["replay"] = e]
  /\ container' = "none"
  /\ UNCHANGED <<client, pc, before, own, overflow, late, status, results, afters, rows,
                 backend>>

------------------------------------------------------------------------------
(* IsolatedCommandReplayBackend.run.  Nothing is executed.  The tree the   *)
(* command finds must be the recorded one; or, from the second command on, *)
(* the tree of the last command, when the recording goes on where that     *)
(* command left its own tree.                                              *)
Physical == IF virtual = Unset THEN Edited ELSE physical
Virtual == IF virtual = Unset THEN rows[cursor + 1].before ELSE virtual

(* A faulty variant: the first tree is not compared with the recorded one. *)
AnyStart ==
  cursor < Len(rows) /\
    \/ Edited = rows[cursor + 1].before
    \/ Edited = Physical /\ rows[cursor + 1].before = Virtual

Accepts ==
  /\ cursor < Len(rows) /\ rows[cursor + 1].k = k
  /\ \/ Edited = rows[cursor + 1].before
     \/ /\ cursor > 0
        /\ Edited = Physical /\ rows[cursor + 1].before = Virtual

Answer ==
  /\ run = "replay" /\ pc = "next" /\ GoesOn("replay") /\ Accepts
  /\ tree' = Edited
  /\ physical' = (IF Edited = rows[cursor + 1].before THEN Edited ELSE Physical)
  /\ virtual' = rows[cursor + 1].after
  /\ cursor' = cursor + 1
  /\ results' = [results EXCEPT !["replay"] =
       Append(@, Observed(rows[cursor + 1].result,
                          rows[cursor + 1].before, rows[cursor + 1].after))]
  /\ UNCHANGED <<fixed, run, pc, before, container, own, overflow, late, status, verdict,
                 recording>>

(* A refusal is a command that could not be launched, in the real tree.    *)
Refuse ==
  /\ run = "replay" /\ pc = "next" /\ GoesOn("replay") /\ ~Accepts
  /\ tree' = Edited
  /\ physical' = IF cursor < Len(rows) THEN Physical ELSE physical
  /\ virtual' = IF cursor < Len(rows) THEN Virtual ELSE virtual
  /\ results' = [results EXCEPT !["replay"] = Append(@,
       Observed([status |-> "launch_failed", exit |-> NoExit, truncated |-> FALSE],
                Edited, Edited))]
  /\ UNCHANGED <<fixed, run, pc, before, container, own, overflow, late, status, verdict,
                 recording, cursor>>

Conclude ==
  /\ run = "replay" /\ pc = "next" /\ ~GoesOn("replay")
  /\ verdict' = [verdict EXCEPT !["replay"] = IF client = "runner" THEN Verdict("replay") ELSE "none"]
  /\ run' = "over"
  /\ UNCHANGED <<fixed, pc, before, world, results, recording, backend>>

Next ==
  \/ Begin \/ Works \/ Ends \/ Supervise \/ Collect \/ Finish
  \/ Answer \/ Refuse \/ Conclude

Spec == Init /\ [][Next]_vars

(* assert_reconciled                                                       *)
Reconciled == cursor = Len(rows)

------------------------------------------------------------------------------
TypeOK ==
  /\ run \in {"live", "replay", "over"} /\ pc \in {"next", "running", "ending"}
  /\ container \in {"none", "up", "gone", "orphan"}
  /\ own \in Codes \cup {Killed} /\ status \in {"none", "completed", "output_limit",
                                               "timed_out", "launch_failed"}
  /\ cursor \in 0..N /\ Len(rows) \in 0..N
  /\ \A r \in {"live", "replay"} :
       /\ Len(results[r]) \in 0..N
       /\ verdict[r] \in {"none", "pass", "fail", "quarantine"}

GivenUp == {i \in 1..Len(results["live"]) :
              results["live"][i].status \in {"output_limit", "timed_out"}}

(* A verdict of pass is earned: the patch command ended by itself with 0,  *)
(* and every check ended by itself with 0 on exactly the tree the patch    *)
(* command left, which is also the tree at the end, whatever commands were *)
(* given up at the same moment they ended, kept running after their        *)
(* removal failed, or wrote to the tree (DockerCommandBackend.run,         *)
(* RepoPatchEvaluatorRunner._execute, _workspace_integrity_check).         *)
PassIsEarned ==
  verdict["live"] = "pass" =>
    /\ \A i \in 1..N : results["live"][i].own = 0
    /\ \A i \in 2..N : /\ results["live"][i].before = results["live"][1].after
                       /\ results["live"][i].after = results["live"][1].after

(* A replay gives what was recorded.  The runner's verdict of a replay     *)
(* that reconciles with the recording is pass only if the same patch was   *)
(* recorded and its commands succeeded, and it is the recorded verdict     *)
(* when the driver passed the trees after the commands; a replay of the    *)
(* same patch reconciles then unless a command was given up, whose         *)
(* container may have written too late for its own row.  A runtime that makes the edits it   *)
(* made when it was recorded has every command answered, as long as it     *)
(* made none after a command that wrote to the tree                        *)
(* (IsolatedCommandReplayBackend.run, IsolatedCommandReplayRecorder).      *)
ReplayGivesWhatWasRecorded ==
  run = "over" /\ recorder = "done" =>
    /\ client = "runner" =>
         /\ verdict["replay"] = "pass" /\ Reconciled =>
              /\ input["replay"] = input["live"]
              /\ \A i \in 2..N : Succeeded(results["live"][i])
         /\ afters /\ input["replay"] = input["live"] =>
              /\ verdict["replay"] = verdict["live"]
              /\ GivenUp = {} => Reconciled
    /\ client = "runtime" /\ input["replay"] = input["live"]
         /\ edits["replay"] = edits["live"]
         /\ (\A j \in edits["live"] : \A i \in 1..N :
               Wrote(i) \notin results["live"][j].before)
       => Reconciled /\ \A i \in 1..N : results["replay"][i].status
                                          = results["live"][i].status
=============================================================================
