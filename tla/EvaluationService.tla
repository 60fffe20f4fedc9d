-------------------------- MODULE EvaluationService --------------------------
(* The isolated evaluation of a run's patch                                *)
(* (evaluation/harness_service.py, evaluation/harness_entrypoint.py), its  *)
(* runner (evaluation/runners/repo_patch_runner.py) and the store of proof *)
(* records (storage/proof_records.py) that several evaluators share.       *)
(*                                                                         *)
(* An evaluator reads the active release, checks the evidence of the run   *)
(* against it, applies the patch to a copy of the sealed fixture and runs  *)
(* the public and then the sealed commands there. What it found becomes a  *)
(* receipt, filed with the evidence under the evidence's own name. Neither *)
(* the pointer nor the store is locked while it works: only the append     *)
(* takes the store's lock, a file which a killed evaluator leaves behind.  *)
(* Record and link are files made empty and then filled: a kill or a       *)
(* failed write in between leaves a torn one.                              *)
(*                                                                         *)
(* A piece of evidence stands for every digest it is checked by: the       *)
(* release it names, its candidate (pair, protocol and patch), whether its *)
(* public verification passed, and whether it is complete and healthy.     *)
EXTENDS Naturals, FiniteSets

CONSTANTS
  Evaluator,   \* evaluator processes
  Evidence,    \* [release, candidate, passed, sound]
  Release,     \* what the pointer may name
  Public,      \* how many public commands the fixture has
  Sealed,      \* and how many sealed ones
  Times,       \* the milliseconds a receipt may be issued at
  None,        \* no record, no evidence, no lock
  Torn         \* a record that is written, or whose writer was cut short

Receipt == [evidence : Evidence, repaired : BOOLEAN, at : Times]

EvaluationAssumption ==
  /\ \A ev \in Evidence : ev.release \in Release /\ {ev.passed, ev.sound} \subseteq BOOLEAN
  /\ None \notin Evidence \union Evaluator /\ {None, Torn} \intersect Receipt = {}
  /\ Public \in Nat /\ Sealed \in Nat

VARIABLES
  pointer,     \* the active release
  source,      \* whether the fixture still is what the contract sealed
  records,     \* the record at each evidence's path: none, torn or a receipt
  links,       \* the whole outcome links, each the receipt it is named by
  tornLinks,   \* those that are being written, or whose writer was cut short
  locked,      \* the lock file: who made it
  stage,       \* what each evaluator does next
  work,        \* what it has in hand
  outcome,     \* what it last told its caller
  basis        \* history: what was so after a filed run had ended

vars == <<pointer, source, records, links, tornLinks, locked, stage, work,
          outcome, basis>>

Commands == Public + Sealed

Idle == [evidence |-> None, done |-> 0, public |-> TRUE, sealed |-> TRUE,
         launched |-> TRUE, clean |-> TRUE, receipt |-> None,
         known |-> {}, active |-> {}]

Stages == {"idle", "bind", "copy", "apply", "commands", "judge", "confirm", "rescan",
           "issue", "lock", "record", "fill", "link", "filllink", "unlock", "drop",
           "answer", "killed"}

Init ==
  /\ pointer \in Release
  /\ source = TRUE
  /\ records = [ev \in Evidence |-> None]
  /\ links = {} /\ tornLinks = {}
  /\ locked = None
  /\ stage = [e \in Evaluator |-> "idle"]
  /\ work = [e \in Evaluator |-> Idle]
  /\ outcome = [e \in Evaluator |-> None]
  /\ basis = [ev \in Evidence |-> [known |-> {}, active |-> {}]]

Store == <<records, links, tornLinks, locked, basis>>
World == <<pointer, source>>

Goes(e, s) == stage' = [stage EXCEPT ![e] = s]

(* A refusal, which the caller sees as an error.                           *)
Refuse(e) ==
  /\ Goes(e, "idle")
  /\ work' = [work EXCEPT ![e] = Idle]
  /\ outcome' = [outcome EXCEPT ![e] = None]

(* The evidence is whole and healthy, and of that very release.            *)
BoundTo(ev, release) == ev.sound /\ ev.release = release

(* evaluate, up to the run: _prepare reads the active release and the      *)
(* fixture.                                                                *)
Prepare(e, ev) ==
  /\ stage[e] = "idle"
  /\ source /\ BoundTo(ev, pointer)
  /\ Goes(e, "bind")
  /\ work' = [work EXCEPT ![e] = [Idle EXCEPT !.evidence = ev]]
  /\ UNCHANGED <<World, Store, outcome>>

RefuseInputs(e, ev) ==
  /\ stage[e] = "idle"
  /\ ~(source /\ BoundTo(ev, pointer))
  /\ Refuse(e)
  /\ UNCHANGED <<World, Store>>

(* _assert_no_duplicate_outcome reads every record, without the lock: one  *)
(* which is being written, or was left torn, refuses any evaluation.       *)
Readable == \A ev \in Evidence : records[ev] # Torn
Filed == {ev \in Evidence : records[ev] \in Receipt}
Unfiled(ev) == \A old \in Filed : old # ev /\ old.candidate # ev.candidate

Scan(e, now, next) ==
  /\ stage[e] = now
  /\ IF Readable /\ Unfiled(work[e].evidence)
       THEN Goes(e, next) /\ UNCHANGED <<work, outcome>>
       ELSE Refuse(e)
  /\ UNCHANGED <<World, Store>>

FirstScan(e) == Scan(e, "bind", "copy")

(* The runner copies the fixture; a copy that is not what was sealed is    *)
(* not worked on, and its result is not accepted.                          *)
Copy(e) ==
  /\ stage[e] = "copy"
  /\ IF source THEN Goes(e, "apply") /\ UNCHANGED <<work, outcome>> ELSE Refuse(e)
  /\ UNCHANGED <<World, Store>>

(* The patch is refused when it names a protected path or does not apply.  *)
ApplyPatch(e) ==
  /\ stage[e] = "apply"
  /\ \/ source /\ Goes(e, IF Commands = 0 THEN "judge" ELSE "commands")
          /\ UNCHANGED <<work, outcome>>
     \/ Refuse(e)
  /\ UNCHANGED <<World, Store>>

(* A faulty variant: what a command leaves behind is found at the end only.*)
RunsOn(w, drift) == w.done + 1 < Commands

(* A run goes on only in the copy that the patch made.                     *)
GoesOn(w, drift) == ~drift /\ source /\ w.done + 1 < Commands

(* One command, the public ones first. It passes, fails (a timeout and cut *)
(* off output do too) or is not launched, and it may leave the copy        *)
(* changed. A failure does not end the run.                                *)
RunCommand(e, result, drift) ==
  LET w == work[e]
      passed == result = "pass"
      public == w.done < Public
  IN
  /\ stage[e] = "commands"
  /\ work' = [work EXCEPT ![e] =
       [w EXCEPT !.done = @ + 1,
                 !.public = @ /\ (public => passed),
                 !.sealed = @ /\ (public \/ passed),
                 !.launched = @ /\ result # "launch_failed",
                 !.clean = @ /\ ~drift /\ source]]
  /\ Goes(e, IF GoesOn(w, drift) THEN "commands" ELSE "judge")
  /\ UNCHANGED <<World, Store, outcome>>

(* _assert_runner_result, and the comparison of what the commands say now  *)
(* with what the evidence says the run saw.                                *)
Accepted(w) ==
  w.clean /\ w.done = Commands /\ w.public = w.evidence.passed

Judge(e) ==
  /\ stage[e] = "judge"
  /\ IF source /\ Accepted(work[e])
       THEN /\ Goes(e, "confirm")
            /\ work' = [work EXCEPT ![e].known = Filed, ![e].active = {pointer}]
            /\ UNCHANGED outcome
       ELSE Refuse(e)
  /\ UNCHANGED <<World, Store>>

(* _assert_release_still_active.                                           *)
Confirm(e) ==
  /\ stage[e] = "confirm"
  /\ IF work[e].evidence.release = pointer
       THEN Goes(e, "rescan") /\ UNCHANGED <<work, outcome>>
       ELSE Refuse(e)
  /\ UNCHANGED <<World, Store>>

(* A faulty variant: the store is searched for a prior outcome only before *)
(* the commands run.                                                       *)
NoSecondScan(e) ==
  /\ stage[e] = "rescan"
  /\ Goes(e, "issue")
  /\ UNCHANGED <<World, Store, work, outcome>>

SecondScan(e) == Scan(e, "rescan", "issue")

(* The health floor, then the receipt: repaired when all commands passed.  *)
Issue(e, t) ==
  LET w == work[e] IN
  /\ stage[e] = "issue"
  /\ IF w.launched
       THEN /\ Goes(e, "lock")
            /\ work' = [work EXCEPT ![e].receipt =
                 [evidence |-> w.evidence, repaired |-> w.public /\ w.sealed, at |-> t]]
            /\ UNCHANGED outcome
       ELSE Refuse(e)
  /\ UNCHANGED <<World, Store>>

------------------------------------------------------------------------------
(* The append. The lock is made or the append is refused at once.          *)
Lock(e) ==
  /\ stage[e] = "lock"
  /\ IF locked = None
       THEN /\ locked' = e /\ Goes(e, "record")
            /\ UNCHANGED <<work, outcome>>
       ELSE Refuse(e) /\ UNCHANGED locked
  /\ UNCHANGED <<World, records, links, tornLinks, basis>>

(* _write_once opens the record's own path: the same bytes again are fine, *)
(* other bytes are refused, and a new file is empty until it is filled.    *)
OpenRecord(e) ==
  LET w == work[e] IN
  /\ stage[e] = "record"
  /\ CASE records[w.evidence] = None ->
            records' = [records EXCEPT ![w.evidence] = Torn] /\ Goes(e, "fill")
       [] records[w.evidence] = w.receipt -> UNCHANGED records /\ Goes(e, "link")
       [] OTHER -> UNCHANGED records /\ Goes(e, "drop")
  /\ UNCHANGED <<World, links, tornLinks, locked, work, outcome, basis>>

(* All bytes are written; the append goes on unless the fsync fails.       *)
FillRecord(e) ==
  LET w == work[e] IN
  /\ stage[e] = "fill"
  /\ records' = [records EXCEPT ![w.evidence] = w.receipt]
  /\ basis' = [basis EXCEPT ![w.evidence] = [known |-> w.known, active |-> w.active]]
  /\ Goes(e, "link") \/ Goes(e, "drop")
  /\ UNCHANGED <<World, links, tornLinks, locked, work, outcome>>

(* A faulty variant: a link that is there already is taken for whole.      *)
TrustsAnyLink(e) ==
  LET r == work[e].receipt
      new == r \notin links \union tornLinks
  IN
  /\ stage[e] = "link"
  /\ tornLinks' = IF new THEN tornLinks \union {r} ELSE tornLinks
  /\ Goes(e, IF new THEN "filllink" ELSE "unlock")
  /\ UNCHANGED <<World, records, links, locked, work, outcome, basis>>

(* The outcome link, the same way. Its path is the receipt's digest, so    *)
(* that the only other bytes to be found there are those of a torn link.   *)
OpenLink(e) ==
  LET r == work[e].receipt IN
  /\ stage[e] = "link"
  /\ CASE r \in links -> UNCHANGED tornLinks /\ Goes(e, "unlock")
       [] r \in tornLinks -> UNCHANGED tornLinks /\ Goes(e, "drop")
       [] OTHER -> tornLinks' = tornLinks \union {r} /\ Goes(e, "filllink")
  /\ UNCHANGED <<World, records, links, locked, work, outcome, basis>>

FillLink(e) ==
  LET r == work[e].receipt IN
  /\ stage[e] = "filllink"
  /\ links' = links \union {r} /\ tornLinks' = tornLinks \ {r}
  /\ Goes(e, "unlock") \/ Goes(e, "drop")
  /\ UNCHANGED <<World, records, locked, work, outcome, basis>>

(* An open or a write fails, or the store's manifest is refused: what is   *)
(* torn stays torn, and _writer removes the lock all the same.             *)
WriteFails(e) ==
  /\ stage[e] \in {"record", "fill", "link", "filllink"}
  /\ Goes(e, "drop")
  /\ UNCHANGED <<World, Store, work, outcome>>

Unlock(e) ==
  /\ stage[e] \in {"unlock", "drop"}
  /\ locked' = None
  /\ IF stage[e] = "drop" THEN Refuse(e)
     ELSE Goes(e, "answer") /\ UNCHANGED <<work, outcome>>
  /\ UNCHANGED <<World, records, links, tornLinks, basis>>

(* The outcome is answered, or refused though it is filed: the summary is  *)
(* not fit to publish, or a replayed run left commands unread.             *)
AnswerCaller(e) ==
  /\ stage[e] = "answer"
  /\ \/ /\ Goes(e, "idle")
        /\ work' = [work EXCEPT ![e] = Idle]
        /\ outcome' = [outcome EXCEPT ![e] = work[e].receipt]
     \/ Refuse(e)
  /\ UNCHANGED <<World, Store>>

------------------------------------------------------------------------------
(* What the evaluators do not control: another release is made active, the *)
(* fixture changes on disk, an evaluator is killed.                        *)
Activate(r) ==
  /\ pointer # r
  /\ pointer' = r
  /\ work' = [e \in Evaluator |->
       IF stage[e] \in {"confirm", "rescan", "issue", "lock", "record", "fill"}
         THEN [work[e] EXCEPT !.active = @ \union {r}] ELSE work[e]]
  /\ UNCHANGED <<source, Store, stage, outcome>>

SourceChanges ==
  /\ source /\ source' = FALSE
  /\ UNCHANGED <<pointer, Store, stage, work, outcome>>

Kill(e) ==
  /\ stage[e] \notin {"idle", "killed"}
  /\ Goes(e, "killed")
  /\ work' = [work EXCEPT ![e] = Idle]
  /\ outcome' = [outcome EXCEPT ![e] = None]
  /\ UNCHANGED <<World, Store>>

EvaluatorStep(e) ==
  \/ \E ev \in Evidence : Prepare(e, ev) \/ RefuseInputs(e, ev)
  \/ FirstScan(e) \/ Copy(e) \/ ApplyPatch(e)
  \/ \E result \in {"pass", "fail", "launch_failed"}, drift \in BOOLEAN :
       RunCommand(e, result, drift)
  \/ Judge(e) \/ Confirm(e) \/ SecondScan(e)
  \/ \E t \in Times : Issue(e, t)
  \/ Lock(e) \/ OpenRecord(e) \/ FillRecord(e) \/ OpenLink(e) \/ FillLink(e)
  \/ WriteFails(e) \/ Unlock(e) \/ AnswerCaller(e)
  \/ Kill(e)

Next ==
  \/ \E e \in Evaluator : EvaluatorStep(e)
  \/ \E r \in Release : Activate(r)
  \/ SourceChanges

Spec == Init /\ [][Next]_vars

------------------------------------------------------------------------------
(* The type of the state; commands are run only in an unchanged copy.      *)
TypeOK ==
  /\ pointer \in Release /\ source \in BOOLEAN
  /\ \A ev \in Evidence : records[ev] \in Receipt \union {None, Torn}
  /\ {links, tornLinks} \subseteq SUBSET Receipt
  /\ locked \in Evaluator \union {None}
  /\ \A e \in Evaluator :
       /\ stage[e] \in Stages
       /\ stage[e] = "commands" => work[e].clean /\ work[e].done < Commands
       /\ work[e].evidence \in Evidence \union {None}
       /\ work[e].receipt \in Receipt \union {None}
       /\ outcome[e] \in Receipt \union {None}
  /\ basis \in [Evidence -> [known : SUBSET Evidence, active : SUBSET Release]]

(* A link is made after its record is whole, so a whole link resolves      *)
(* (lookup_outcome), whoever was killed when and whichever write failed. A *)
(* torn one does not, and a filed outcome may be left with a torn link or  *)
(* with none.                                                              *)
LinksResolve ==
  /\ \A r \in links \union tornLinks : records[r.evidence] = r
  /\ links \intersect tornLinks = {}

(* What a caller was told is what anyone who looks it up will find: the    *)
(* outcome of an append that was cut short is told to nobody.              *)
AnswersAreFiled ==
  \A e \in Evaluator : outcome[e] # None => outcome[e] \in links

(* A filed repair is one the run itself saw pass in public, and an outcome *)
(* is of a release that was active after its commands had ended.           *)
OutcomesReproduce ==
  \A ev \in Filed :
    /\ records[ev].repaired => ev.passed
    /\ ev.sound /\ ev.release \in basis[ev].active

(* A candidate has one outcome, except when each evaluation ended its      *)
(* commands before the other had filed: the scans are not under the lock.  *)
OutcomesAreSingle ==
  \A ev, old \in Filed :
    ev # old /\ ev.candidate = old.candidate =>
      ev \notin basis[old].known /\ old \notin basis[ev].known

(* Evaluators that race, die in the store, fail to write or lose their     *)
(* release never answer with an outcome that cannot be looked up, link one *)
(* that is not filed, or file one that the run's own evidence denies.      *)
OutcomesAreSound ==
  /\ LinksResolve /\ AnswersAreFiled /\ OutcomesReproduce /\ OutcomesAreSingle
==============================================================================
