----------------------------- MODULE LiveStudies -----------------------------
(***************************************************************************)
(* The two studies that ask a live provider and keep what it answered as   *)
(* evidence: the gate0 exchange study (evaluation/gate0.py and             *)
(* gate0_runner.py) and the D0 baseline (evaluation/feasibility.py).       *)
(*                                                                         *)
(* Both make the calls of a frozen schedule in its order, each in a worker *)
(* thread under a deadline, file each answer as it comes, stop at the      *)
(* first failure and end with a report that a replay checks against the    *)
(* filed calls.  Neither resumes.  Gate0 builds its evidence in a          *)
(* directory of its own and renames it into place at the end; any          *)
(* exception before that erases it.  D0 writes in place, each file once,   *)
(* and a report of a completed baseline only with the proof that some      *)
(* replicates repaired the task and some did not.                          *)
(* In gate0 the call 2a - 1 is the producer's of arm a and 2a the          *)
(* responder's; in D0 a call is a whole run of one replicate.              *)
(***************************************************************************)
EXTENDS Integers, Sequences, FiniteSets, SequencesExt, FiniteSetsExt

CONSTANTS
  Runners,  \* the runs of the study, all with one evidence root
  Length,   \* the calls of the schedule
  Ids,      \* the provider's response ids, numbered as they first appear
  MaxSent,  \* bound: requests a call sent that gave no account of itself
  NoId

StudyAssumption == Length \in Nat \ {0} /\ Length % 2 = 0 /\ Ids = 1 .. Length /\ NoId \notin Ids /\ MaxSent \in Nat

VARIABLES
  study,    \* gate0 or d0
  arms,     \* per gate0 arm, how the responder's request uses the artifact
  phase,    \* per run: where its runner stands
  filed,    \* per run: the filed observations
  report,   \* per run: the report, unset until it is written
  proof,    \* per run of D0: none, torn or whole
  reply,    \* per run: what the supervisor handed over
  root,     \* the run whose files stand at the evidence root
  asked     \* history, per run: what came of each call that was made

vars == <<study, arms, phase, filed, report, proof, reply, root, asked>>
Nobody == "nobody"
Unset == [status |-> "unset"]
Torn == [status |-> "torn"]

Failed(status, n) == [status |-> status, crossed |-> FALSE, id |-> NoId, usage |-> "unknown",
                      made |-> "none", requests |-> n]
Raised == Failed("executor_error", 1)
Expired == Failed("deadline_exceeded", 1)

(* What an executor can answer in its time.  What is made of it: the       *)
(* artifact of a gate0 producer, as registered, only of its shape, or      *)
(* another; the outcome of a D0 replicate, a repair, none, or one that no  *)
(* proof takes (unhealthy or excluded).  The usage is "off" when it is     *)
(* known and differs from the registered price or from the receipt.        *)
Answers ==
  LET made == IF study = "gate0" THEN {"registered", "shaped", "other", "none"}
                                 ELSE {"repair", "failure", "unfit"}
      good == IF study = "gate0" THEN "valid" ELSE "succeeded"
  IN [status : {good}, made : made, id : Ids, usage : {"known"}, crossed : {FALSE},
      requests : {1}]
     \cup [status : {good}, made : {CHOOSE m \in made : TRUE}, id : Ids, requests : {1},
           usage : {"known", "off", "unknown"}, crossed : BOOLEAN]
     \cup [status : {"provider_error"}, made : {"none"}, id : Ids \cup {NoId},
           usage : {"known", "none"}, crossed : BOOLEAN, requests : {0, 1}]
     \cup (IF study = "gate0"
           THEN [status : {"invalid_output"}, made : {"none"}, id : Ids, usage : {"known"},
                 crossed : {FALSE}, requests : {1}]
           ELSE {})

Init ==
  /\ study \in {"gate0", "d0"}
  /\ arms \in [1 .. Length \div 2 -> {"exact", "neutral", "free"}]
  /\ study = "d0" => \A a \in DOMAIN arms : arms[a] = "free"
  /\ phase = [r \in Runners |-> "idle"]
  /\ filed = [r \in Runners |-> << >>]
  /\ report = [r \in Runners |-> Unset]
  /\ proof = [r \in Runners |-> "none"]
  /\ reply = [r \in Runners |-> Unset]
  /\ root = Nobody
  /\ asked = [r \in Runners |-> << >>]

Goto(r, p) == phase' = [phase EXCEPT ![r] = p]
Position(r) == Len(filed[r]) + 1
Responds(k) == study = "gate0" /\ k % 2 = 0
Produces(k) == study = "gate0" /\ k % 2 = 1
IdsOf(s) == {s[k].id : k \in DOMAIN s} \ {NoId}

------------------------------------------------------------------------------
(* A run starts only where no evidence stands.  D0 makes the directory of  *)
(* the calls at once, which fails for the second of two; gate0 makes one   *)
(* under a name of its own.                                                *)
Start(r) ==
  /\ phase[r] = "idle"
  /\ IF root # Nobody
       THEN Goto(r, "refused") /\ UNCHANGED root
       ELSE Goto(r, "next") /\ root' = IF study = "d0" THEN r ELSE root
  /\ UNCHANGED <<study, arms, filed, report, proof, reply, asked>>

(* Whether the request of a responder, made with the text its producer     *)
(* returned, is the registered one.                                        *)
RequestHolds(r, k) ==
  LET made == filed[r][k - 1].made
  IN CASE arms[k \div 2] = "exact" -> made = "registered"
       [] arms[k \div 2] = "neutral" -> made \in {"registered", "shaped"}
       [] OTHER -> TRUE

(* The report counts the filed calls of gate0 and the provider requests of *)
(* D0, where an unknown call counts as one.                                *)
Total(s) ==
  IF study = "gate0" THEN Len(s) ELSE FoldSeq(LAMBDA c, n : c.requests + n, 0, s)

Close(r, status, code) ==
  /\ reply' = [reply EXCEPT ![r] =
                 [status |-> status, code |-> code, total |-> Total(filed'[r])]]
  /\ Goto(r, "report")

Ask(r) ==
  /\ phase[r] = "next" /\ Position(r) <= Length
  /\ IF Responds(Position(r)) /\ ~RequestHolds(r, Position(r))
       THEN UNCHANGED filed /\ Close(r, "incomplete", "artifact_identity_mismatch")
       ELSE Goto(r, "calling") /\ UNCHANGED <<filed, reply>>
  /\ UNCHANGED <<study, arms, report, proof, root, asked>>

Came(r, what, answer, n) ==
  asked' = [asked EXCEPT ![r] =
    Append(@, [call |-> Position(r), how |-> what, answer |-> answer, sent |-> n])]

(* The worker answers in time, raises, or is given up at the deadline.     *)
(* What an abandoned worker still gets goes to a queue nobody reads; what  *)
(* it sent is not known.                                                   *)
Answer(r) ==
  /\ phase[r] = "calling"
  /\ \E a \in Answers :
       /\ a.id = NoId \/ a.id \in 1 .. 1 + Cardinality(IdsOf(filed[r]))
       /\ Responds(Position(r)) => a.made \in {"registered", "none"}
       /\ reply' = [reply EXCEPT ![r] = a]
       /\ \E n \in IF a.crossed THEN 0 .. MaxSent ELSE {a.requests} : Came(r, "in time", a, n)
  /\ Goto(r, "answered")
  /\ UNCHANGED <<study, arms, filed, report, proof, root>>

Raise(r) ==
  /\ phase[r] = "calling"
  /\ reply' = [reply EXCEPT ![r] = Raised]
  /\ \E n \in 0 .. MaxSent : Came(r, "raised", Raised, n)
  /\ Goto(r, "answered")
  /\ UNCHANGED <<study, arms, filed, report, proof, root>>

Expire(r) ==
  /\ phase[r] = "calling"
  /\ reply' = [reply EXCEPT ![r] = Expired]
  /\ \E n \in 0 .. MaxSent : Came(r, "late", Expired, n)
  /\ Goto(r, "answered")
  /\ UNCHANGED <<study, arms, filed, report, proof, root>>

------------------------------------------------------------------------------
(* A faulty variant: gate0 does not compare the response ids.              *)
CodeWithoutIds(r) ==
  LET a == reply[r]
      checks == <<
        <<a.status = "executor_error", "executor_error">>,
        <<a.crossed, "crossed_identity">>,
        <<a.status \in {"deadline_exceeded", "provider_error", "accounting_error"}, a.status>>,
        <<a.usage # "known", "accounting_error">>,
        <<Produces(Position(r)) /\ (a.status # "valid" \/ a.made = "none"),
          "artifact_identity_mismatch">> >>
      hit == SelectSeq(checks, LAMBDA c : c[1])
  IN IF hit = << >> THEN "none" ELSE hit[1][2]

(* Why gate0 stops after a call: the first of its checks that fails.       *)
Code(r) ==
  LET a == reply[r]
      checks == <<
        <<a.status = "executor_error", "executor_error">>,
        <<a.crossed, "crossed_identity">>,
        <<a.id \in IdsOf(filed[r]), "duplicate_response_id">>,
        <<a.status \in {"deadline_exceeded", "provider_error", "accounting_error"}, a.status>>,
        <<a.usage # "known", "accounting_error">>,
        <<Produces(Position(r)) /\ (a.status # "valid" \/ a.made = "none"),
          "artifact_identity_mismatch">> >>
      hit == SelectSeq(checks, LAMBDA c : c[1])
  IN IF hit = << >> THEN "none" ELSE hit[1][2]

(* A call whose executor raised or whose answer is another call's is not   *)
(* filed.                                                                  *)
FileGate0(r) ==
  /\ study = "gate0" /\ phase[r] = "answered"
  /\ filed' = IF Code(r) \in {"executor_error", "crossed_identity"} THEN filed
              ELSE [filed EXCEPT ![r] = Append(@, reply[r])]
  /\ IF Code(r) # "none" THEN Close(r, "incomplete", Code(r))
     ELSE IF Position(r) = Length THEN Close(r, "completed", "none")
     ELSE Goto(r, "next") /\ reply' = [reply EXCEPT ![r] = Unset]
  /\ UNCHANGED <<study, arms, report, proof, root, asked>>

(* A faulty variant: D0 does not compare the response ids.                 *)
SettledBlind(r) ==
  LET a == reply[r]
      fail(s) == [a EXCEPT !.status = s, !.id = NoId, !.made = "none"]
  IN IF a.crossed THEN fail("crossed_identity")
     ELSE IF a.status = "succeeded" /\ a.usage # "known" THEN fail("accounting_error")
     ELSE a

(* D0 files every call.  An answer that is another call's, whose numbers   *)
(* are not its receipt's or whose ids came before is filed as a failure,   *)
(* with its numbers and without its ids.                                   *)
Settled(r) ==
  LET a == reply[r]
      fail(s) == [a EXCEPT !.status = s, !.id = NoId, !.made = "none"]
  IN IF a.crossed THEN fail("crossed_identity")
     ELSE IF a.status = "succeeded" /\ a.usage # "known" THEN fail("accounting_error")
     ELSE IF a.id \in IdsOf(filed[r]) THEN fail("crossed_identity")
     ELSE a

FileD0(r) ==
  /\ study = "d0" /\ phase[r] = "answered"
  /\ filed' = [filed EXCEPT ![r] = Append(@, Settled(r))]
  /\ IF Settled(r).status # "succeeded" THEN Close(r, "incomplete", Settled(r).status)
     ELSE IF Position(r) = Length THEN Close(r, "completed", "none")
     ELSE Goto(r, "next") /\ reply' = [reply EXCEPT ![r] = Unset]
  /\ UNCHANGED <<study, arms, report, proof, root, asked>>

------------------------------------------------------------------------------
(* A faulty variant: any completed baseline is proof.                      *)
ProvesAny(s) == \A k \in DOMAIN s : s[k].made # "unfit"

(* The proof of a completed baseline, which is made before the report is   *)
(* written: without some repairs and some failures, all of them fit, the   *)
(* run ends here and leaves no report.                                     *)
Proves(s) ==
  /\ \A k \in DOMAIN s : s[k].made # "unfit"
  /\ {"repair", "failure"} \subseteq {s[k].made : k \in DOMAIN s}

(* The files of D0 are created and then filled.                            *)
WriteReport(r) ==
  /\ study = "d0" /\ phase[r] = "report"
  /\ IF reply[r].status = "completed" /\ ~Proves(filed[r])
       THEN Goto(r, "refused") /\ UNCHANGED report
       ELSE /\ report' = [report EXCEPT ![r] = IF @ = Unset THEN Torn ELSE reply[r]]
            /\ Goto(r, CASE report[r] = Unset -> "report"
                         [] reply[r].status = "completed" -> "proof"
                         [] OTHER -> "returned")
  /\ UNCHANGED <<study, arms, filed, proof, reply, root, asked>>

WriteProof(r) ==
  /\ phase[r] = "proof"
  /\ proof' = [proof EXCEPT ![r] = IF @ = "none" THEN "torn" ELSE "whole"]
  /\ Goto(r, IF proof[r] = "none" THEN "proof" ELSE "returned")
  /\ UNCHANGED <<study, arms, filed, report, reply, root, asked>>

(* Gate0 writes its report beside the calls, renames the directory, which  *)
(* fails when another run was first, and replays what now stands there.    *)
Publish(r) ==
  /\ study = "gate0" /\ phase[r] = "report"
  /\ IF root = Nobody
       THEN /\ root' = r /\ Goto(r, "replay")
            /\ report' = [report EXCEPT ![r] = reply[r]]
            /\ UNCHANGED filed
       ELSE /\ Goto(r, "refused")
            /\ filed' = [filed EXCEPT ![r] = << >>]
            /\ UNCHANGED <<root, report>>
  /\ UNCHANGED <<study, arms, proof, reply, asked>>

(* What the replays of the two studies accept of the files at the root.    *)
Gate0Replays(r) ==
  LET rep == report[r]
      ids == SelectSeq(filed[r], LAMBDA c : c.id # NoId)
  IN /\ \A k \in DOMAIN filed[r] : ~filed[r][k].crossed
     /\ Cardinality(IdsOf(filed[r])) = Len(ids) \/ rep.code = "duplicate_response_id"
     /\ rep.status = "completed" =>
          /\ Len(filed[r]) = Length
          /\ \A k \in DOMAIN filed[r] : filed[r][k].usage = "known"

D0Replays(r) ==
  LET rep == report[r]
      ids == SelectSeq(filed[r], LAMBDA c : c.id # NoId)
  IN /\ Cardinality(IdsOf(filed[r])) = Len(ids)
     /\ rep.total = Total(filed[r])
     /\ IF rep.status = "completed" THEN Proves(filed[r]) /\ proof[r] = "whole"
                                    ELSE proof[r] = "none"

Replays ==
  /\ root # Nobody /\ report[root] \notin {Unset, Torn}
  /\ IF study = "gate0" THEN Gate0Replays(root) ELSE D0Replays(root)

Return(r) ==
  /\ phase[r] = "replay"
  /\ Goto(r, IF Replays THEN "returned" ELSE "contested")
  /\ UNCHANGED <<study, arms, filed, report, proof, reply, root, asked>>

(* A write fails: gate0 erases what it built, D0 leaves it; neither has    *)
(* more to show.  A killed run leaves a gate0 directory nobody reads.      *)
Break(r) ==
  /\ phase[r] \in {"next", "calling", "answered", "report", "proof", "replay"}
  /\ Goto(r, "broken")
  /\ filed' = IF study = "gate0" /\ root # r THEN [filed EXCEPT ![r] = << >>] ELSE filed
  /\ UNCHANGED <<study, arms, report, proof, reply, root, asked>>

Next ==
  \E r \in Runners :
    \/ Start(r) \/ Ask(r) \/ Answer(r) \/ Raise(r) \/ Expire(r)
    \/ FileGate0(r) \/ FileD0(r) \/ WriteReport(r) \/ WriteProof(r)
    \/ Publish(r) \/ Return(r) \/ Break(r)

Spec == Init /\ [][Next]_vars

------------------------------------------------------------------------------
TypeOK ==
  /\ study \in {"gate0", "d0"}
  /\ phase \in [Runners -> {"idle", "next", "calling", "answered", "report", "proof",
                            "replay", "returned", "contested", "refused", "broken"}]
  /\ \A r \in Runners : Len(filed[r]) <= Len(asked[r]) /\ Len(asked[r]) <= Length
  /\ proof \in [Runners -> {"none", "torn", "whole"}]
  /\ root \in Runners \cup {Nobody}

(* What came of a call is what the study may count on.                     *)
Usable(h) ==
  /\ h.how = "in time" /\ ~h.answer.crossed /\ h.answer.usage = "known"
  /\ h.answer.status \in {"valid", "invalid_output", "succeeded"}

(* A study asks nothing after a call that failed: the calls it made are    *)
(* the schedule's, in its order, and all but the last were answered in     *)
(* time, by the call itself, with known numbers and new ids.               *)
FailureStopsTheStudy ==
  \A r \in Runners :
    \A k \in DOMAIN asked[r] :
      /\ asked[r][k].call = k
      /\ k < Len(asked[r]) =>
           /\ Usable(asked[r][k])
           /\ \A j \in 1 .. k - 1 : asked[r][j].answer.id # asked[r][k].answer.id

(* Evidence that a replay accepts is the run's: a completed report stands  *)
(* for a whole schedule of usable answers with distinct ids, and in gate0  *)
(* for responders that were asked what was registered; an incomplete one   *)
(* leaves out at most the call that failed, which gate0 does not file when *)
(* its executor raised or answered for another call.  D0's total of        *)
(* requests is that of the calls before it, with what it said of itself.   *)
EvidenceIsTheRun ==
  Replays =>
    LET h == asked[root]
        files == filed[root]
        Sent(s) == FoldSeq(LAMBDA c, n : c.sent + n, 0, s)
    IN /\ \A k \in DOMAIN files : h[k].how = "in time" \/ files[k] \in {Expired, Raised}
       /\ Len(files) < Len(h) =>
            /\ study = "gate0" /\ Len(files) = Len(h) - 1
            /\ report[root].code \in {"executor_error", "crossed_identity"}
       /\ study = "d0" => report[root].total = Sent(Front(h)) + Last(files).requests
       /\ report[root].status = "completed" =>
            /\ Len(h) = Length /\ Len(files) = Length
            /\ \A k \in 1 .. Length : Usable(h[k])
            /\ Cardinality({h[k].answer.id : k \in 1 .. Length}) = Length
            /\ study = "gate0" => \A a \in DOMAIN arms :
                 arms[a] = "exact" => h[2 * a - 1].answer.made = "registered"

(* A run that returned its report left evidence that is accepted from then *)
(* on, and no run finds its own evidence refused after it was put in       *)
(* place.                                                                  *)
ReturnedIsReplayable ==
  \A r \in Runners :
    /\ phase[r] = "returned" => root = r /\ Replays
    /\ phase[r] # "contested"

(* The proof of a baseline never stands without the completed report it    *)
(* was made from, and never for one that all replicates repaired or none.  *)
ProofFollowsItsReport ==
  \A r \in Runners : proof[r] # "none" =>
    /\ report[r] \notin {Unset, Torn} /\ report[r].status = "completed"
    /\ {asked[r][k].answer.made : k \in DOMAIN asked[r]} = {"repair", "failure"}
=============================================================================
