--------------------------- MODULE RecoveryProofs ---------------------------
(***************************************************************************)
(* What a stopped run leaves behind, and what a resume makes of it: of its *)
(* effects (EffectRecovery) and of its checkpoints (CheckpointStore), the  *)
(* two modules side by side.                                               *)
(*                                                                         *)
(* The effects of a run, for every plan, every number of files, crashes    *)
(* and edits, and under any of the reconciliation policies                 *)
(* (kernel/operations.py, side_effects.py, checkpointing/restore.py): the  *)
(* inductive invariant EffectInv says where the kernel may be in a node of *)
(* each kind (KernelInv), how far memory and checkpoint may be apart       *)
(* (AnnouncedInv), what receipts say of the world (the checkpoint's at all *)
(* times, those in memory while the kernel lives: TruthInv), what has not  *)
(* happened as long as nothing announced it (FreshInv), what a step in the *)
(* middle of a node relies on (WorkInv), and what is never written down    *)
(* where only strict resumes are allowed (StrictInv).                      *)
(*                                                                         *)
(* The checkpoints of a run, for any request ids, any number of attempts   *)
(* and publications, wherever the kernel or the machine stops              *)
(* (kernel/checkpointing/publication.py, storage/run_store.py): StoreInv   *)
(* says what the files say of each other and that an answered attempt      *)
(* names its own work; RunInv, of a run that is resumed by its own         *)
(* reference only, that there is a checkpoint no reference falls behind.   *)
(***************************************************************************)
EXTENDS CheckpointStore, EffectRecovery, WellFoundedInduction, TLAPS

-----------------------------------------------------------------------------
(***************************************************************************)
(* The effects of a run.                                                   *)
(***************************************************************************)

(* The steps inside a node, by the node's kind.                            *)
StepsOf(k) ==
  CASE k = "model" -> {"ask", "send", "answered"}
    [] k = "write" -> {"ask", "send", "answered", "launch", "perform", "conclude"}
    [] k = "async" -> {"start", "log", "await", "conclude"}
    [] OTHER -> {"launch", "perform", "conclude"}
Between == {"next", "finished", "off"}
Inside == {"ask", "send", "answered", "launch", "perform", "conclude", "start", "log", "await"}

KernelInv ==
  /\ frame \in [node : 0..Len(Plan), step : Between \cup Inside]
  /\ frame.step \in Inside => Here \in Nodes /\ frame.step \in StepsOf(Plan[Here])

(* Requests know three receipts and what a resume makes of an open one.    *)
AskReceipts == {"none", "launched", "completed", "abandoned"}
Mind == [asked : [Nodes -> AskReceipts], effect : [Nodes -> Receipts],
         status : [Nodes -> {"pending", "running", "completed", "recovery_blocked"}],
         handle : [Nodes -> BOOLEAN]]

Typed ==
  /\ mind \in Mind /\ durable \in Mind
  /\ policy \in {"strict", "best_effort"}
  /\ sent \in [Nodes -> 0..2] /\ ran \in [Nodes -> 0..2]
  /\ ended \in [Nodes -> {"none", "completed", "failed"}]
  /\ file \in [Nodes -> [1..FileCount -> {"before", "after", "torn", "other"}]]
  /\ process \in [Nodes -> {"none", "running", "good", "noisy", "bad"}]
  /\ result \in [Nodes -> BOOLEAN]

(* What memory takes for announced, or for not announced, the checkpoint   *)
(* takes for the same.                                                     *)
AnnouncedInv ==
  \A n \in Nodes :
    /\ mind.asked[n] = "none" <=> durable.asked[n] = "none"
    /\ mind.effect[n] = "none" <=> durable.effect[n] = "none"
    /\ mind.effect[n] = "launched" => durable.effect[n] = "launched"

(* The receipt that decides whether a node is completed, and what it says. *)
Concludes(m, n) == IF Plan[n] = "model" THEN Good(m.asked[n]) ELSE Good(m.effect[n])
Happened(n) ==
  CASE Plan[n] = "write" -> \A i \in 1..FileCount : file[n][i] = "after"
    [] Plan[n] = "model" -> sent[n] >= 1
    [] Plan[n] = "async" -> ran[n] >= 1
    [] OTHER -> ran[n] >= 1 /\ ended[n] = "completed"

Truthful(m) ==
  \A n \in Nodes :
    /\ m.status[n] = "completed" => Concludes(m, n)
    /\ Concludes(m, n) => Happened(n)

(* While the kernel lives, a node it may still take up has no end on       *)
(* record.                                                                 *)
Open(m) ==
  \A n \in Nodes :
    Plan[n] # "model" /\ m.status[n] \notin {"completed", "recovery_blocked"} =>
      m.effect[n] \in {"none", "launched"}

TruthInv ==
  /\ Truthful(durable)
  /\ ~At("off") => Truthful(mind) /\ Open(mind)
  /\ \A n \in Nodes :
       "failed" \in {mind.effect[n], durable.effect[n]} => ended[n] = "failed"

(* Nothing was sent or performed that was not announced before, and an     *)
(* asynchronous tool is only announced when it was started.                *)
FreshInv ==
  \A n \in Nodes :
    /\ sent[n] <= 1
    /\ mind.asked[n] = "none" => sent[n] = 0
    /\ Plan[n] \in {"service", "sync"} =>
         ran[n] <= 1 /\ (mind.effect[n] = "none" => ran[n] = 0)
    /\ Plan[n] = "async" /\ mind.effect[n] # "none" => ran[n] >= 1

WorkInv ==
  /\ At("send") => mind.asked[Here] = "launched" /\ sent[Here] = 0
  /\ At("answered") => mind.asked[Here] = "launched" /\ sent[Here] = 1
  /\ At("perform") \/ At("conclude") \/ At("await") => mind.effect[Here] = "launched"
  /\ At("perform") /\ Plan[Here] # "write" => ran[Here] = 0
  /\ frame.step \in {"ask", "send", "answered", "launch"} /\ Plan[Here] # "model" =>
       mind.effect[Here] \in {"none", "launched"}
  /\ At("log") => mind.effect[Here] = "none" /\ ran[Here] >= 1
  /\ At("conclude") =>
       /\ ended[Here] \in {"completed", "failed"}
       /\ ended[Here] = "completed" => Happened(Here)

Strictly(m) ==
  \A n \in Nodes :
    /\ m.asked[n] # "abandoned" /\ m.effect[n] # "abandoned"
    /\ m.status[n] = "recovery_blocked" => m.effect[n] = "failed"
StrictInv == Policies = {"strict"} => Strictly(mind) /\ Strictly(durable)

EffectInv ==
  /\ KernelInv
  /\ Typed
  /\ AnnouncedInv
  /\ TruthInv
  /\ FreshInv
  /\ WorkInv
  /\ StrictInv

-----------------------------------------------------------------------------
LEMMA PlanShape == ASSUME EffectAssumption
  PROVE /\ Len(Plan) \in Nat /\ Nodes \subseteq Nat /\ 0 \notin Nodes
        /\ \A n \in Nodes : Plan[n] \in Kinds
BY DEF EffectAssumption, Nodes, Kinds

(* A receipt, a status or a handle is written and the rest of the memory   *)
(* stays.                                                                  *)
LEMMA AskedWrites ==
  ASSUME NEW m \in Mind, NEW n \in Nodes, NEW r \in AskReceipts
  PROVE  LET w == [m EXCEPT !.asked[n] = r]
         IN  /\ w \in Mind /\ w.asked = [m.asked EXCEPT ![n] = r]
             /\ w.effect = m.effect /\ w.status = m.status /\ w.handle = m.handle
BY DEF Mind

LEMMA EffectWrites ==
  ASSUME NEW m \in Mind, NEW n \in Nodes, NEW r \in Receipts
  PROVE  LET w == [m EXCEPT !.effect[n] = r]
         IN  /\ w \in Mind /\ w.effect = [m.effect EXCEPT ![n] = r]
             /\ w.asked = m.asked /\ w.status = m.status /\ w.handle = m.handle
BY DEF Mind

LEMMA StatusWrites ==
  ASSUME NEW m \in Mind, NEW n \in Nodes, NEW s \in {"running", "completed"}
  PROVE  LET w == [m EXCEPT !.status[n] = s]
         IN  /\ w \in Mind /\ w.status = [m.status EXCEPT ![n] = s]
             /\ w.asked = m.asked /\ w.effect = m.effect /\ w.handle = m.handle
BY DEF Mind

LEMMA HandleWrites ==
  ASSUME NEW m \in Mind, NEW n \in Nodes
  PROVE  LET w == [m EXCEPT !.handle[n] = TRUE]
         IN  /\ w \in Mind
             /\ w.asked = m.asked /\ w.effect = m.effect /\ w.status = m.status
BY DEF Mind

LEMMA MindShape ==
  ASSUME NEW m \in Mind
  PROVE  /\ m.asked \in [Nodes -> AskReceipts] /\ m.effect \in [Nodes -> Receipts]
         /\ m.status \in [Nodes -> {"pending", "running", "completed", "recovery_blocked"}]
         /\ m.handle \in [Nodes -> BOOLEAN]
BY DEF Mind

(***************************************************************************)
(* Taking up a node, asking for it and concluding it.                      *)
(***************************************************************************)
LEMMA TakeUpIsSafe ==
  ASSUME EffectAssumption, EffectInv, TakeUp
  PROVE  EffectInv'
<1> USE PlanShape, MindShape
<1>1. /\ Here + 1 \in Nodes /\ At("next")
      /\ mind \in Mind /\ durable \in Mind
  BY DEF EffectInv, KernelInv, TakeUp, Nodes, Here, Typed
<1>2. /\ frame'.node = Here + 1 /\ frame' \in [node : 0..Len(Plan), step : Between \cup Inside]
      /\ frame'.step = "next" \/ frame'.step \in StepsOf(Plan[Here + 1]) \cap {"ask", "start", "launch"}
      /\ \/ frame'.step = "next" /\ mind' = mind
         \/ /\ mind.status[Here + 1] \notin {"completed", "recovery_blocked"}
            /\ mind'.status = [mind.status EXCEPT ![Here + 1] = "running"]
      /\ mind' \in Mind /\ mind'.asked = mind.asked /\ mind'.effect = mind.effect
      /\ UNCHANGED <<durable, policy, world>>
  <2> DEFINE n == Here + 1
  <2>1. CASE mind.status[n] \in {"completed", "recovery_blocked"}
    BY <1>1, <2>1 DEF TakeUp, Here, Nodes, Between, Inside
  <2>2. CASE mind.status[n] \notin {"completed", "recovery_blocked"}
    <3>1. /\ frame' = [node |-> n, step |-> FirstStep(Plan[n])]
          /\ mind' = [mind EXCEPT !.status[n] = "running"]
      BY <2>2 DEF TakeUp
    <3>2. FirstStep(Plan[n]) \in StepsOf(Plan[n]) \cap {"ask", "start", "launch"}
      BY <1>1 DEF FirstStep, StepsOf, Kinds
    <3>3. n \in 0..Len(Plan)
      BY <1>1 DEF Nodes
    <3> QED
      BY <1>1, <2>2, <3>1, <3>2, <3>3, StatusWrites DEF TakeUp, Between, Inside
  <2> QED
    BY <2>1, <2>2
<1>3. KernelInv'
  BY <1>1, <1>2 DEF EffectInv, KernelInv, Here, Inside, Between, StepsOf
<1>4. Typed'
  BY <1>1, <1>2 DEF EffectInv, Typed, world
<1>5. AnnouncedInv'
  BY <1>1, <1>2 DEF EffectInv, AnnouncedInv, Here
<1>6. TruthInv'
  <2>1. \A n \in Nodes : Happened(n)' = Happened(n)
    BY <1>2 DEF Happened, world
  <2>2. \A n \in Nodes : Concludes(mind', n) = Concludes(mind, n)
    BY <1>2 DEF Concludes
  <2>3. \A n \in Nodes :
          \/ mind'.status[n] = mind.status[n]
          \/ mind'.status[n] = "running" /\ mind.status[n] \notin {"completed", "recovery_blocked"}
    BY <1>1, <1>2
  <2>4. Truthful(mind)' /\ Open(mind)' /\ Truthful(durable)'
    BY <1>1, <1>2, <2>1, <2>2, <2>3 DEF EffectInv, TruthInv, Truthful, Open, At
  <2> QED
    BY <1>2, <2>4 DEF EffectInv, TruthInv, world
<1>7. FreshInv'
  BY <1>1, <1>2 DEF EffectInv, FreshInv, Here, Typed, Capped, world
<1>8. WorkInv'
  BY <1>1, <1>2 DEF EffectInv, WorkInv, Here, At, TruthInv, Open
<1>9. StrictInv'
  BY <1>1, <1>2 DEF EffectInv, StrictInv, Strictly, Here
<1> QED
  BY <1>3, <1>4, <1>5, <1>6, <1>7, <1>8, <1>9 DEF EffectInv

LEMMA FinishIsSafe ==
  ASSUME EffectAssumption, EffectInv, Finish
  PROVE  EffectInv'
<1> USE PlanShape, MindShape
<1>1. /\ At("next")
      /\ mind \in Mind /\ durable \in Mind
  BY DEF EffectInv, KernelInv, Finish, At, Here, StepsOf, Inside, Kinds, Typed
<1>2. /\ frame' = [frame EXCEPT !.step = "finished"]
      /\ UNCHANGED <<mind, durable, policy, world>>
  BY DEF Finish, Step
<1>3. KernelInv'
  BY <1>1, <1>2 DEF EffectInv, KernelInv, Here, Inside, Between, StepsOf
<1>4. Typed'
  BY <1>1, <1>2 DEF EffectInv, Typed, world
<1>5. AnnouncedInv'
  BY <1>1, <1>2 DEF EffectInv, AnnouncedInv, Here
<1>6. TruthInv'
  <2>1. \A n \in Nodes : Happened(n)' = Happened(n)
    BY <1>2 DEF Happened, world
  <2> QED
    BY <1>1, <1>2, <2>1
    DEF EffectInv, TruthInv, Truthful, Open, Concludes, Good, Here, At, world
<1>7. FreshInv'
  BY <1>1, <1>2 DEF EffectInv, FreshInv, Here, Typed, Capped, world
<1>8. WorkInv'
  BY <1>1, <1>2 DEF WorkInv, At
<1>9. StrictInv'
  BY <1>1, <1>2 DEF EffectInv, StrictInv, Strictly, Here
<1> QED
  BY <1>3, <1>4, <1>5, <1>6, <1>7, <1>8, <1>9 DEF EffectInv

LEMMA AskIsSafe ==
  ASSUME EffectAssumption, EffectInv, Ask
  PROVE  EffectInv'
<1> USE PlanShape, MindShape
<1>1. /\ Here \in Nodes /\ Plan[Here] \in {"model", "write"} /\ mind.asked[Here] = "none"
      /\ At("ask")
      /\ mind \in Mind /\ durable \in Mind
  BY DEF EffectInv, KernelInv, Ask, At, Here, StepsOf, Inside, Kinds, Typed
<1>2. /\ mind' \in Mind /\ mind'.asked = [mind.asked EXCEPT ![Here] = "launched"]
      /\ mind'.effect = mind.effect /\ mind'.status = mind.status
      /\ durable' = mind'
      /\ frame' = [frame EXCEPT !.step = "send"]
      /\ UNCHANGED <<policy, world>>
  BY <1>1, AskedWrites DEF Ask, Step, AskReceipts
<1>3. KernelInv'
  BY <1>1, <1>2 DEF EffectInv, KernelInv, Here, Inside, Between, StepsOf
<1>4. Typed'
  BY <1>1, <1>2 DEF EffectInv, Typed, world
<1>5. AnnouncedInv'
  BY <1>1, <1>2 DEF EffectInv, AnnouncedInv, Here
<1>6. TruthInv'
  <2>1. \A n \in Nodes : Happened(n)' = Happened(n)
    BY <1>2 DEF Happened, world
  <2> QED
    BY <1>1, <1>2, <2>1
    DEF EffectInv, TruthInv, Truthful, Open, Concludes, Good, Here, At, world
<1>7. FreshInv'
  BY <1>1, <1>2 DEF EffectInv, FreshInv, Here, Typed, Capped, world
<1>8. WorkInv'
  BY <1>1, <1>2 DEF EffectInv, WorkInv, FreshInv, Here, At, world
<1>9. StrictInv'
  BY <1>1, <1>2 DEF EffectInv, StrictInv, Strictly, Here
<1> QED
  BY <1>3, <1>4, <1>5, <1>6, <1>7, <1>8, <1>9 DEF EffectInv

LEMMA SendIsSafe ==
  ASSUME EffectAssumption, EffectInv, NEW served \in BOOLEAN, Send(served)
  PROVE  EffectInv'
<1> USE PlanShape, MindShape
<1>1. /\ Here \in Nodes /\ Plan[Here] \in {"model", "write"}
      /\ sent[Here] = 0 /\ mind.asked[Here] = "launched" /\ At("send")
      /\ mind \in Mind /\ durable \in Mind
  BY DEF EffectInv, KernelInv, Send, At, StepsOf, Inside, Typed, WorkInv
<1>2. /\ sent' = [sent EXCEPT ![Here] = 1]
      /\ frame' = [frame EXCEPT !.step = "answered"] \/ frame' = [node |-> 0, step |-> "off"]
      /\ UNCHANGED <<mind, durable, policy, ran, ended, file, process, result>>
  BY <1>1 DEF Send, Step, Stop, Capped
<1>3. KernelInv'
  BY <1>1, <1>2 DEF EffectInv, KernelInv, Here, Inside, Between, StepsOf
<1>4. Typed'
  BY <1>1, <1>2 DEF EffectInv, Typed, world
<1>5. AnnouncedInv'
  BY <1>1, <1>2 DEF EffectInv, AnnouncedInv, Here
<1>6. TruthInv'
  <2>1. \A n \in Nodes : Concludes(mind, n) \/ Concludes(durable, n) =>
                            (Happened(n) => Happened(n)')
    BY <1>1, <1>2 DEF EffectInv, AnnouncedInv, Typed, Happened, Concludes, Good
  <2>2. \A n \in Nodes : "failed" \in {mind.effect[n], durable.effect[n]} =>
                            (ended[n] = "failed" => ended'[n] = "failed")
    BY <1>1, <1>2 DEF EffectInv, AnnouncedInv, Typed
  <2> QED
    BY <1>1, <1>2, <2>1, <2>2 DEF EffectInv, TruthInv, Truthful, Open, Concludes, At
<1>7. FreshInv'
  BY <1>1, <1>2 DEF EffectInv, FreshInv, Here, Typed, Capped, world
<1>8. WorkInv'
  BY <1>1, <1>2 DEF EffectInv, WorkInv, KernelInv, Here, At, Typed
<1>9. StrictInv'
  BY <1>1, <1>2 DEF EffectInv, StrictInv, Strictly, Here
<1> QED
  BY <1>3, <1>4, <1>5, <1>6, <1>7, <1>8, <1>9 DEF EffectInv

LEMMA ReuseAnswerIsSafe ==
  ASSUME EffectAssumption, EffectInv, ReuseAnswer
  PROVE  EffectInv'
<1> USE PlanShape, MindShape
<1>1. /\ Here \in Nodes /\ At("ask") /\ Good(mind.asked[Here])
      /\ Plan[Here] \in {"model", "write"}
      /\ mind \in Mind /\ durable \in Mind
  BY DEF EffectInv, KernelInv, ReuseAnswer, At, Here, StepsOf, Inside, Kinds, Typed
<1>2. /\ mind' \in Mind /\ mind'.asked = mind.asked /\ mind'.effect = mind.effect
      /\ Plan[Here] = "model" =>
           /\ mind'.status = [mind.status EXCEPT ![Here] = "completed"]
           /\ frame' = [frame EXCEPT !.step = "next"]
      /\ Plan[Here] = "write" => mind' = mind /\ frame' = [frame EXCEPT !.step = "launch"]
      /\ UNCHANGED <<durable, policy, world>>
  <2>1. LET w == [mind EXCEPT !.status[Here] = "completed"]
        IN  /\ w \in Mind /\ w.status = [mind.status EXCEPT ![Here] = "completed"]
            /\ w.asked = mind.asked /\ w.effect = mind.effect
    BY <1>1, StatusWrites
  <2>2. CASE Plan[Here] = "model"
    BY <1>1, <2>1, <2>2 DEF ReuseAnswer, AfterAnswer, Concluded, Step
  <2>3. CASE Plan[Here] = "write"
    BY <1>1, <2>3 DEF ReuseAnswer, AfterAnswer, Step
  <2> QED
    BY <1>1, <2>2, <2>3
<1>3. KernelInv'
  BY <1>1, <1>2 DEF EffectInv, KernelInv, Here, Inside, Between, StepsOf
<1>4. Typed'
  BY <1>1, <1>2 DEF EffectInv, Typed, world
<1>5. AnnouncedInv'
  BY <1>1, <1>2 DEF EffectInv, AnnouncedInv, Here
<1>6. TruthInv'
  <2>1. \A n \in Nodes : Happened(n)' = Happened(n)
    BY <1>2 DEF Happened, world
  <2>2. \A n \in Nodes : Concludes(mind', n) /\ ~Concludes(mind, n) => n = Here /\ Happened(n)
    BY <1>1, <1>2 DEF Concludes, Good
  <2>3. \A n \in Nodes :
          \/ mind'.status[n] = mind.status[n]
          \/ n = Here /\ mind'.status[n] = "completed" /\ Concludes(mind', n)
    BY <1>1, <1>2 DEF Concludes, Good
  <2>4. Truthful(mind)' /\ Open(mind)' /\ Truthful(durable)'
    BY <1>1, <1>2, <2>1, <2>2, <2>3 DEF EffectInv, TruthInv, Truthful, Open, At, Concludes
  <2> QED
    BY <1>2, <2>4 DEF EffectInv, TruthInv, world
<1>7. FreshInv'
  BY <1>1, <1>2 DEF EffectInv, FreshInv, Here, Typed, Capped, world
<1>8. WorkInv'
  BY <1>1, <1>2 DEF EffectInv, WorkInv, KernelInv, Here, At
<1>9. StrictInv'
  BY <1>1, <1>2 DEF EffectInv, StrictInv, Strictly, Here
<1> QED
  BY <1>3, <1>4, <1>5, <1>6, <1>7, <1>8, <1>9 DEF EffectInv

LEMMA AnswerIsSafe ==
  ASSUME EffectAssumption, EffectInv, Answer
  PROVE  EffectInv'
<1> USE PlanShape, MindShape
<1>1. /\ Here \in Nodes /\ At("answered") /\ mind.asked[Here] = "launched" /\ sent[Here] = 1
      /\ Plan[Here] \in {"model", "write"}
      /\ mind \in Mind /\ durable \in Mind
  BY DEF EffectInv, KernelInv, Answer, WorkInv, At, StepsOf, Inside, Typed
<1>2. /\ mind' \in Mind /\ durable' \in Mind
      /\ mind'.asked = [mind.asked EXCEPT ![Here] = "completed"] /\ durable'.asked = mind'.asked
      /\ mind'.effect = mind.effect /\ durable'.effect = mind.effect
      /\ durable'.status = mind.status
      /\ Plan[Here] = "model" =>
           /\ mind'.status = [mind.status EXCEPT ![Here] = "completed"]
           /\ frame' = [frame EXCEPT !.step = "next"]
      /\ Plan[Here] = "write" => mind'.status = mind.status /\ frame' = [frame EXCEPT !.step = "launch"]
      /\ UNCHANGED <<policy, world>>
  <2> DEFINE m == [mind EXCEPT !.asked[Here] = "completed"]
  <2>1. /\ m \in Mind /\ m.asked = [mind.asked EXCEPT ![Here] = "completed"]
        /\ m.effect = mind.effect /\ m.status = mind.status
    BY <1>1, AskedWrites DEF AskReceipts
  <2>2. /\ durable' = m
        /\ Plan[Here] = "model" => mind' = [m EXCEPT !.status[Here] = "completed"]
        /\ Plan[Here] = "write" => mind' = m
    BY <1>1 DEF Answer, AfterAnswer, Concluded
  <2> HIDE DEF m
  <2>3. LET w == [m EXCEPT !.status[Here] = "completed"]
        IN  /\ w \in Mind /\ w.status = [m.status EXCEPT ![Here] = "completed"]
            /\ w.asked = m.asked /\ w.effect = m.effect
    BY <1>1, <2>1, StatusWrites
  <2> QED
    BY <1>1, <2>1, <2>2, <2>3 DEF Answer, AfterAnswer, Step
<1>3. KernelInv'
  BY <1>1, <1>2 DEF EffectInv, KernelInv, Here, Inside, Between, StepsOf
<1>4. Typed'
  BY <1>1, <1>2 DEF EffectInv, Typed, world
<1>5. AnnouncedInv'
  BY <1>1, <1>2 DEF EffectInv, AnnouncedInv, Here
<1>6. TruthInv'
  <2>1. \A n \in Nodes : Happened(n)' = Happened(n)
    BY <1>2 DEF Happened, world
  <2>2. \A n \in Nodes : Concludes(mind', n) /\ ~Concludes(mind, n) => n = Here /\ Happened(n)
    BY <1>1, <1>2 DEF Concludes, Good, Happened
  <2>3. \A n \in Nodes :
          \/ mind'.status[n] = mind.status[n]
          \/ n = Here /\ mind'.status[n] = "completed" /\ Concludes(mind', n)
    BY <1>1, <1>2 DEF Concludes, Good
  <2>4. Truthful(mind)' /\ Open(mind)' /\ Truthful(durable)'
    BY <1>1, <1>2, <2>1, <2>2, <2>3 DEF EffectInv, TruthInv, Truthful, Open, At, Concludes, Good
  <2> QED
    BY <1>2, <2>4 DEF EffectInv, TruthInv, world
<1>7. FreshInv'
  BY <1>1, <1>2 DEF EffectInv, FreshInv, Here, Typed, Capped, world
<1>8. WorkInv'
  BY <1>1, <1>2 DEF EffectInv, WorkInv, KernelInv, Here, At
<1>9. StrictInv'
  BY <1>1, <1>2 DEF EffectInv, StrictInv, Strictly, Here
<1> QED
  BY <1>3, <1>4, <1>5, <1>6, <1>7, <1>8, <1>9 DEF EffectInv

-----------------------------------------------------------------------------
(* Announcing and performing an effect.                                    *)

LEMMA LaunchIsSafe ==
  ASSUME EffectAssumption, EffectInv, Launch
  PROVE  EffectInv'
<1> USE PlanShape, MindShape
<1>1. /\ Here \in Nodes /\ At("launch") /\ mind.effect[Here] = "none"
      /\ Plan[Here] \in {"write", "service", "sync"}
      /\ mind \in Mind /\ durable \in Mind
  BY DEF EffectInv, KernelInv, Launch, At, Here, StepsOf, Inside, Kinds, Typed
<1>2. /\ mind' \in Mind /\ mind'.effect = [mind.effect EXCEPT ![Here] = "launched"]
      /\ mind'.asked = mind.asked /\ mind'.status = mind.status
      /\ durable' = mind'
      /\ frame' = [frame EXCEPT !.step = "perform"]
      /\ UNCHANGED <<policy, world>>
  BY <1>1, EffectWrites DEF Launch, Step, Receipts
<1>3. KernelInv'
  BY <1>1, <1>2 DEF EffectInv, KernelInv, Here, Inside, Between, StepsOf
<1>4. Typed'
  BY <1>1, <1>2 DEF EffectInv, Typed, world
<1>5. AnnouncedInv'
  BY <1>1, <1>2 DEF EffectInv, AnnouncedInv, Here
<1>6. TruthInv'
  <2>1. \A n \in Nodes : Happened(n)' = Happened(n)
    BY <1>2 DEF Happened, world
  <2> QED
    BY <1>1, <1>2, <2>1
    DEF EffectInv, TruthInv, Truthful, Open, Concludes, Good, Here, At, world
<1>7. FreshInv'
  BY <1>1, <1>2 DEF EffectInv, FreshInv, Here, Typed, Capped, world
<1>8. WorkInv'
  BY <1>1, <1>2 DEF EffectInv, WorkInv, FreshInv, Here, At, world
<1>9. StrictInv'
  BY <1>1, <1>2 DEF EffectInv, StrictInv, Strictly, Here
<1> QED
  BY <1>3, <1>4, <1>5, <1>6, <1>7, <1>8, <1>9 DEF EffectInv

LEMMA RelaunchIsSafe ==
  ASSUME EffectAssumption, EffectInv, Relaunch
  PROVE  EffectInv'
<1> USE PlanShape, MindShape
<1>1. /\ Here \in Nodes /\ At("launch") /\ mind.effect[Here] = "launched"
      /\ Plan[Here] \in {"write", "service", "sync"}
      /\ mind \in Mind /\ durable \in Mind
  BY DEF EffectInv, KernelInv, Relaunch, WorkInv, At, StepsOf, Inside, Kinds, Typed
<1>2. /\ \/ Plan[Here] = "write" /\ frame' = [frame EXCEPT !.step = "perform"]
         \/ frame' = [node |-> 0, step |-> "off"]
      /\ UNCHANGED <<mind, durable, policy, world>>
  BY <1>1 DEF Relaunch, Step, Stop
<1>3. KernelInv'
  BY <1>1, <1>2 DEF EffectInv, KernelInv, Here, Inside, Between, StepsOf
<1>4. Typed'
  BY <1>1, <1>2 DEF EffectInv, Typed, world
<1>5. AnnouncedInv'
  BY <1>1, <1>2 DEF EffectInv, AnnouncedInv, Here
<1>6. TruthInv'
  <2>1. \A n \in Nodes : Happened(n)' = Happened(n)
    BY <1>2 DEF Happened, world
  <2> QED
    BY <1>1, <1>2, <2>1
    DEF EffectInv, TruthInv, Truthful, Open, Concludes, Good, Here, At, world
<1>7. FreshInv'
  BY <1>1, <1>2 DEF EffectInv, FreshInv, Here, Typed, Capped, world
<1>8. WorkInv'
  BY <1>1, <1>2 DEF EffectInv, WorkInv, FreshInv, KernelInv, Here, At
<1>9. StrictInv'
  BY <1>1, <1>2 DEF EffectInv, StrictInv, Strictly, Here
<1> QED
  BY <1>3, <1>4, <1>5, <1>6, <1>7, <1>8, <1>9 DEF EffectInv

LEMMA WriteFileIsSafe ==
  ASSUME EffectAssumption, EffectInv, WriteFile
  PROVE  EffectInv'
<1> USE PlanShape, MindShape
<1>1. /\ Here \in Nodes /\ At("perform") /\ mind.effect[Here] = "launched"
      /\ durable.effect[Here] = "launched" /\ Plan[Here] = "write"
      /\ mind \in Mind /\ durable \in Mind
  BY DEF EffectInv, KernelInv, WriteFile, WorkInv, AnnouncedInv, At, Inside, Typed
<1>2. /\ file' \in [Nodes -> [1..FileCount -> {"before", "after", "torn", "other"}]]
      /\ \A n \in Nodes \ {Here} : file'[n] = file[n]
      /\ UNCHANGED <<frame, mind, durable, policy, sent, ran, ended, process, result>>
  <2> DEFINE i == Cardinality(Written(Here)) + 1
  <2>1. file' = [file EXCEPT ![Here][i] = "after"] \/ file' = [file EXCEPT ![Here][i] = "torn"]
    BY DEF WriteFile
  <2> HIDE DEF i
  <2>2. file \in [Nodes -> [1..FileCount -> {"before", "after", "torn", "other"}]]
    BY DEF EffectInv, Typed
  <2>3. PICK s \in {"after", "torn"} : file' = [file EXCEPT ![Here] = [file[Here] EXCEPT ![i] = s]]
    BY <2>1
  <2>4. [file[Here] EXCEPT ![i] = s] \in [1..FileCount -> {"before", "after", "torn", "other"}]
    BY <1>1, <2>2
  <2> QED
    BY <1>1, <2>2, <2>3, <2>4 DEF WriteFile
<1>3. KernelInv'
  BY <1>1, <1>2 DEF EffectInv, KernelInv, Here, Inside, Between, StepsOf
<1>4. Typed'
  BY <1>1, <1>2 DEF EffectInv, Typed, world
<1>5. AnnouncedInv'
  BY <1>1, <1>2 DEF EffectInv, AnnouncedInv, Here
<1>6. TruthInv'
  <2>1. \A n \in Nodes : Concludes(mind, n) \/ Concludes(durable, n) =>
                            (Happened(n) => Happened(n)')
    BY <1>1, <1>2 DEF EffectInv, AnnouncedInv, Typed, Happened, Concludes, Good
  <2>2. \A n \in Nodes : "failed" \in {mind.effect[n], durable.effect[n]} =>
                            (ended[n] = "failed" => ended'[n] = "failed")
    BY <1>1, <1>2 DEF EffectInv, AnnouncedInv, Typed
  <2> QED
    BY <1>1, <1>2, <2>1, <2>2 DEF EffectInv, TruthInv, Truthful, Open, Concludes, At
<1>7. FreshInv'
  BY <1>1, <1>2 DEF EffectInv, FreshInv, Here, Typed, Capped, world
<1>8. WorkInv'
  BY <1>1, <1>2 DEF WorkInv, Here, At
<1>9. StrictInv'
  BY <1>1, <1>2 DEF EffectInv, StrictInv, Strictly, Here
<1> QED
  BY <1>3, <1>4, <1>5, <1>6, <1>7, <1>8, <1>9 DEF EffectInv

LEMMA WriteEndsIsSafe ==
  ASSUME EffectAssumption, EffectInv, NEW end \in {"completed", "failed"}, WriteEnds(end)
  PROVE  EffectInv'
<1> USE PlanShape, MindShape
<1>1. /\ Here \in Nodes /\ At("perform") /\ mind.effect[Here] = "launched"
      /\ durable.effect[Here] = "launched" /\ Plan[Here] = "write"
      /\ mind \in Mind /\ durable \in Mind
  BY DEF EffectInv, KernelInv, WriteEnds, WorkInv, AnnouncedInv, At, Inside, Typed
<1>2. /\ ended' = [ended EXCEPT ![Here] = end]
      /\ frame' = [frame EXCEPT !.step = "conclude"]
      /\ end = "completed" => Happened(Here)
      /\ UNCHANGED <<mind, durable, policy, sent, ran, file, process, result>>
  BY <1>1 DEF WriteEnds, Step, Written, Happened
<1>3. KernelInv'
  BY <1>1, <1>2 DEF EffectInv, KernelInv, Here, Inside, Between, StepsOf
<1>4. Typed'
  BY <1>1, <1>2 DEF EffectInv, Typed, world
<1>5. AnnouncedInv'
  BY <1>1, <1>2 DEF EffectInv, AnnouncedInv, Here
<1>6. TruthInv'
  <2>1. \A n \in Nodes : Concludes(mind, n) \/ Concludes(durable, n) =>
                            (Happened(n) => Happened(n)')
    BY <1>1, <1>2 DEF EffectInv, AnnouncedInv, Typed, Happened, Concludes, Good
  <2>2. \A n \in Nodes : "failed" \in {mind.effect[n], durable.effect[n]} =>
                            (ended[n] = "failed" => ended'[n] = "failed")
    BY <1>1, <1>2 DEF EffectInv, AnnouncedInv, Typed
  <2> QED
    BY <1>1, <1>2, <2>1, <2>2 DEF EffectInv, TruthInv, Truthful, Open, Concludes, At
<1>7. FreshInv'
  BY <1>1, <1>2 DEF EffectInv, FreshInv, Here, Typed, Capped, world
<1>8. WorkInv'
  BY <1>1, <1>2 DEF EffectInv, WorkInv, Happened, Here, At, Typed
<1>9. StrictInv'
  BY <1>1, <1>2 DEF EffectInv, StrictInv, Strictly, Here
<1> QED
  BY <1>3, <1>4, <1>5, <1>6, <1>7, <1>8, <1>9 DEF EffectInv

LEMMA CallIsSafe ==
  ASSUME EffectAssumption, EffectInv, NEW end \in {"completed", "failed"}, Call(end)
  PROVE  EffectInv'
<1> USE PlanShape, MindShape
<1>1. /\ Here \in Nodes /\ At("perform") /\ mind.effect[Here] = "launched"
      /\ durable.effect[Here] = "launched" /\ Plan[Here] \in {"service", "sync"} /\ ran[Here] = 0
      /\ mind \in Mind /\ durable \in Mind
  BY DEF EffectInv, KernelInv, Call, WorkInv, AnnouncedInv, At, Inside, Typed
<1>2. /\ ended' = [ended EXCEPT ![Here] = end]
      /\ ran' = [ran EXCEPT ![Here] = 1]
      /\ frame' = [frame EXCEPT !.step = "conclude"]
      /\ UNCHANGED <<mind, durable, policy, sent, file, process, result>>
  BY <1>1 DEF Call, Step, Capped
<1>3. KernelInv'
  BY <1>1, <1>2 DEF EffectInv, KernelInv, Here, Inside, Between, StepsOf
<1>4. Typed'
  BY <1>1, <1>2 DEF EffectInv, Typed, world
<1>5. AnnouncedInv'
  BY <1>1, <1>2 DEF EffectInv, AnnouncedInv, Here
<1>6. TruthInv'
  <2>1. \A n \in Nodes : Concludes(mind, n) \/ Concludes(durable, n) =>
                            (Happened(n) => Happened(n)')
    BY <1>1, <1>2 DEF EffectInv, AnnouncedInv, Typed, Happened, Concludes, Good
  <2>2. \A n \in Nodes : "failed" \in {mind.effect[n], durable.effect[n]} =>
                            (ended[n] = "failed" => ended'[n] = "failed")
    BY <1>1, <1>2 DEF EffectInv, AnnouncedInv, Typed
  <2> QED
    BY <1>1, <1>2, <2>1, <2>2 DEF EffectInv, TruthInv, Truthful, Open, Concludes, At
<1>7. FreshInv'
  BY <1>1, <1>2 DEF EffectInv, FreshInv, Here, Typed, Capped, world
<1>8. WorkInv'
  BY <1>1, <1>2 DEF EffectInv, WorkInv, Happened, Here, At, Typed
<1>9. StrictInv'
  BY <1>1, <1>2 DEF EffectInv, StrictInv, Strictly, Here
<1> QED
  BY <1>3, <1>4, <1>5, <1>6, <1>7, <1>8, <1>9 DEF EffectInv

LEMMA CallRaisesIsSafe ==
  ASSUME EffectAssumption, EffectInv, CallRaises
  PROVE  EffectInv'
<1> USE PlanShape, MindShape
<1>1. /\ Here \in Nodes /\ At("perform") /\ mind.effect[Here] = "launched"
      /\ durable.effect[Here] = "launched" /\ Plan[Here] = "sync" /\ ran[Here] = 0
      /\ mind \in Mind /\ durable \in Mind
  BY DEF EffectInv, KernelInv, CallRaises, WorkInv, AnnouncedInv, At, Inside, Typed
<1>2. /\ ended' = [ended EXCEPT ![Here] = "failed"]
      /\ ran' = [ran EXCEPT ![Here] = 1]
      /\ frame' = [node |-> 0, step |-> "off"]
      /\ UNCHANGED <<mind, durable, policy, sent, file, process, result>>
  BY <1>1 DEF CallRaises, Stop, Capped
<1>3. KernelInv'
  BY <1>1, <1>2 DEF EffectInv, KernelInv, Here, Inside, Between, StepsOf
<1>4. Typed'
  BY <1>1, <1>2 DEF EffectInv, Typed, world
<1>5. AnnouncedInv'
  BY <1>1, <1>2 DEF EffectInv, AnnouncedInv, Here
<1>6. TruthInv'
  <2>1. \A n \in Nodes : Concludes(mind, n) \/ Concludes(durable, n) =>
                            (Happened(n) => Happened(n)')
    BY <1>1, <1>2 DEF EffectInv, AnnouncedInv, Typed, Happened, Concludes, Good
  <2>2. \A n \in Nodes : "failed" \in {mind.effect[n], durable.effect[n]} =>
                            (ended[n] = "failed" => ended'[n] = "failed")
    BY <1>1, <1>2 DEF EffectInv, AnnouncedInv, Typed
  <2> QED
    BY <1>1, <1>2, <2>1, <2>2 DEF EffectInv, TruthInv, Truthful, Open, Concludes, At
<1>7. FreshInv'
  BY <1>1, <1>2 DEF EffectInv, FreshInv, Here, Typed, Capped, world
<1>8. WorkInv'
  BY <1>1, <1>2 DEF WorkInv, At
<1>9. StrictInv'
  BY <1>1, <1>2 DEF EffectInv, StrictInv, Strictly, Here
<1> QED
  BY <1>3, <1>4, <1>5, <1>6, <1>7, <1>8, <1>9 DEF EffectInv

LEMMA ConcludeIsSafe ==
  ASSUME EffectAssumption, EffectInv, ConcludeEffect
  PROVE  EffectInv'
<1> USE PlanShape, MindShape
<1>1. /\ Here \in Nodes /\ At("conclude") /\ mind.effect[Here] = "launched"
      /\ ended[Here] \in {"completed", "failed"} /\ Plan[Here] \in Kinds \ {"model"}
      /\ ended[Here] = "completed" => Happened(Here)
      /\ mind \in Mind /\ durable \in Mind
  BY DEF EffectInv, KernelInv, ConcludeEffect, WorkInv, At, StepsOf, Inside, Typed
<1>2. /\ mind' \in Mind /\ durable' \in Mind
      /\ mind'.effect = [mind.effect EXCEPT ![Here] = ended[Here]] /\ durable'.effect = mind'.effect
      /\ mind'.asked = mind.asked /\ durable'.asked = mind.asked /\ durable'.status = mind.status
      /\ ended[Here] = "completed" =>
           /\ mind'.status = [mind.status EXCEPT ![Here] = "completed"]
           /\ frame' = [frame EXCEPT !.step = "next"]
      /\ ended[Here] = "failed" => mind'.status = mind.status /\ frame' = [node |-> 0, step |-> "off"]
      /\ UNCHANGED <<policy, world>>
  <2> DEFINE m == [mind EXCEPT !.effect[Here] = ended[Here]]
  <2>1. /\ m \in Mind /\ m.effect = [mind.effect EXCEPT ![Here] = ended[Here]]
        /\ m.asked = mind.asked /\ m.status = mind.status
    <3>1. ended[Here] \in Receipts
      BY <1>1 DEF Receipts
    <3> QED
      BY <1>1, <3>1, EffectWrites
  <2>2. /\ durable' = m
        /\ ended[Here] = "completed" => mind' = [m EXCEPT !.status[Here] = "completed"]
        /\ ended[Here] = "failed" => mind' = m
    BY <1>1 DEF ConcludeEffect, Concluded
  <2> HIDE DEF m
  <2>3. LET w == [m EXCEPT !.status[Here] = "completed"]
        IN  /\ w \in Mind /\ w.status = [m.status EXCEPT ![Here] = "completed"]
            /\ w.asked = m.asked /\ w.effect = m.effect
    BY <1>1, <2>1, StatusWrites
  <2> QED
    BY <1>1, <2>1, <2>2, <2>3 DEF ConcludeEffect, Step, Stop
<1>3. KernelInv'
  BY <1>1, <1>2 DEF EffectInv, KernelInv, Here, Inside, Between, StepsOf
<1>4. Typed'
  BY <1>1, <1>2 DEF EffectInv, Typed, world
<1>5. AnnouncedInv'
  BY <1>1, <1>2 DEF EffectInv, AnnouncedInv, Here
<1>6. TruthInv'
  <2>1. \A n \in Nodes : Happened(n)' = Happened(n)
    BY <1>2 DEF Happened, world
  <2>2. \A n \in Nodes : Concludes(mind', n) /\ ~Concludes(mind, n) => n = Here /\ Happened(n)
    BY <1>1, <1>2 DEF Concludes, Good
  <2>3. \A n \in Nodes : Concludes(mind, n) \/ Concludes(durable', n) => Concludes(mind', n)
    BY <1>1, <1>2 DEF Concludes, Good
  <2>4. \A n \in Nodes :
          \/ mind'.status[n] = mind.status[n]
          \/ n = Here /\ mind'.status[n] = "completed" /\ Concludes(mind', n)
    BY <1>1, <1>2 DEF Concludes, Good
  <2>5. \A n \in Nodes : Concludes(durable', n) = Concludes(mind', n)
    BY <1>2 DEF Concludes
  <2>6. Truthful(mind)' /\ Truthful(durable)'
    BY <1>1, <1>2, <2>1, <2>2, <2>3, <2>4, <2>5 DEF EffectInv, TruthInv, Truthful, At
  <2>7. ~At("off")' => Open(mind)'
    BY <1>1, <1>2 DEF EffectInv, TruthInv, Open, At
  <2>8. \A n \in Nodes : "failed" \in {mind'.effect[n], durable'.effect[n]} => ended[n] = "failed"
    BY <1>1, <1>2 DEF EffectInv, TruthInv
  <2> QED
    BY <1>2, <2>6, <2>7, <2>8 DEF TruthInv, world
<1>7. FreshInv'
  BY <1>1, <1>2 DEF EffectInv, FreshInv, Here, Typed, Capped, world
<1>8. WorkInv'
  BY <1>1, <1>2 DEF EffectInv, WorkInv, KernelInv, At
<1>9. StrictInv'
  BY <1>1, <1>2 DEF EffectInv, StrictInv, Strictly, Here
<1> QED
  BY <1>3, <1>4, <1>5, <1>6, <1>7, <1>8, <1>9 DEF EffectInv

-----------------------------------------------------------------------------
(* Asynchronous tools.                                                     *)

LEMMA StartAsyncIsSafe ==
  ASSUME EffectAssumption, EffectInv, StartAsync
  PROVE  EffectInv'
<1> USE PlanShape, MindShape
<1>1. /\ Here \in Nodes /\ At("start") /\ Plan[Here] = "async" /\ mind.effect[Here] = "none"
      /\ mind \in Mind /\ durable \in Mind
  BY DEF EffectInv, KernelInv, StartAsync, At, Here, StepsOf, Inside, Kinds, Typed
<1>2. /\ mind' \in Mind /\ mind'.asked = mind.asked /\ mind'.effect = mind.effect /\ mind'.status = mind.status
      /\ ran' = [ran EXCEPT ![Here] = Capped(ran[Here])]
      /\ process' = [process EXCEPT ![Here] = "running"]
      /\ result' = [result EXCEPT ![Here] = FALSE]
      /\ frame' = [frame EXCEPT !.step = "log"]
      /\ UNCHANGED <<durable, policy, sent, ended, file>>
  BY <1>1, HandleWrites DEF StartAsync, Step
<1>3. KernelInv'
  BY <1>1, <1>2 DEF EffectInv, KernelInv, Here, Inside, Between, StepsOf
<1>4. Typed'
  BY <1>1, <1>2 DEF EffectInv, Typed, world, Capped
<1>5. AnnouncedInv'
  BY <1>1, <1>2 DEF EffectInv, AnnouncedInv, Here
<1>6. TruthInv'
  <2>1. \A n \in Nodes : Concludes(mind, n) \/ Concludes(durable, n) =>
                            (Happened(n) => Happened(n)')
    BY <1>1, <1>2 DEF EffectInv, AnnouncedInv, Happened, Concludes, Good
  <2>2. \A n \in Nodes : "failed" \in {mind.effect[n], durable.effect[n]} =>
                            (ended[n] = "failed" => ended'[n] = "failed")
    BY <1>1, <1>2 DEF EffectInv, AnnouncedInv, Typed
  <2> QED
    BY <1>1, <1>2, <2>1, <2>2 DEF EffectInv, TruthInv, Truthful, Open, Concludes, At
<1>7. FreshInv'
  BY <1>1, <1>2 DEF EffectInv, FreshInv, Here, Typed, Capped, world
<1>8. WorkInv'
  <2>1. ran[Here] \in {0, 1, 2} /\ ran'[Here] = Capped(ran[Here])
    BY <1>1, <1>2 DEF EffectInv, Typed
  <2>2. ran'[Here] >= 1
    BY <2>1 DEF Capped
  <2> QED
    BY <1>1, <1>2, <2>2 DEF EffectInv, WorkInv, KernelInv, Here, At
<1>9. StrictInv'
  BY <1>1, <1>2 DEF EffectInv, StrictInv, Strictly, Here
<1> QED
  BY <1>3, <1>4, <1>5, <1>6, <1>7, <1>8, <1>9 DEF EffectInv

LEMMA LogAsyncIsSafe ==
  ASSUME EffectAssumption, EffectInv, LogAsync
  PROVE  EffectInv'
<1> USE PlanShape, MindShape
<1>1. /\ Here \in Nodes /\ At("log") /\ Plan[Here] = "async" /\ mind.effect[Here] = "none" /\ ran[Here] >= 1
      /\ mind \in Mind /\ durable \in Mind
  BY DEF EffectInv, KernelInv, LogAsync, WorkInv, At, StepsOf, Inside, Typed
<1>2. /\ mind' \in Mind /\ mind'.effect = [mind.effect EXCEPT ![Here] = "launched"]
      /\ mind'.asked = mind.asked /\ mind'.status = mind.status
      /\ durable' = mind'
      /\ frame' = [frame EXCEPT !.step = "await"]
      /\ UNCHANGED <<policy, world>>
  BY <1>1, EffectWrites DEF LogAsync, Step, Receipts
<1>3. KernelInv'
  BY <1>1, <1>2 DEF EffectInv, KernelInv, Here, Inside, Between, StepsOf
<1>4. Typed'
  BY <1>1, <1>2 DEF EffectInv, Typed, world
<1>5. AnnouncedInv'
  BY <1>1, <1>2 DEF EffectInv, AnnouncedInv, Here
<1>6. TruthInv'
  <2>1. \A n \in Nodes : Happened(n)' = Happened(n)
    BY <1>2 DEF Happened, world
  <2> QED
    BY <1>1, <1>2, <2>1
    DEF EffectInv, TruthInv, Truthful, Open, Concludes, Good, Here, At, world
<1>7. FreshInv'
  BY <1>1, <1>2 DEF EffectInv, FreshInv, Here, Typed, Capped, world
<1>8. WorkInv'
  BY <1>1, <1>2 DEF WorkInv, Here, At
<1>9. StrictInv'
  BY <1>1, <1>2 DEF EffectInv, StrictInv, Strictly, Here
<1> QED
  BY <1>3, <1>4, <1>5, <1>6, <1>7, <1>8, <1>9 DEF EffectInv

LEMMA AwaitAsyncIsSafe ==
  ASSUME EffectAssumption, EffectInv, AwaitAsync
  PROVE  EffectInv'
<1> USE PlanShape, MindShape
<1>1. /\ Here \in Nodes /\ At("await") /\ Plan[Here] = "async" /\ mind.effect[Here] = "launched"
      /\ durable.effect[Here] = "launched" /\ ran[Here] >= 1
      /\ mind \in Mind /\ durable \in Mind
  BY
  DEF EffectInv, KernelInv, AwaitAsync, WorkInv, AnnouncedInv, FreshInv, At, StepsOf, Inside,
      Typed
<1>2. /\ result' \in [Nodes -> BOOLEAN]
      /\ ended' \in [Nodes -> {"none", "completed", "failed"}]
      /\ \/ ended'[Here] = "completed" /\ frame' = [frame EXCEPT !.step = "conclude"]
         \/ frame' = [node |-> 0, step |-> "off"]
      /\ \A n \in Nodes \ {Here} : ended'[n] = ended[n]
      /\ UNCHANGED <<mind, durable, policy, sent, ran, file, process>>
  BY <1>1 DEF AwaitAsync, Step, Stop, EffectInv, Typed
<1>3. KernelInv'
  BY <1>1, <1>2 DEF EffectInv, KernelInv, Here, Inside, Between, StepsOf
<1>4. Typed'
  BY <1>1, <1>2 DEF EffectInv, Typed, world
<1>5. AnnouncedInv'
  BY <1>1, <1>2 DEF EffectInv, AnnouncedInv, Here
<1>6. TruthInv'
  <2>1. \A n \in Nodes : Concludes(mind, n) \/ Concludes(durable, n) =>
                            (Happened(n) => Happened(n)')
    BY <1>1, <1>2 DEF EffectInv, AnnouncedInv, Typed, Happened, Concludes, Good
  <2>2. \A n \in Nodes : "failed" \in {mind.effect[n], durable.effect[n]} =>
                            (ended[n] = "failed" => ended'[n] = "failed")
    BY <1>1, <1>2 DEF EffectInv, AnnouncedInv, Typed
  <2> QED
    BY <1>1, <1>2, <2>1, <2>2 DEF EffectInv, TruthInv, Truthful, Open, Concludes, At
<1>7. FreshInv'
  BY <1>1, <1>2 DEF EffectInv, FreshInv, Here, Typed, Capped, world
<1>8. WorkInv'
  <2>1. \A n \in Nodes : Plan[n] = "async" /\ mind.effect[n] # "none" => Happened(n)'
    BY <1>2 DEF EffectInv, FreshInv, Happened
  <2>2. CASE frame'.step = "off"
    BY <2>2 DEF WorkInv, At
  <2>3. CASE /\ frame'.step = "conclude" /\ frame'.node = Here
             /\ \/ ended'[Here] = "completed" /\ mind' = mind
    <3>1. Happened(Here)'
      BY <1>1, <2>1, <2>3 DEF Here
    <3> QED
      BY <1>1, <2>3, <3>1 DEF WorkInv, At, Here
  <2> QED
    BY <1>1, <1>2, <2>2, <2>3 DEF EffectInv, KernelInv, Here
<1>9. StrictInv'
  BY <1>1, <1>2 DEF EffectInv, StrictInv, Strictly, Here
<1> QED
  BY <1>3, <1>4, <1>5, <1>6, <1>7, <1>8, <1>9 DEF EffectInv

LEMMA ProcessEndsIsSafe ==
  ASSUME EffectAssumption, EffectInv, NEW n \in Nodes, NEW how \in {"good", "noisy", "bad"},
         ProcessEnds(n, how)
  PROVE  EffectInv'
<1> USE PlanShape, MindShape
<1>1. /\ mind \in Mind /\ durable \in Mind
  BY DEF EffectInv, Typed
<1>2. /\ process' = [process EXCEPT ![n] = how]
      /\ UNCHANGED <<frame, mind, durable, policy, sent, ran, ended, file, result>>
  BY DEF ProcessEnds
<1>3. KernelInv'
  BY <1>1, <1>2 DEF EffectInv, KernelInv, Here, Inside, Between, StepsOf
<1>4. Typed'
  BY <1>1, <1>2 DEF EffectInv, Typed, world
<1>5. AnnouncedInv'
  BY <1>1, <1>2 DEF EffectInv, AnnouncedInv, Here
<1>6. TruthInv'
  <2>1. \A m \in Nodes : Concludes(mind, m) \/ Concludes(durable, m) =>
                            (Happened(m) => Happened(m)')
    BY <1>1, <1>2 DEF EffectInv, AnnouncedInv, Typed, Happened, Concludes, Good
  <2>2. \A m \in Nodes : "failed" \in {mind.effect[m], durable.effect[m]} =>
                            (ended[m] = "failed" => ended'[m] = "failed")
    BY <1>1, <1>2 DEF EffectInv, AnnouncedInv, Typed
  <2> QED
    BY <1>1, <1>2, <2>1, <2>2 DEF EffectInv, TruthInv, Truthful, Open, Concludes, At
<1>7. FreshInv'
  BY <1>1, <1>2 DEF EffectInv, FreshInv, Here, Typed, Capped, world
<1>8. WorkInv'
  BY <1>1, <1>2 DEF EffectInv, WorkInv, Happened, Here, At
<1>9. StrictInv'
  BY <1>1, <1>2 DEF EffectInv, StrictInv, Strictly, Here
<1> QED
  BY <1>3, <1>4, <1>5, <1>6, <1>7, <1>8, <1>9 DEF EffectInv

-----------------------------------------------------------------------------
(* Crashes, edits and resumes.                                             *)

LEMMA CrashIsSafe ==
  ASSUME EffectAssumption, EffectInv, Crash
  PROVE  EffectInv'
<1> USE PlanShape, MindShape
<1>1. /\ mind \in Mind /\ durable \in Mind
  BY DEF EffectInv, Typed
<1>2. /\ frame' = [node |-> 0, step |-> "off"]
      /\ UNCHANGED <<mind, durable, policy, world>>
  BY DEF Crash, Stop
<1>3. KernelInv'
  BY <1>1, <1>2 DEF EffectInv, KernelInv, Here, Inside, Between, StepsOf
<1>4. Typed'
  BY <1>1, <1>2 DEF EffectInv, Typed, world
<1>5. AnnouncedInv'
  BY <1>1, <1>2 DEF EffectInv, AnnouncedInv, Here
<1>6. TruthInv'
  <2>1. \A n \in Nodes : Happened(n)' = Happened(n)
    BY <1>2 DEF Happened, world
  <2> QED
    BY <1>1, <1>2, <2>1
    DEF EffectInv, TruthInv, Truthful, Open, Concludes, Good, Here, At, world
<1>7. FreshInv'
  BY <1>1, <1>2 DEF EffectInv, FreshInv, Here, Typed, Capped, world
<1>8. WorkInv'
  BY <1>1, <1>2 DEF WorkInv, At
<1>9. StrictInv'
  BY <1>1, <1>2 DEF EffectInv, StrictInv, Strictly, Here
<1> QED
  BY <1>3, <1>4, <1>5, <1>6, <1>7, <1>8, <1>9 DEF EffectInv

LEMMA EditIsSafe ==
  ASSUME EffectAssumption, EffectInv, NEW n \in Nodes, NEW i \in 1..FileCount, Edit(n, i)
  PROVE  EffectInv'
<1> USE PlanShape, MindShape
<1>1. /\ At("off") /\ Plan[n] = "write" /\ durable.effect[n] \in {"none", "launched"}
      /\ mind \in Mind /\ durable \in Mind
  BY DEF EffectInv, Typed, Edit
<1>2. /\ file' \in [Nodes -> [1..FileCount -> {"before", "after", "torn", "other"}]]
      /\ \A k \in Nodes \ {n} : file'[k] = file[k]
      /\ UNCHANGED <<frame, mind, durable, policy, sent, ran, ended, process, result>>
  BY DEF Edit, EffectInv, Typed
<1>3. KernelInv'
  BY <1>1, <1>2 DEF EffectInv, KernelInv, Here, Inside, Between, StepsOf
<1>4. Typed'
  BY <1>1, <1>2 DEF EffectInv, Typed, world
<1>5. AnnouncedInv'
  BY <1>1, <1>2 DEF EffectInv, AnnouncedInv, Here
<1>6. TruthInv'
  <2>1. \A k \in Nodes : Concludes(durable, k) => (Happened(k) => Happened(k)')
    BY <1>1, <1>2 DEF Happened, Concludes, Good
  <2> QED
    BY <1>1, <1>2, <2>1 DEF EffectInv, TruthInv, Truthful, Concludes, At
<1>7. FreshInv'
  BY <1>1, <1>2 DEF EffectInv, FreshInv, Here, Typed, Capped, world
<1>8. WorkInv'
  BY <1>1, <1>2 DEF WorkInv, At
<1>9. StrictInv'
  BY <1>1, <1>2 DEF EffectInv, StrictInv, Strictly, Here
<1> QED
  BY <1>3, <1>4, <1>5, <1>6, <1>7, <1>8, <1>9 DEF EffectInv

(* What becomes of a receipt when an attempt is resumed: all but an open   *)
(* one is kept, and an open one is reconciled only if the world shows its  *)
(* effect.                                                                 *)
LEMMA ReceiptsAfter ==
  ASSUME EffectAssumption, EffectInv, NEW n \in Nodes
  PROVE  /\ AskedAfter(n) \in AskReceipts /\ EffectAfter(n) \in Receipts
         /\ AskedAfter(n) = "none" <=> durable.asked[n] = "none"
         /\ Good(AskedAfter(n)) => Good(durable.asked[n])
         /\ Good(SeenAsked(n)) \/ Good(durable.asked[n]) => Good(AskedAfter(n))
         /\ AskedAfter(n) # "launched"
         /\ AskedAfter(n) = "abandoned" /\ durable.asked[n] # "abandoned" => Uncertain(n)
         /\ EffectAfter(n) = "none" <=> durable.effect[n] = "none"
         /\ EffectAfter(n) = "launched" => durable.effect[n] = "launched"
         /\ EffectAfter(n) = "failed" <=> durable.effect[n] = "failed"
         /\ Good(SeenEffect(n)) \/ Good(durable.effect[n]) => Good(EffectAfter(n))
         /\ EffectAfter(n) = "abandoned" /\ durable.effect[n] # "abandoned" => Uncertain(n)
         /\ Good(EffectAfter(n)) =>
              \/ Good(durable.effect[n])
              \/ durable.effect[n] = "launched" /\ Plan[n] = "async"
              \/ Plan[n] = "write" /\ FilesAll(n, "after")
<1>1. durable.asked[n] \in AskReceipts /\ durable.effect[n] \in Receipts
  BY MindShape DEF EffectInv, Typed
<1>2. SeenAsked(n) = IF durable.asked[n] = "launched" THEN "unresolved" ELSE durable.asked[n]
  BY DEF SeenAsked
<1>3. \/ durable.effect[n] # "launched" /\ SeenEffect(n) = durable.effect[n]
      \/ /\ durable.effect[n] = "launched"
         /\ \/ SeenEffect(n) = "reconciled" /\ Plan[n] = "write" /\ FilesAll(n, "after")
            \/ SeenEffect(n) = "reconciled" /\ Plan[n] = "async"
            \/ SeenEffect(n) \in {"launched", "unresolved"}
  BY DEF SeenEffect
<1>4. EffectAfter(n) = IF SeenEffect(n) # "unresolved" THEN SeenEffect(n)
                       ELSE IF Plan[n] = "async" THEN "launched" ELSE "abandoned"
  BY DEF EffectAfter
<1>5. AskedAfter(n) = IF SeenAsked(n) = "unresolved" THEN "abandoned" ELSE SeenAsked(n)
  BY DEF AskedAfter
<1>6. Uncertain(n) <=> SeenEffect(n) = "unresolved" \/ SeenAsked(n) = "unresolved"
  BY DEF Uncertain
<1>7. /\ AskedAfter(n) \in AskReceipts
      /\ AskedAfter(n) = "none" <=> durable.asked[n] = "none"
      /\ Good(AskedAfter(n)) => Good(durable.asked[n])
      /\ Good(SeenAsked(n)) \/ Good(durable.asked[n]) => Good(AskedAfter(n))
      /\ AskedAfter(n) # "launched"
      /\ AskedAfter(n) = "abandoned" /\ durable.asked[n] # "abandoned" => Uncertain(n)
  BY <1>1, <1>2, <1>5, <1>6 DEF AskReceipts, Good
<1>8. /\ EffectAfter(n) \in Receipts
      /\ EffectAfter(n) = "none" <=> durable.effect[n] = "none"
      /\ EffectAfter(n) = "launched" => durable.effect[n] = "launched"
      /\ EffectAfter(n) = "failed" <=> durable.effect[n] = "failed"
      /\ Good(SeenEffect(n)) \/ Good(durable.effect[n]) => Good(EffectAfter(n))
      /\ EffectAfter(n) = "abandoned" /\ durable.effect[n] # "abandoned" => Uncertain(n)
      /\ Good(EffectAfter(n)) =>
           \/ Good(durable.effect[n])
           \/ durable.effect[n] = "launched" /\ Plan[n] = "async"
           \/ Plan[n] = "write" /\ FilesAll(n, "after")
  BY <1>1, <1>3, <1>4, <1>6 DEF Receipts, Good
<1> QED
  BY <1>7, <1>8

LEMMA ResumeIsSafe ==
  ASSUME EffectAssumption, EffectInv, NEW p \in Policies, Resume(p)
  PROVE  EffectInv'
<1> USE PlanShape, MindShape
<1>1. /\ At("off")
      /\ mind \in Mind /\ durable \in Mind
      /\ \A n \in Nodes : Concludes(durable, n) => Happened(n)
  BY DEF EffectInv, Typed, Resume, TruthInv, Truthful
<1>2. /\ mind' \in Mind /\ frame' = [node |-> 0, step |-> "next"]
      /\ \A n \in Nodes : mind'.asked[n] = AskedAfter(n) /\ mind'.effect[n] = EffectAfter(n)
      /\ \A n \in Nodes : mind'.status[n] = StatusAfter(n)
      /\ policy' \in {"strict", "best_effort"}
      /\ p = "strict" => \A n \in Nodes : ~Uncertain(n)
      /\ UNCHANGED <<durable, world>>
  <2>1. mind' = [asked |-> [n \in Nodes |-> AskedAfter(n)],
                  effect |-> [n \in Nodes |-> EffectAfter(n)],
                  status |-> [n \in Nodes |-> StatusAfter(n)],
                  handle |-> durable.handle]
    BY DEF Resume
  <2>2. \A n \in Nodes : StatusAfter(n) \in {"pending", "running", "completed", "recovery_blocked"}
    BY <1>1 DEF StatusAfter
  <2>3. \A n \in Nodes : AskedAfter(n) \in AskReceipts /\ EffectAfter(n) \in Receipts
    BY ReceiptsAfter
  <2>4. durable.handle \in [Nodes -> BOOLEAN]
    BY <1>1
  <2>5. mind' \in Mind
    BY <2>1, <2>2, <2>3, <2>4 DEF Mind
  <2> QED
    BY <2>1, <2>5 DEF Resume, Accepts, EffectAssumption
<1>3. KernelInv'
  BY <1>2 DEF KernelInv, Here, Inside, Between
<1>4. Typed'
  BY <1>1, <1>2 DEF EffectInv, Typed, world
<1>5. AnnouncedInv'
  BY <1>2, ReceiptsAfter DEF AnnouncedInv
<1>6. TruthInv'
  <2>1. \A n \in Nodes : Happened(n)' = Happened(n)
    BY <1>2 DEF Happened, world
  <2>2. \A n \in Nodes : Concludes(mind', n) => Happened(n)
    <3> SUFFICES ASSUME NEW n \in Nodes, Concludes(mind', n) PROVE Happened(n)
      OBVIOUS
    <3>1. CASE Plan[n] = "model"
      BY <1>1, <1>2, <3>1, ReceiptsAfter DEF Concludes
    <3>2. CASE Plan[n] # "model" /\ Good(durable.effect[n])
      BY <1>1, <3>2 DEF Concludes
    <3>3. CASE durable.effect[n] = "launched" /\ Plan[n] = "async"
      BY <3>3 DEF EffectInv, FreshInv, AnnouncedInv, Happened
    <3>4. CASE Plan[n] = "write" /\ FilesAll(n, "after")
      BY <3>4 DEF FilesAll, Happened
    <3> QED
      BY <1>2, <3>1, <3>2, <3>3, <3>4, ReceiptsAfter DEF Concludes
  <2>3. \A n \in Nodes : mind'.status[n] = "completed" => Concludes(mind', n)
    <3> SUFFICES ASSUME NEW n \in Nodes, StatusAfter(n) = "completed" PROVE Concludes(mind', n)
      BY <1>2
    <3>1. CASE Restored(n)
      BY <1>2, <3>1, ReceiptsAfter DEF Restored, Concludes
    <3>2. CASE durable.status[n] = "completed"
      <4>1. Concludes(durable, n)
        BY <3>2 DEF EffectInv, TruthInv, Truthful
      <4> QED
        BY <1>2, <4>1, ReceiptsAfter DEF Concludes
    <3> QED
      BY <3>1, <3>2 DEF StatusAfter
  <2>4. Open(mind')
    <3> SUFFICES ASSUME NEW n \in Nodes, Plan[n] # "model",
                        StatusAfter(n) \notin {"completed", "recovery_blocked"}
        PROVE  EffectAfter(n) \in {"none", "launched"}
      BY <1>2 DEF Open
    <3>1. ~Restored(n) /\ ~Blocked(n)
      BY DEF StatusAfter
    <3>2. ~Good(SeenEffect(n)) /\ ~Bad(EffectAfter(n)) /\ ~Uncertain(n)
      BY <3>1 DEF Restored, Blocked
    <3>3. EffectAfter(n) = SeenEffect(n)
      BY <3>2 DEF EffectAfter, Uncertain
    <3> QED
      BY <3>2, <3>3, ReceiptsAfter DEF Receipts, Good, Bad
  <2>5. \A n \in Nodes : mind'.effect[n] = "failed" => durable.effect[n] = "failed"
    BY <1>2, ReceiptsAfter
  <2>6. Truthful(mind)' /\ Truthful(durable)'
    BY <1>2, <2>1, <2>2, <2>3 DEF EffectInv, TruthInv, Truthful, Concludes
  <2>7. Open(mind)'
    BY <2>4 DEF Open
  <2> QED
    BY <1>2, <2>5, <2>6, <2>7 DEF EffectInv, TruthInv, world
<1>7. FreshInv'
  BY <1>2, ReceiptsAfter DEF EffectInv, AnnouncedInv, FreshInv, world
<1>8. WorkInv'
  BY <1>2 DEF WorkInv, At
<1>9. StrictInv'
  <2> SUFFICES ASSUME Policies = {"strict"} PROVE Strictly(mind)' /\ Strictly(durable)'
    BY DEF StrictInv
  <2>1. Strictly(durable) /\ \A n \in Nodes : ~Uncertain(n)
    BY <1>2 DEF EffectInv, StrictInv
  <2>2. ASSUME NEW n \in Nodes
        PROVE  /\ AskedAfter(n) # "abandoned" /\ EffectAfter(n) # "abandoned"
               /\ StatusAfter(n) = "recovery_blocked" => EffectAfter(n) = "failed"
    <3>1. AskedAfter(n) # "abandoned" /\ EffectAfter(n) # "abandoned"
      BY <2>1, ReceiptsAfter DEF Strictly
    <3>2. AskedAfter(n) \in AskReceipts
      BY ReceiptsAfter
    <3>3. StatusAfter(n) = "recovery_blocked" =>
            durable.status[n] = "recovery_blocked" \/ Bad(EffectAfter(n)) \/ Bad(AskedAfter(n))
      BY <2>1 DEF StatusAfter, Blocked
    <3> QED
      BY <2>1, <3>1, <3>2, <3>3, ReceiptsAfter DEF Strictly, Bad, AskReceipts
  <2> QED
    BY <1>2, <2>1, <2>2 DEF Strictly
<1> QED
  BY <1>3, <1>4, <1>5, <1>6, <1>7, <1>8, <1>9 DEF EffectInv

-----------------------------------------------------------------------------
(* The invariant and what follows from it.                                 *)

LEMMA InitIsSafe == ASSUME EffectAssumption, EffectInit PROVE EffectInv
<1> USE PlanShape
<1>1. /\ frame = [node |-> 0, step |-> "next"] /\ mind = Blank /\ durable = Blank
      /\ policy = "strict"
      /\ sent = [n \in Nodes |-> 0] /\ ran = [n \in Nodes |-> 0]
      /\ ended = [n \in Nodes |-> "none"]
      /\ file = [n \in Nodes |-> [i \in 1..FileCount |-> "before"]]
      /\ process = [n \in Nodes |-> "none"] /\ result = [n \in Nodes |-> FALSE]
  BY DEF EffectInit
<1>2. /\ Blank \in Mind
      /\ \A n \in Nodes : /\ Blank.asked[n] = "none" /\ Blank.effect[n] = "none"
                          /\ Blank.status[n] = "pending"
  BY DEF Blank, Mind, AskReceipts, Receipts
<1>3. KernelInv
  BY <1>1 DEF KernelInv, Here, Inside, Between
<1>4. Typed
  BY <1>1, <1>2 DEF Typed
<1>5. AnnouncedInv
  BY <1>1, <1>2 DEF AnnouncedInv
<1>6. TruthInv
  BY <1>1, <1>2 DEF TruthInv, Truthful, Open, Concludes, Good
<1>7. FreshInv
  BY <1>1, <1>2 DEF FreshInv
<1>8. WorkInv
  BY <1>1 DEF WorkInv, At
<1>9. StrictInv
  BY <1>1, <1>2 DEF StrictInv, Strictly
<1> QED
  BY <1>3, <1>4, <1>5, <1>6, <1>7, <1>8, <1>9 DEF EffectInv

LEMMA StutterIsSafe ==
  ASSUME EffectInv, UNCHANGED effectVars
  PROVE  EffectInv'
<1>1. UNCHANGED <<frame, mind, durable, policy, sent, ran, ended, file, process, result>>
  BY DEF effectVars, world
<1>2. KernelInv' /\ Typed' /\ AnnouncedInv' /\ FreshInv' /\ WorkInv' /\ StrictInv'
  BY <1>1 DEF EffectInv, KernelInv, Typed, AnnouncedInv, FreshInv, WorkInv, StrictInv, 
              Strictly, Happened, Here, At
<1>3. TruthInv'
  BY <1>1 DEF EffectInv, TruthInv, Truthful, Open, Concludes, Happened, At
<1> QED
  BY <1>2, <1>3 DEF EffectInv

LEMMA WorkIsSafe ==
  ASSUME EffectAssumption, EffectInv, Work
  PROVE  EffectInv'
BY TakeUpIsSafe, FinishIsSafe, ReuseAnswerIsSafe, AskIsSafe, AnswerIsSafe, SendIsSafe,
   LaunchIsSafe, RelaunchIsSafe, WriteFileIsSafe, WriteEndsIsSafe, CallIsSafe,
   CallRaisesIsSafe, ConcludeIsSafe, StartAsyncIsSafe, LogAsyncIsSafe, AwaitAsyncIsSafe
   DEF Work

LEMMA StepIsSafe ==
  ASSUME EffectAssumption, EffectInv, [EffectNext]_effectVars
  PROVE  EffectInv'
<1>1. CASE Work
  BY <1>1, WorkIsSafe
<1>2. CASE Ends
  BY <1>2, ProcessEndsIsSafe DEF Ends
<1>3. CASE Crash
  BY <1>3, CrashIsSafe
<1>4. CASE Resumes
  BY <1>4, ResumeIsSafe DEF Resumes
<1>5. CASE \E n \in Nodes, i \in 1..FileCount : Edit(n, i)
  BY <1>5, EditIsSafe
<1>6. CASE UNCHANGED effectVars
  BY <1>6, StutterIsSafe
<1> QED
  BY <1>1, <1>2, <1>3, <1>4, <1>5, <1>6 DEF EffectNext

(* Memory, checkpoint, receipts and the world agree in the way the         *)
(* invariant spells out, at every step of an attempt and between attempts  *)
(* (kernel/side_effects.py, checkpointing/restore.py).                     *)
THEOREM EffectInvariant == ASSUME EffectAssumption PROVE EffectSpec => []EffectInv
<1>1. EffectInit => EffectInv
  BY InitIsSafe
<1>2. EffectInv /\ [EffectNext]_effectVars => EffectInv'
  BY StepIsSafe
<1> QED
  BY <1>1, <1>2, PTL DEF EffectSpec

(* Kernel, receipts, files and processes keep their types.                 *)
THEOREM TypeCorrect == ASSUME EffectAssumption PROVE EffectSpec => []EffectTypeOK
<1>1. EffectInv => EffectTypeOK
  <2> SUFFICES ASSUME EffectInv PROVE EffectTypeOK
    OBVIOUS
  <2>1. \A m \in Mind : m \in Memory
    BY DEF Mind, Memory, AskReceipts, Receipts
  <2>2. frame.node \in 0..Len(Plan)
    BY DEF EffectInv, KernelInv
  <2> QED
    BY <2>1, <2>2 DEF EffectInv, Typed, EffectTypeOK
<1> QED
  BY <1>1, EffectInvariant, PTL

(* However often a run of any plan is stopped and resumed, under any       *)
(* policy, no request is sent, no service called and no synchronous tool   *)
(* run twice, and what counts as completed has taken place; and where only *)
(* strict resumes are made, a node is passed over only because it is known *)
(* to have failed (kernel/operations.py, side_effects.py, restore.py).     *)
THEOREM EffectsHold == ASSUME EffectAssumption PROVE EffectSpec => []EffectsAreReconciled
<1>1. EffectInv => EffectsAreReconciled
  <2> SUFFICES ASSUME EffectInv PROVE EffectsAreReconciled
    OBVIOUS
  <2>1. AtMostOnce
    BY DEF EffectInv, FreshInv, AtMostOnce
  <2>2. CompletedIsDone
    BY DEF EffectInv, TruthInv, Truthful, Happened, CompletedIsDone
  <2>3. Policies = {"strict"} => StrictPassesOverFailuresOnly
    BY DEF EffectInv, TruthInv, StrictInv, Strictly, StrictPassesOverFailuresOnly
  <2> QED
    BY <2>1, <2>2, <2>3 DEF EffectsAreReconciled, EffectsHappenOnce
<1> QED
  BY <1>1, EffectInvariant, PTL

-----------------------------------------------------------------------------
(***************************************************************************)
(* The files of a run.                                                     *)
(***************************************************************************)
On == kernel.step # "off"
Begun == {"ready", "run"}
PublishingSteps == {"index", "latest", "manifest"}

(* A row that is eligible, and one a resume may also start from.           *)
Row(i) == index[i] # None /\ index[i].eligible
UsableRow(i) == i \in Id /\ Row(i) /\ Usable(i)

(* The sequence number of a reference, and of the kernel's own.            *)
SequenceOf(c) == IF c = None THEN 0 ELSE c[2]
Own == SequenceOf(kernel.own)
OfAttempt == IF manifest.attempt = 0 THEN None ELSE attempts[manifest.attempt].latest

HostPhases == {"created", "begun", "running", "completed", "cancelled", "failed", "finishing",
               "idle", "pruning", "pruned", "crashed"}

Attempt == [latest : Ref, state : States]
Manifest(n) == [latest : Ref, attempt : 0..n, resumable : BOOLEAN, state : States]
Kernel == [step : {"off"} \cup Begun \cup PublishingSteps, request : Requests \cup {None},
           sequence : 0..MaxClock, own : Ref, failed : BOOLEAN]

StoreTyped ==
  /\ envelope \in [Id -> Entry \cup {None}] /\ index \in [Id -> Entry \cup {None}]
  /\ latest \in Ref /\ report \in Ref
  /\ attempts \in Seq(Attempt) /\ Len(attempts) <= MaxAttempts
  /\ manifest \in Manifest(Len(attempts))
  /\ host \in HostPhases /\ stale \in 0..MaxAttempts /\ answered \in BOOLEAN
  /\ kernel \in Kernel /\ (On => kernel.request \in Requests)
  /\ clock \in 0..MaxClock /\ known \in 0..MaxClock

(* Who runs when, and which of the two knows of a checkpoint.              *)
PhaseInv ==
  /\ stale <= Len(attempts)
  /\ host = "begun" <=> kernel.step = "ready"
  /\ host = "running" <=> On /\ kernel.step # "ready"
  /\ host = "created" <=> attempts = <<>>
  /\ host = "running" => manifest.attempt = Len(attempts)
  /\ host \in {"begun", "running", "completed", "cancelled", "failed"} =>
       attempts[Len(attempts)].latest = None
  /\ host \in {"created", "begun", "running"} => report = None /\ ~answered
  /\ host \in {"completed", "cancelled"} => answered
  /\ host = "finishing" => /\ attempts[Len(attempts)].latest = report
                           /\ manifest.attempt = Len(attempts)
  /\ host \in {"completed", "cancelled", "failed"} => manifest.attempt = Len(attempts)
  /\ host = "crashed" => report = None /\ ~answered
  /\ On => SequenceOf(kernel.own) <= kernel.sequence
  /\ kernel.step \in PublishingSteps => SequenceOf(kernel.own) < kernel.sequence

(* What a checkpoint's files say of it, and who is between two of them.    *)
FilesInv ==
  /\ \A i \in Id : envelope[i] # None =>
       envelope[i].at <= clock /\ envelope[i].attempt <= Len(attempts)
  /\ \A i \in Id : index[i] # None => envelope[i] # None /\ index[i].at <= envelope[i].at
  /\ \A i, j \in Id : index[i] # None /\ index[j] # None /\ i # j => index[i].at # index[j].at
  /\ host = "begun" => \A i \in Id : envelope[i] # None => envelope[i].attempt < Len(attempts)
  /\ kernel.step \in PublishingSteps =>
       LET p == envelope[Publishing] IN
       /\ p # None /\ p.at = clock /\ p.attempt = Len(attempts) /\ p.eligible = ~kernel.failed
       /\ IF kernel.step = "index" THEN \A i \in Id : index[i] # None => index[i].at < clock
          ELSE index[Publishing] = p
  /\ kernel.step = "manifest" => latest = NewestOf(index, EligibleIn(index))

(* No checkpoint of the last attempt is newer than the one named; while    *)
(* the kernel runs, the one it is publishing apart.                        *)
OwnWork(c) ==
  \A i \in Id : Usable(i) /\ envelope[i].attempt = Len(attempts) =>
     /\ Usable(c) /\ envelope[c].attempt = Len(attempts) /\ envelope[c].at >= envelope[i].at

AnsweredInv ==
  /\ On => \A i \in Id : Usable(i) /\ envelope[i].attempt = Len(attempts) =>
       \/ kernel.step \in PublishingSteps /\ i = Publishing
       \/ /\ Usable(kernel.own) /\ envelope[kernel.own].attempt = Len(attempts)
          /\ envelope[kernel.own].at >= envelope[i].at
  /\ answered /\ host \in {"completed", "cancelled", "failed", "finishing"} => OwnWork(report)
  /\ answered /\ host = "idle" => OwnWork(manifest.latest)
  /\ host = "pruned" => \A i \in Id : envelope[i] = None

(* Nothing that a resume could find was published: the only attempt has    *)
(* failed its first checkpoint, or not come to it.                         *)
Nothing ==
  /\ known = 0 /\ Len(attempts) <= 1
  /\ \A i \in Id : ~Row(i)
  /\ manifest.latest = None /\ latest = None /\ report = None /\ kernel.own = None
  /\ \A a \in DOMAIN attempts : attempts[a].latest = None
  /\ On /\ ~kernel.failed => kernel.sequence = IF kernel.step \in PublishingSteps THEN 1 ELSE 0
  /\ kernel.step \in PublishingSteps /\ ~kernel.failed => kernel.step = "index"
  /\ host \in {"pruning", "pruned"} => manifest.state = "failed"
  /\ host = "finishing" => attempts[Len(attempts)].state \in {"completed", "cancelled", "failed"}
  /\ host = "idle" => ~manifest.resumable /\ manifest.state # "paused"

(* A checkpoint to start from instead of k: not of a lower number and, if  *)
(* it can be used, not of an earlier instant.                              *)
Covers(c, k) ==
  c[2] >= k[2] /\ envelope[c] # None /\ (Usable(c) => envelope[c].at >= envelope[k].at)

(* Every reference that a resume goes by covers k, and so does every row   *)
(* of a higher number; no kernel has gone on from a later one than k.      *)
Floor(k) ==
  /\ UsableRow(k) /\ index[k] = envelope[k] /\ envelope[k].at >= known
  /\ manifest.latest # None => Covers(manifest.latest, k)
  /\ latest # None => Covers(latest, k)
  /\ report # None => Covers(report, k) /\ Usable(report)
  /\ kernel.own # None => Covers(kernel.own, k) /\ Usable(kernel.own)
  /\ OfAttempt # None => Usable(manifest.latest) \/ Covers(OfAttempt, k)
  /\ On => kernel.sequence >= k[2]
  /\ \A j \in Id : UsableRow(j) /\ j[2] > k[2] => envelope[j].at >= envelope[k].at

(* What host and kernel remember once there is a floor: a kernel goes on   *)
(* from a checkpoint it remembers, a finished attempt reports one.         *)
Kept ==
  /\ attempts # <<>>
  /\ host \notin {"pruning", "pruned"}
  /\ kernel.step \in Begun \/ (On /\ kernel.failed) => kernel.own # None
  /\ kernel.step = "ready" => ~kernel.failed
  /\ On /\ ~kernel.failed =>
       kernel.sequence = IF kernel.step \in PublishingSteps THEN Own + 1 ELSE Own
  /\ host = "finishing" =>
       report # None /\ attempts[Len(attempts)].state \in {"completed", "cancelled", "paused"}
  /\ host = "idle" =>
       /\ manifest.latest # None /\ Usable(manifest.latest)
       /\ manifest.resumable /\ manifest.state \in {"completed", "cancelled", "paused"}
  /\ kernel.step = "run" /\ kernel.failed => latest = manifest.latest

(* The rows reach one number beyond a reference at most: it is the number  *)
(* that the next checkpoint after it takes.                                *)
Within(c) == \A j \in Id : UsableRow(j) => j[2] <= SequenceOf(c) + 1
RangeInv ==
  /\ On => Within(kernel.own)
  /\ Usable(manifest.latest) => Within(manifest.latest)
  /\ report # None => Within(report)
  /\ OfAttempt # None /\ ~Usable(manifest.latest) => Within(OfAttempt)
  /\ ~Usable(manifest.latest) /\ Usable(latest) => Within(latest)
  /\ On /\ Usable(manifest.latest) =>
       manifest.latest[2] <= kernel.sequence /\ (~kernel.failed => manifest.latest[2] >= Own)
  /\ ~Usable(manifest.latest) /\ Usable(latest) =>
       /\ On /\ ~kernel.failed => Own <= latest[2]
       /\ report # None => report[2] <= latest[2]
       /\ OfAttempt # None => OfAttempt[2] <= latest[2]

Saved == (\E k \in Id : Floor(k)) /\ Kept /\ RangeInv
RunInv == Nothing \/ Saved

(* Every run keeps StoreInv; one that names no checkpoint, RunInv as well. *)
StoreInv == StoreTyped /\ PhaseInv /\ FilesInv /\ AnsweredInv

(* Naturals below a bound have a greatest.                                 *)
LEMMA Greatest ==
  ASSUME NEW n \in Nat, NEW S \in SUBSET (0..n), S # {}
  PROVE  \E x \in S : \A y \in S : y <= x
<1> DEFINE T == {n - s : s \in S}
<1>1. \A s \in S : s \in Nat /\ s <= n /\ n - s \in Nat
  OBVIOUS
<1>2. T \subseteq Nat /\ T # {}
  BY <1>1
<1>3. PICK t \in T : \A u \in T : ~(<<u, t>> \in OpToRel(<, Nat))
  BY <1>2, NatLessThanWellFounded, WFMin
<1>4. \A u \in T : ~(u < t)
  BY <1>2, <1>3 DEF OpToRel
<1>5. PICK x \in S : t = n - x
  OBVIOUS
<1>6. ASSUME NEW y \in S PROVE y <= x
  <2>1. ~(n - y < n - x)
    BY <1>4, <1>5
  <2> QED
    BY <1>1, <2>1
<1> QED
  BY <1>6

(* The newest of some rows is one of them, and no other is newer.          *)
LEMMA NewestIs ==
  ASSUME StoreAssumption, NEW rows \in [Id -> Entry \cup {None}],
         NEW ids, ids \subseteq Id, \A i \in ids : rows[i] # None,
         \A i, j \in ids : i # j => rows[i].at # rows[j].at
  PROVE  IF ids = {} THEN NewestOf(rows, ids) = None
         ELSE /\ NewestOf(rows, ids) \in ids
              /\ \A j \in ids : /\ j[2] <= NewestOf(rows, ids)[2]
                                /\ j[2] = NewestOf(rows, ids)[2] =>
                                     rows[j].at <= rows[NewestOf(rows, ids)].at
<1>1. CASE ids = {}
  BY <1>1 DEF NewestOf
<1>2. CASE ids # {}
  <2> MaxClock \in Nat
    BY DEF StoreAssumption
  <2>1. \A i \in ids : i[2] \in 0..MaxClock /\ rows[i].at \in 0..MaxClock /\ rows[i].at \in Nat /\ i[2] \in Nat
    BY DEF Id, Entry
  <2>2. PICK b \in {i[2] : i \in ids} : \A c \in {i[2] : i \in ids} : c <= b
    <3>1. {i[2] : i \in ids} # {} /\ {i[2] : i \in ids} \subseteq 0..MaxClock
      BY <1>2, <2>1
    <3> QED
      BY <3>1, Greatest
  <2> DEFINE last == {i \in ids : i[2] = b}
  <2>3. PICK a \in {rows[i].at : i \in last} : \A c \in {rows[i].at : i \in last} : c <= a
    <3>1. {rows[i].at : i \in last} # {} /\ {rows[i].at : i \in last} \subseteq 0..MaxClock
      BY <2>1
    <3> QED
      BY <3>1, Greatest
  <2>4. PICK q \in last : rows[q].at = a
    OBVIOUS
  <2>5. \A j \in ids \ {q} : Newer(rows, q, j)
    <3> SUFFICES ASSUME NEW j \in ids \ {q} PROVE Newer(rows, q, j)
      OBVIOUS
    <3>1. j[2] <= b /\ q[2] = b
      BY <2>2
    <3>2. j[2] = b => rows[j].at <= a /\ rows[j].at # a
      BY <2>3, <2>4
    <3> QED
      BY <2>1, <2>4, <3>1, <3>2 DEF Newer
  <2>6. NewestOf(rows, ids) \in ids /\ \A j \in ids \ {NewestOf(rows, ids)} :
           Newer(rows, NewestOf(rows, ids), j)
    BY <1>2, <2>5 DEF NewestOf
  <2> QED
    BY <1>2, <2>1, <2>6 DEF Newer
<1> QED
  BY <1>1, <1>2

(* The row that LATEST.json and the manifest are made to name.             *)
NewestRow == NewestOf(index, EligibleIn(index))

LEMMA NewestRowIs ==
  ASSUME StoreAssumption, StoreTyped, FilesInv
  PROVE  /\ NewestRow \in Ref
         /\ NewestRow = None <=> \A i \in Id : ~Row(i)
         /\ NewestRow # None =>
              /\ NewestRow \in Id /\ Row(NewestRow)
              /\ \A j \in Id : Row(j) =>
                   /\ j[2] <= NewestRow[2]
                   /\ j[2] = NewestRow[2] => index[j].at <= index[NewestRow].at
<1>1. index \in [Id -> Entry \cup {None}]
  BY DEF StoreTyped
<1>2. EligibleIn(index) \subseteq Id /\ \A i \in EligibleIn(index) : index[i] # None
  BY DEF EligibleIn
<1>3. \A i, j \in EligibleIn(index) : i # j => index[i].at # index[j].at
  BY DEF EligibleIn, FilesInv
<1>4. \A i : i \in EligibleIn(index) <=> i \in Id /\ Row(i)
  BY DEF EligibleIn, Row
<1>5. IF EligibleIn(index) = {} THEN NewestRow = None
      ELSE /\ NewestRow \in EligibleIn(index)
           /\ \A j \in EligibleIn(index) :
                /\ j[2] <= NewestRow[2]
                /\ j[2] = NewestRow[2] => index[j].at <= index[NewestRow].at
  BY <1>1, <1>2, <1>3, NewestIs DEF NewestRow
<1> QED
  BY <1>4, <1>5 DEF Ref, StoreAssumption

(* Where a resume starts, reference by reference.                          *)
LEMMA PointIs ==
  ASSUME StoreAssumption, StoreTyped, FilesInv
  PROVE  /\ OfAttempt \in Ref
         /\ Usable(manifest.latest) => ResumePoint = manifest.latest
         /\ ~Usable(manifest.latest) /\ Usable(OfAttempt) => ResumePoint = OfAttempt
         /\ ~Usable(manifest.latest) /\ ~Usable(OfAttempt) /\ Usable(latest) =>
              ResumePoint = latest
         /\ ~Usable(manifest.latest) /\ ~Usable(OfAttempt) /\ ~Usable(latest) =>
              IF ResumePoint = None THEN \A i \in Id : ~UsableRow(i)
              ELSE /\ UsableRow(ResumePoint)
                   /\ \A j \in Id : UsableRow(j) =>
                        /\ j[2] <= ResumePoint[2]
                        /\ j[2] = ResumePoint[2] => index[j].at <= index[ResumePoint].at
         /\ ResumePoint # None => ResumePoint \in Id /\ Usable(ResumePoint)
<1> DEFINE ids == {i \in EligibleIn(index) : Usable(i)}
<1>1. index \in [Id -> Entry \cup {None}] /\ manifest.latest \in Ref /\ latest \in Ref
      /\ manifest.attempt \in 0..Len(attempts) /\ attempts \in Seq(Attempt)
  BY DEF StoreTyped, Manifest
<1>2. OfAttempt \in Ref
  <2>1. manifest.attempt # 0 => attempts[manifest.attempt] \in Attempt
    BY <1>1
  <2> QED
    BY <2>1 DEF OfAttempt, Ref, Attempt
<1>3. ids \subseteq Id /\ \A i \in ids : index[i] # None
  BY DEF EligibleIn
<1>4. \A i, j \in ids : i # j => index[i].at # index[j].at
  BY DEF EligibleIn, FilesInv
<1>5. IF ids = {} THEN NewestOf(index, ids) = None
      ELSE /\ NewestOf(index, ids) \in ids
           /\ \A j \in ids : /\ j[2] <= NewestOf(index, ids)[2]
                             /\ j[2] = NewestOf(index, ids)[2] =>
                                  index[j].at <= index[NewestOf(index, ids)].at
  <2> HIDE DEF ids
  <2> QED
    BY <1>1, <1>3, <1>4, NewestIs
<1>6. \A i : i \in ids <=> UsableRow(i)
  BY DEF EligibleIn, Row, UsableRow
<1>7. ResumePoint = IF Usable(manifest.latest) THEN manifest.latest
                    ELSE IF Usable(OfAttempt) THEN OfAttempt
                    ELSE IF Usable(latest) THEN latest
                    ELSE NewestOf(index, ids)
  BY DEF ResumePoint, OfAttempt
<1>8. \A c \in Ref : Usable(c) => c \in Id
  BY DEF Usable, Ref
<1>9. None \notin Id
  BY DEF StoreAssumption
<1>10. ~Usable(manifest.latest) /\ ~Usable(OfAttempt) /\ ~Usable(latest) =>
         ResumePoint = NewestOf(index, ids)
  BY <1>7
<1>11. \A i : UsableRow(i) => i \in Id /\ Usable(i)
  BY DEF UsableRow
<1> HIDE DEF ids
<1>12. ResumePoint # None => ResumePoint \in Id /\ Usable(ResumePoint)
  BY <1>1, <1>2, <1>5, <1>6, <1>7, <1>8, <1>11
<1>13. ~Usable(manifest.latest) /\ ~Usable(OfAttempt) /\ ~Usable(latest) =>
         IF ResumePoint = None THEN \A i \in Id : ~UsableRow(i)
         ELSE /\ UsableRow(ResumePoint)
              /\ \A j \in Id : UsableRow(j) =>
                   /\ j[2] <= ResumePoint[2]
                   /\ j[2] = ResumePoint[2] => index[j].at <= index[ResumePoint].at
  BY <1>5, <1>6, <1>9, <1>10, <1>11
<1> QED
  BY <1>2, <1>7, <1>12, <1>13

LEMMA PointInRef ==
  ASSUME StoreAssumption, StoreTyped, FilesInv
  PROVE  ResumePoint \in Ref /\ Reference \in Ref
<1>1. ResumePoint \in Ref
  BY PointIs DEF Ref
<1>2. report \in Ref
  BY DEF StoreTyped
<1> QED
  BY <1>1, <1>2 DEF Reference

LEMMA BeginsTyped ==
  ASSUME StoreAssumption, StoreTyped, NEW from \in Ref, NEW r \in Requests, NEW n \in 0..MaxClock,
         NEW f \in BOOLEAN, BeginAttempt(from, r, n, f)
  PROVE  StoreTyped'
<1>1. attempts' \in Seq(Attempt) /\ Len(attempts') = Len(attempts) + 1 /\ Len(attempts) \in Nat
  <2>1. [latest |-> None, state |-> "running"] \in Attempt
    BY DEF Ref, States, Attempt
  <2>2. attempts \in Seq(Attempt)
    BY DEF StoreTyped
  <2> QED
    BY <2>1, <2>2 DEF BeginAttempt
<1>2. kernel' = [step |-> "ready", request |-> r, sequence |-> n, own |-> from, failed |-> f]
      /\ kernel' \in Kernel
  BY DEF BeginAttempt, Begun, Kernel
<1>3. /\ Len(attempts) < MaxAttempts /\ MaxAttempts \in Nat
      /\ manifest' = manifest /\ stale' = manifest.attempt
      /\ manifest \in Manifest(Len(attempts))
  BY DEF BeginAttempt, StoreAssumption, StoreTyped
<1>4. manifest' \in Manifest(Len(attempts')) /\ stale' \in 0..MaxAttempts
      /\ Len(attempts') <= MaxAttempts
  BY <1>1, <1>3 DEF Manifest
<1>5. UNCHANGED <<envelope, index, latest, clock, known>>
      /\ host' = "begun" /\ report' = None /\ answered' = FALSE
  BY DEF BeginAttempt
<1>6. host' \in HostPhases /\ report' \in Ref /\ answered' \in BOOLEAN /\ kernel'.request \in Requests
  BY <1>2, <1>5 DEF HostPhases, Ref
<1> QED
  BY <1>1, <1>2, <1>4, <1>5, <1>6 DEF StoreTyped

(* Each action keeps StoreInv.                                             *)
LEMMA LenIsNat == ASSUME StoreTyped PROVE Len(attempts) \in Nat /\ DOMAIN attempts = 1..Len(attempts)
BY DEF StoreTyped

LEMMA BeginKeeps ==
  ASSUME StoreAssumption, StoreInv, NEW from \in Ref, NEW r \in Requests, NEW n \in 0..MaxClock,
         NEW f \in BOOLEAN, BeginAttempt(from, r, n, f), SequenceOf(from) <= n, host \in {"created", "idle", "crashed"}
  PROVE  StoreInv'
<1>1. StoreTyped /\ PhaseInv /\ FilesInv /\ AnsweredInv /\ Len(attempts) \in Nat
  BY LenIsNat DEF StoreInv
<1>2. StoreTyped'
  BY <1>1, BeginsTyped
<1>3. /\ kernel' = [step |-> "ready", request |-> r, sequence |-> n, own |-> from, failed |-> f]
      /\ host' = "begun" /\ report' = None /\ answered' = FALSE
      /\ UNCHANGED <<envelope, index, latest, manifest, clock, known>>
  BY DEF BeginAttempt
<1>4. /\ Len(attempts') = Len(attempts) + 1
      /\ attempts'[Len(attempts')] = [latest |-> None, state |-> "running"]
      /\ attempts' # <<>>
  BY <1>1 DEF BeginAttempt, StoreTyped
<1>5. PhaseInv'
  <2>1. stale' <= Len(attempts')
    BY <1>1, <1>4 DEF BeginAttempt, StoreTyped, Manifest
  <2> QED
    BY <1>3, <1>4, <2>1 DEF PhaseInv, On, PublishingSteps
<1>6. \A i \in Id : envelope[i] # None => envelope[i].attempt \in Nat /\ envelope[i].attempt < Len(attempts')
  <2> SUFFICES ASSUME NEW i \in Id, envelope[i] # None
               PROVE  envelope[i].attempt \in Nat /\ envelope[i].attempt < Len(attempts')
    OBVIOUS
  <2>1. envelope[i] \in Entry /\ envelope[i].attempt <= Len(attempts)
    BY <1>1 DEF StoreTyped, FilesInv
  <2>2. envelope[i].attempt \in Nat
    BY <2>1 DEF Entry
  <2> QED
    BY <1>1, <1>4, <2>1, <2>2
<1>7. FilesInv'
  <2>1. \A i \in Id : envelope'[i] # None =>
           envelope'[i].at <= clock' /\ envelope'[i].attempt <= Len(attempts')
    BY <1>1, <1>3, <1>4, <1>6 DEF FilesInv
  <2> QED
    BY <1>1, <1>3, <1>6, <2>1 DEF FilesInv, PublishingSteps
<1>8. AnsweredInv'
  <2>1. \A i \in Id : ~(Usable(i)' /\ envelope'[i].attempt = Len(attempts'))
    BY <1>1, <1>3, <1>4, <1>6 DEF Usable
  <2> QED
    BY <1>3, <2>1 DEF AnsweredInv, PublishingSteps
<1> QED
  BY <1>2, <1>5, <1>7, <1>8 DEF StoreInv

LEMMA NameAttemptKeeps ==
  ASSUME StoreAssumption, StoreInv, NameAttempt
  PROVE  StoreInv'
<1>1. StoreTyped /\ PhaseInv /\ FilesInv /\ AnsweredInv /\ Len(attempts) \in Nat
  BY LenIsNat DEF StoreInv
<1>2. /\ host = "begun" /\ host' = "running"
      /\ manifest' = [manifest EXCEPT !.attempt = Len(attempts)]
      /\ kernel' = [kernel EXCEPT !.step = "run"]
      /\ UNCHANGED <<envelope, index, latest, attempts, stale, report, answered, clock, known>>
  BY DEF NameAttempt
<1>3. kernel' \in Kernel /\ manifest' \in Manifest(Len(attempts')) /\ kernel.step = "ready"
      /\ kernel'.step = "run" /\ kernel'.own = kernel.own /\ kernel'.request = kernel.request
      /\ kernel'.sequence = kernel.sequence
      /\ manifest'.attempt = Len(attempts) /\ manifest'.latest = manifest.latest
  BY <1>1, <1>2 DEF StoreTyped, PhaseInv, Kernel, Manifest, Begun
<1>4. StoreTyped'
  BY <1>1, <1>2, <1>3 DEF StoreTyped, On, HostPhases
<1>5. PhaseInv'
  BY <1>1, <1>2, <1>3 DEF PhaseInv, On, PublishingSteps
<1>6. FilesInv'
  BY <1>1, <1>2, <1>3 DEF FilesInv, PublishingSteps
<1>7. AnsweredInv'
  BY <1>1, <1>2, <1>3 DEF AnsweredInv, On, Usable, PublishingSteps, Publishing, PhaseInv
<1> QED
  BY <1>4, <1>5, <1>6, <1>7 DEF StoreInv

LEMMA WriteEnvelopeKeeps ==
  ASSUME StoreAssumption, StoreInv, NEW eligible \in BOOLEAN, WriteEnvelope(eligible)
  PROVE  StoreInv'
<1> DEFINE i == <<kernel.request, kernel.sequence + 1>>
           new == [at |-> clock + 1, attempt |-> Len(attempts), eligible |-> eligible]
<1>1. StoreTyped /\ PhaseInv /\ FilesInv /\ AnsweredInv /\ Len(attempts) \in Nat
  BY LenIsNat DEF StoreInv
<1>2. /\ kernel.step = "run" /\ (eligible => ~kernel.failed)
      /\ clock < MaxClock /\ kernel.sequence < MaxClock
      /\ clock' = clock + 1
      /\ envelope' = [envelope EXCEPT ![i] = new]
      /\ kernel' = [kernel EXCEPT !.step = "index", !.sequence = @ + 1, !.failed = ~eligible]
      /\ UNCHANGED <<index, latest, manifest, attempts, host, stale, report, answered, known>>
  BY DEF WriteEnvelope
<1>3. /\ kernel.request \in Requests /\ kernel.sequence \in Nat /\ clock \in Nat /\ MaxClock \in Nat
      /\ Len(attempts) \in 1..MaxAttempts
  BY <1>1, <1>2 DEF StoreTyped, Kernel, StoreAssumption, PhaseInv, On
<1>4. i \in Id /\ new \in Entry /\ new # None /\ i # None
  BY <1>2, <1>3 DEF Id, Entry, StoreAssumption
<1>5. /\ kernel' \in Kernel
      /\ kernel'.step = "index" /\ kernel'.own = kernel.own /\ kernel'.request = kernel.request
      /\ kernel'.sequence = kernel.sequence + 1 /\ kernel'.failed = ~eligible
      /\ Publishing' = i
  <2>1. kernel \in Kernel /\ kernel.sequence + 1 \in 0..MaxClock
    BY <1>1, <1>2, <1>3 DEF StoreTyped
  <2>2. kernel' = [step |-> "index", request |-> kernel.request,
                   sequence |-> kernel.sequence + 1, own |-> kernel.own, failed |-> ~eligible]
    BY <1>2, <2>1 DEF Kernel
  <2>3. kernel.request \in Requests \cup {None} /\ kernel.own \in Ref
    BY <2>1 DEF Kernel
  <2> QED
    BY <2>1, <2>2, <2>3 DEF Kernel, PublishingSteps, Publishing
<1>6. /\ envelope' \in [Id -> Entry \cup {None}] /\ envelope'[i] = new
      /\ \A j \in Id : j # i => envelope'[j] = envelope[j]
  BY <1>1, <1>2, <1>4 DEF StoreTyped
<1>7. StoreTyped'
  BY <1>1, <1>2, <1>3, <1>5, <1>6 DEF StoreTyped, On
<1>8. PhaseInv'
  <2>1. SequenceOf(kernel.own) <= kernel.sequence /\ SequenceOf(kernel.own) \in Nat
    BY <1>1, <1>2 DEF PhaseInv, On, SequenceOf, StoreTyped, Kernel, Ref, Id
  <2> QED
    BY <1>1, <1>2, <1>3, <1>5, <2>1 DEF PhaseInv, On, PublishingSteps
<1>9. \A j \in Id : /\ envelope[j] # None => envelope[j].at \in Nat /\ envelope[j].at <= clock
                    /\ index[j] # None => index[j].at \in Nat /\ index[j].at <= clock
  <2> SUFFICES ASSUME NEW j \in Id
               PROVE  /\ envelope[j] # None => envelope[j].at \in Nat /\ envelope[j].at <= clock
                      /\ index[j] # None => index[j].at \in Nat /\ index[j].at <= clock
    OBVIOUS
  <2>1. /\ envelope[j] # None => envelope[j] \in Entry /\ envelope[j].at <= clock
        /\ index[j] # None => index[j] \in Entry /\ envelope[j] # None
                                /\ index[j].at <= envelope[j].at
    BY <1>1 DEF StoreTyped, FilesInv
  <2>2. \A e \in Entry : e.at \in Nat
    BY DEF Entry
  <2> QED
    BY <1>3, <2>1, <2>2
<1> HIDE DEF i, new
<1>10. new.at = clock + 1 /\ new.attempt = Len(attempts) /\ new.eligible = eligible
  BY DEF new
<1>11. FilesInv'
  <2>1. \A j \in Id : envelope'[j] # None =>
           envelope'[j].at <= clock' /\ envelope'[j].attempt <= Len(attempts')
    BY <1>1, <1>2, <1>3, <1>6, <1>9, <1>10 DEF FilesInv
  <2>2. \A j \in Id : index'[j] # None => envelope'[j] # None /\ index'[j].at <= envelope'[j].at
    BY <1>1, <1>2, <1>3, <1>4, <1>6, <1>9, <1>10 DEF FilesInv
  <2>3. \A j \in Id : index'[j] # None => index'[j].at < clock'
    BY <1>2, <1>3, <1>9
  <2>4. host' # "begun" /\ kernel'.step # "manifest"
    BY <1>1, <1>2, <1>5 DEF PhaseInv
  <2>5. LET p == envelope'[Publishing'] IN
          p # None /\ p.at = clock' /\ p.attempt = Len(attempts') /\ p.eligible = ~kernel'.failed
    BY <1>2, <1>4, <1>5, <1>6, <1>10
  <2> QED
    BY <1>1, <1>2, <1>5, <2>1, <2>2, <2>3, <2>4, <2>5 DEF FilesInv, PublishingSteps
<1>12. AnsweredInv'
  <2>1. \A j \in Id : j # i => (Usable(j)' <=> Usable(j))
    BY <1>6 DEF Usable
  <2>2. ASSUME NEW j \in Id, Usable(j)', envelope'[j].attempt = Len(attempts'), j # i
        PROVE  /\ Usable(kernel.own)' /\ envelope'[kernel.own].attempt = Len(attempts')
               /\ envelope'[kernel.own].at >= envelope'[j].at
    <3>1. /\ Usable(kernel.own) /\ envelope[kernel.own].attempt = Len(attempts)
          /\ envelope[kernel.own].at >= envelope[j].at
      BY <1>1, <1>2, <1>6, <2>1, <2>2 DEF AnsweredInv, On, PublishingSteps
    <3>2. kernel.own \in Id
      BY <1>1, <3>1 DEF StoreTyped, Kernel, Ref, Usable
    <3>3. kernel.own # i
      BY <1>1, <1>2, <1>3, <3>1, <3>2 DEF i, Id, PhaseInv, On, SequenceOf, Usable
    <3> QED
      BY <1>2, <1>3, <1>5, <1>6, <2>1, <2>2, <3>1, <3>2, <3>3
  <2> QED
    BY <1>1, <1>2, <1>5, <2>2 DEF AnsweredInv, On, PublishingSteps, PhaseInv
<1> QED
  BY <1>7, <1>8, <1>11, <1>12 DEF StoreInv

LEMMA WriteIndexKeeps ==
  ASSUME StoreAssumption, StoreInv, WriteIndex
  PROVE  StoreInv'
<1> DEFINE i == Publishing
<1>1. StoreTyped /\ PhaseInv /\ FilesInv /\ AnsweredInv /\ Len(attempts) \in Nat
  BY LenIsNat DEF StoreInv
<1>2. /\ kernel.step = "index"
      /\ index' = [index EXCEPT ![i] = envelope[i]]
      /\ kernel' = [kernel EXCEPT !.step = "latest"]
      /\ UNCHANGED <<envelope, latest, manifest, attempts, host, stale, report, answered, clock,
                     known>>
  BY DEF WriteIndex
<1>3. /\ kernel' \in Kernel /\ kernel'.step = "latest" /\ kernel'.own = kernel.own
      /\ kernel'.request = kernel.request /\ kernel'.sequence = kernel.sequence
      /\ kernel'.failed = kernel.failed /\ Publishing' = i
  BY <1>1, <1>2 DEF StoreTyped, Kernel, PublishingSteps, Publishing
<1>4. i \in Id
  BY <1>1, <1>2
  DEF StoreTyped, Kernel, PhaseInv, On, Id, Publishing, SequenceOf, Ref, PublishingSteps
<1>5. /\ envelope[i] # None /\ envelope[i].at = clock /\ envelope[i].attempt = Len(attempts)
      /\ envelope[i].eligible = ~kernel.failed
      /\ \A j \in Id : index[j] # None => index[j].at < clock
  BY <1>1, <1>2 DEF FilesInv, PublishingSteps
<1>6. /\ index' \in [Id -> Entry \cup {None}] /\ index'[i] = envelope[i]
      /\ \A j \in Id : j # i => index'[j] = index[j]
  BY <1>1, <1>2, <1>4 DEF StoreTyped
<1> HIDE DEF i
<1>7. StoreTyped'
  BY <1>1, <1>2, <1>3, <1>6 DEF StoreTyped, On
<1>8. PhaseInv'
  BY <1>1, <1>2, <1>3 DEF PhaseInv, On, PublishingSteps
<1>9. clock \in Nat /\ \A j \in Id : index[j] # None => index[j].at \in Nat
  BY <1>1 DEF StoreTyped, Entry, StoreAssumption
<1>10. FilesInv'
  <2>1. \A j \in Id : index'[j] # None => envelope'[j] # None /\ index'[j].at <= envelope'[j].at
    BY <1>1, <1>2, <1>4, <1>5, <1>6, <1>9 DEF FilesInv
  <2>2. \A j, k \in Id : index'[j] # None /\ index'[k] # None /\ j # k => index'[j].at # index'[k].at
    BY <1>1, <1>4, <1>5, <1>6, <1>9 DEF FilesInv
  <2>3. \A j \in Id : envelope'[j] # None =>
           envelope'[j].at <= clock' /\ envelope'[j].attempt <= Len(attempts')
    BY <1>1, <1>2 DEF FilesInv
  <2> QED
    BY <1>1, <1>2, <1>3, <1>5, <1>6, <2>1, <2>2, <2>3 DEF FilesInv, PhaseInv, PublishingSteps
<1>11. AnsweredInv'
  BY <1>1, <1>2, <1>3 DEF AnsweredInv, On, Usable, PublishingSteps, i, PhaseInv
<1> QED
  BY <1>7, <1>8, <1>10, <1>11 DEF StoreInv

LEMMA WriteLatestKeeps ==
  ASSUME StoreAssumption, StoreInv, WriteLatest
  PROVE  StoreInv'
<1>1. StoreTyped /\ PhaseInv /\ FilesInv /\ AnsweredInv /\ Len(attempts) \in Nat
  BY LenIsNat DEF StoreInv
<1>2. /\ kernel.step = "latest" /\ latest' = NewestRow /\ NewestRow \in Ref
      /\ kernel' = [kernel EXCEPT !.step = "manifest"]
      /\ UNCHANGED <<envelope, index, manifest, attempts, host, stale, report, answered, clock,
                     known>>
  BY <1>1, NewestRowIs DEF WriteLatest, NewestRow
<1>3. /\ kernel' \in Kernel /\ kernel'.step = "manifest" /\ kernel'.own = kernel.own
      /\ kernel'.request = kernel.request /\ kernel'.sequence = kernel.sequence
      /\ kernel'.failed = kernel.failed /\ Publishing' = Publishing
  BY <1>1, <1>2 DEF StoreTyped, Kernel, PublishingSteps, Publishing
<1>4. StoreTyped'
  BY <1>1, <1>2, <1>3 DEF StoreTyped, On
<1>5. PhaseInv'
  BY <1>1, <1>2, <1>3 DEF PhaseInv, On, PublishingSteps
<1>6. latest' = NewestOf(index', EligibleIn(index'))
  BY <1>2 DEF NewestRow, EligibleIn
<1>7. FilesInv'
  BY <1>1, <1>2, <1>3, <1>6 DEF FilesInv, PublishingSteps
<1>8. AnsweredInv'
  BY <1>1, <1>2, <1>3 DEF AnsweredInv, On, Usable, PublishingSteps, PhaseInv
<1> QED
  BY <1>4, <1>5, <1>7, <1>8 DEF StoreInv

LEMMA NameCheckpointKeeps ==
  ASSUME StoreAssumption, StoreInv, NameCheckpoint
  PROVE  StoreInv'
<1> DEFINE own == IF envelope[Publishing].eligible THEN Publishing ELSE kernel.own
<1>1. StoreTyped /\ PhaseInv /\ FilesInv /\ AnsweredInv /\ Len(attempts) \in Nat
  BY LenIsNat DEF StoreInv
<1>2. /\ kernel.step = "manifest" /\ NewestRow \in Ref
      /\ manifest' = [manifest EXCEPT !.attempt = Len(attempts), !.latest = NewestRow,
                                      !.resumable = NewestRow # None]
      /\ kernel' = [kernel EXCEPT !.step = "run", !.own = own]
      /\ known' = IF envelope[Publishing].eligible THEN envelope[Publishing].at ELSE known
      /\ UNCHANGED <<envelope, index, latest, attempts, host, stale, report, answered, clock>>
  BY <1>1, NewestRowIs DEF NameCheckpoint, NewestRow
<1>3. Publishing \in Id
  BY <1>1, <1>2
  DEF StoreTyped, Kernel, PhaseInv, On, Id, Publishing, SequenceOf, Ref, PublishingSteps
<1>4. /\ envelope[Publishing] # None /\ envelope[Publishing].at = clock
      /\ envelope[Publishing].attempt = Len(attempts)
  BY <1>1, <1>2 DEF FilesInv, PublishingSteps
<1>5. /\ kernel' \in Kernel /\ kernel'.step = "run" /\ kernel'.own = own
      /\ kernel'.request = kernel.request /\ kernel'.sequence = kernel.sequence
      /\ kernel'.failed = kernel.failed
  <2>1. own \in Ref
    BY <1>1, <1>3 DEF StoreTyped, Kernel, Ref
  <2> HIDE DEF own
  <2> QED
    BY <1>1, <1>2, <2>1 DEF StoreTyped, Kernel, Begun
<1>6. manifest' \in Manifest(Len(attempts')) /\ manifest'.attempt = Len(attempts)
  <2> DEFINE found == NewestRow # None
  <2>1. found \in BOOLEAN /\ manifest \in Manifest(Len(attempts))
    BY <1>1 DEF StoreTyped
  <2>2. manifest' = [manifest EXCEPT !.attempt = Len(attempts), !.latest = NewestRow,
                                     !.resumable = found]
    BY <1>2
  <2> HIDE DEF found
  <2>3. manifest' = [latest |-> NewestRow, attempt |-> Len(attempts), resumable |-> found,
                     state |-> manifest.state] /\ manifest.state \in States
    BY <2>1, <2>2 DEF Manifest
  <2> QED
    BY <1>1, <1>2, <2>1, <2>3 DEF Manifest
<1>7. known' \in 0..MaxClock
  BY <1>1, <1>2, <1>4 DEF StoreTyped
<1>8. StoreTyped'
  BY <1>1, <1>2, <1>5, <1>6, <1>7 DEF StoreTyped, On
<1>9. PhaseInv'
  <2>1. SequenceOf(own) <= kernel.sequence
    BY <1>1, <1>2 DEF PhaseInv, On, SequenceOf, Publishing, StoreTyped, Kernel
  <2> QED
    BY <1>1, <1>2, <1>5, <1>6, <2>1 DEF PhaseInv, On, PublishingSteps
<1>10. FilesInv'
  BY <1>1, <1>2, <1>5 DEF FilesInv, PublishingSteps, PhaseInv
<1>11. AnsweredInv'
  <2>1. host = "running"
    BY <1>1, <1>2 DEF PhaseInv, On
  <2>2. ASSUME NEW j \in Id, Usable(j), envelope[j].attempt = Len(attempts)
        PROVE  /\ Usable(own) /\ envelope[own].attempt = Len(attempts)
               /\ envelope[own].at >= envelope[j].at
    <3>1. CASE envelope[Publishing].eligible
      <4>1. envelope[j].at <= clock
        BY <1>1, <2>2 DEF FilesInv, Usable
      <4> QED
        BY <1>3, <1>4, <3>1, <4>1 DEF Usable, StoreAssumption
    <3>2. CASE ~envelope[Publishing].eligible
      <4>1. j # Publishing
        BY <2>2, <3>2 DEF Usable
      <4> QED
        BY <1>1, <1>2, <2>2, <3>2, <4>1 DEF AnsweredInv, On
    <3> QED
      BY <3>1, <3>2
  <2> HIDE DEF own
  <2> QED
    BY <1>2, <1>5, <2>1, <2>2 DEF AnsweredInv, On, Usable, PublishingSteps
<1> QED
  BY <1>8, <1>9, <1>10, <1>11 DEF StoreInv

LEMMA NoKernelIsTyped == ASSUME StoreAssumption, StoreTyped PROVE NoKernel \in Kernel /\ NoKernel.step = "off"
BY DEF NoKernel, Kernel, Ref, StoreAssumption, StoreTyped

LEMMA RespondKeeps ==
  ASSUME StoreAssumption, StoreInv, NEW o \in {"completed", "cancelled", "failed"}, Respond(o)
  PROVE  StoreInv'
<1> DEFINE named == IF kernel.own # None THEN kernel.own ELSE ResumePoint
<1>1. StoreTyped /\ PhaseInv /\ FilesInv /\ AnsweredInv /\ Len(attempts) \in Nat
  BY LenIsNat DEF StoreInv
<1>2. /\ kernel.step = "run" /\ report' = (IF Usable(named) THEN named ELSE ResumePoint)
      /\ host' = o /\ answered' = TRUE /\ kernel' = NoKernel
      /\ UNCHANGED <<envelope, index, latest, manifest, attempts, stale, clock, known>>
  BY DEF Respond, files
<1>3. ResumePoint \in Ref /\ kernel.own \in Ref
  BY <1>1, PointInRef DEF StoreTyped, Kernel
<1>4. kernel' \in Kernel /\ kernel'.step = "off"
  BY <1>1, <1>2, NoKernelIsTyped
<1>5. StoreTyped'
  <2>1. report' \in Ref
    BY <1>2, <1>3
  <2> QED
    BY <1>1, <1>2, <1>4, <2>1 DEF StoreTyped, On, HostPhases
<1>6. host = "running"
  BY <1>1, <1>2 DEF PhaseInv, On
<1>7. PhaseInv'
  BY <1>1, <1>2, <1>4, <1>6 DEF PhaseInv, On, PublishingSteps
<1>8. FilesInv'
  BY <1>1, <1>2, <1>4 DEF FilesInv, PublishingSteps
<1>9. AnsweredInv'
  <2>1. ASSUME NEW i \in Id, Usable(i), envelope[i].attempt = Len(attempts)
        PROVE  /\ Usable(report') /\ envelope[report'].attempt = Len(attempts)
               /\ envelope[report'].at >= envelope[i].at
    <3>1. /\ Usable(kernel.own) /\ envelope[kernel.own].attempt = Len(attempts)
          /\ envelope[kernel.own].at >= envelope[i].at
      BY <1>1, <1>2, <2>1 DEF AnsweredInv, On, PublishingSteps
    <3>2. report' = kernel.own
      BY <1>2, <3>1 DEF Usable
    <3> QED
      BY <3>1, <3>2
  <2> QED
    BY <1>2, <1>4, <2>1 DEF AnsweredInv, On, Usable, OwnWork, PublishingSteps
<1> QED
  BY <1>5, <1>7, <1>8, <1>9 DEF StoreInv

LEMMA LoseKernelKeeps ==
  ASSUME StoreAssumption, StoreInv, LoseKernel
  PROVE  StoreInv'
<1>1. StoreTyped /\ PhaseInv /\ FilesInv /\ AnsweredInv /\ Len(attempts) \in Nat
  BY LenIsNat DEF StoreInv
<1>2. /\ kernel.step \notin {"off", "ready"} /\ report' = None
      /\ host' = "failed" /\ kernel' = NoKernel
      /\ UNCHANGED <<envelope, index, latest, manifest, attempts, stale, answered, clock, known>>
  BY DEF LoseKernel, files
<1>3. kernel' \in Kernel /\ kernel'.step = "off"
  BY <1>1, <1>2, NoKernelIsTyped
<1>4. StoreTyped'
  BY <1>1, <1>2, <1>3 DEF StoreTyped, On, HostPhases, Ref
<1>5. host = "running" /\ ~answered
  BY <1>1, <1>2 DEF PhaseInv, On
<1>6. PhaseInv'
  BY <1>1, <1>2, <1>3, <1>5 DEF PhaseInv, On, PublishingSteps
<1>7. FilesInv'
  BY <1>1, <1>2, <1>3 DEF FilesInv, PublishingSteps
<1>8. AnsweredInv'
  BY <1>2, <1>3, <1>5 DEF AnsweredInv, On, PublishingSteps
<1> QED
  BY <1>4, <1>6, <1>7, <1>8 DEF StoreInv

LEMMA MachineStopsKeeps ==
  ASSUME StoreAssumption, StoreInv, MachineStops
  PROVE  StoreInv'
<1>1. StoreTyped /\ PhaseInv /\ FilesInv /\ AnsweredInv /\ Len(attempts) \in Nat
  BY LenIsNat DEF StoreInv
<1>2. /\ host \notin {"created", "idle", "crashed"} /\ host' = "crashed"
      /\ report' = None /\ answered' = FALSE /\ kernel' = NoKernel
      /\ UNCHANGED <<envelope, index, latest, manifest, attempts, stale, clock, known>>
  BY DEF MachineStops, files
<1>3. kernel' \in Kernel /\ kernel'.step = "off"
  BY <1>1, <1>2, NoKernelIsTyped
<1>4. StoreTyped'
  BY <1>1, <1>2, <1>3 DEF StoreTyped, On, HostPhases, Ref
<1>5. PhaseInv'
  BY <1>1, <1>2, <1>3 DEF PhaseInv, On, PublishingSteps
<1>6. FilesInv'
  BY <1>1, <1>2, <1>3 DEF FilesInv, PublishingSteps
<1>7. AnsweredInv'
  BY <1>2, <1>3 DEF AnsweredInv, On, PublishingSteps
<1> QED
  BY <1>4, <1>5, <1>6, <1>7 DEF StoreInv

LEMMA FinishAttemptKeeps ==
  ASSUME StoreAssumption, StoreInv, FinishAttempt
  PROVE  StoreInv'
<1> DEFINE last == [latest |-> Reference, state |-> Lifecycle]
<1>1. StoreTyped /\ PhaseInv /\ FilesInv /\ AnsweredInv /\ Len(attempts) \in Nat
  BY LenIsNat DEF StoreInv
<1>2. /\ host \in {"completed", "cancelled", "failed"}
      /\ attempts' = [attempts EXCEPT ![Len(attempts)] = last]
      /\ report' = Reference /\ host' = "finishing"
      /\ UNCHANGED <<envelope, index, latest, manifest, stale, answered, kernel, clock, known>>
  BY DEF FinishAttempt
<1>3. Reference \in Ref /\ last \in Attempt
  BY <1>1, <1>2, PointInRef DEF Lifecycle, Attempt, States
<1>4. Len(attempts) > 0
  BY <1>1, <1>2 DEF PhaseInv, StoreTyped
<1>5. /\ attempts' \in Seq(Attempt) /\ Len(attempts') = Len(attempts)
      /\ attempts'[Len(attempts')] = last
  BY <1>1, <1>2, <1>3, <1>4 DEF StoreTyped
<1>6. last.latest = Reference
  OBVIOUS
<1> HIDE DEF last
<1>7. StoreTyped'
  BY <1>1, <1>2, <1>3, <1>5 DEF StoreTyped, On, HostPhases
<1>8. kernel.step = "off"
  BY <1>1, <1>2 DEF PhaseInv, On
<1>9. PhaseInv'
  BY <1>1, <1>2, <1>4, <1>5, <1>6, <1>8 DEF PhaseInv, On, PublishingSteps
<1>10. FilesInv'
  BY <1>1, <1>2, <1>5, <1>8 DEF FilesInv, PublishingSteps
<1>11. AnsweredInv'
  <2>1. answered => OwnWork(report)
    BY <1>1, <1>2 DEF AnsweredInv
  <2>2. OwnWork(report) => (OwnWork(report)')
    <3>1. report # None => report' = report
      BY <1>2 DEF Reference
    <3> QED
      BY <1>2, <1>5, <3>1 DEF OwnWork, Usable
  <2> QED
    BY <1>2, <1>8, <2>1, <2>2 DEF AnsweredInv, On, PublishingSteps
<1> QED
  BY <1>7, <1>9, <1>10, <1>11 DEF StoreInv

LEMMA FinishRunKeeps ==
  ASSUME StoreAssumption, StoreInv, FinishRun
  PROVE  StoreInv'
<1> DEFINE state == attempts[Len(attempts)].state
<1>1. StoreTyped /\ PhaseInv /\ FilesInv /\ AnsweredInv /\ Len(attempts) \in Nat
  BY LenIsNat DEF StoreInv
<1>2. /\ host = "finishing"
      /\ manifest' = [latest |-> report, attempt |-> stale, state |-> state,
                      resumable |-> report # None]
      /\ host' = (IF state = "failed" /\ ~KeepFailures THEN "pruning" ELSE "idle")
      /\ UNCHANGED <<envelope, index, latest, attempts, stale, report, answered, kernel, clock,
                     known>>
  BY DEF FinishRun
<1>3. Len(attempts) > 0 /\ attempts[Len(attempts)] \in Attempt
  BY <1>1, <1>2 DEF PhaseInv, StoreTyped
<1>4. state \in States /\ report \in Ref
  BY <1>1, <1>3 DEF Attempt, StoreTyped
<1>5. stale \in 0..Len(attempts)
  BY <1>1 DEF PhaseInv, StoreTyped
<1> HIDE DEF state
<1>6. manifest' \in Manifest(Len(attempts')) /\ manifest'.latest = report
  BY <1>2, <1>4, <1>5 DEF Manifest
<1>7. StoreTyped'
  BY <1>1, <1>2, <1>6 DEF StoreTyped, On, HostPhases
<1>8. kernel.step = "off"
  BY <1>1, <1>2 DEF PhaseInv, On
<1>9. PhaseInv'
  BY <1>1, <1>2, <1>3, <1>8 DEF PhaseInv, On, PublishingSteps, StoreTyped
<1>10. FilesInv'
  BY <1>1, <1>2, <1>8 DEF FilesInv, PublishingSteps
<1>11. AnsweredInv'
  <2>1. answered => OwnWork(report)
    BY <1>1, <1>2 DEF AnsweredInv
  <2> QED
    BY <1>2, <1>6, <1>8, <2>1 DEF AnsweredInv, On, PublishingSteps, OwnWork, Usable
<1> QED
  BY <1>7, <1>9, <1>10, <1>11 DEF StoreInv

LEMMA PruneFilesKeeps ==
  ASSUME StoreAssumption, StoreInv, PruneFiles
  PROVE  StoreInv'
<1>1. StoreTyped /\ PhaseInv /\ FilesInv /\ AnsweredInv /\ Len(attempts) \in Nat
  BY LenIsNat DEF StoreInv
<1>2. /\ host = "pruning" /\ host' = "pruned" /\ latest' = None
      /\ envelope' = [i \in Id |-> None] /\ index' = [i \in Id |-> None]
      /\ UNCHANGED <<manifest, attempts, stale, report, answered, kernel, clock, known>>
  BY DEF PruneFiles
<1>3. kernel.step = "off"
  BY <1>1, <1>2 DEF PhaseInv, On
<1>4. StoreTyped'
  BY <1>1, <1>2 DEF StoreTyped, On, HostPhases, Ref
<1>5. PhaseInv'
  BY <1>1, <1>2, <1>3 DEF PhaseInv, On, PublishingSteps
<1>6. FilesInv'
  BY <1>2, <1>3 DEF FilesInv, PublishingSteps
<1>7. AnsweredInv'
  BY <1>2, <1>3 DEF AnsweredInv, On, PublishingSteps
<1> QED
  BY <1>4, <1>5, <1>6, <1>7 DEF StoreInv

LEMMA NamePrunedKeeps ==
  ASSUME StoreAssumption, StoreInv, NamePruned
  PROVE  StoreInv'
<1>1. StoreTyped /\ PhaseInv /\ FilesInv /\ AnsweredInv /\ Len(attempts) \in Nat
  BY LenIsNat DEF StoreInv
<1>2. /\ host = "pruned" /\ host' = "idle"
      /\ manifest' = [manifest EXCEPT !.state = "pruned", !.latest = None, !.resumable = FALSE]
      /\ UNCHANGED <<envelope, index, latest, attempts, stale, report, answered, kernel, clock,
                     known>>
  BY DEF NamePruned
<1>3. kernel.step = "off"
  BY <1>1, <1>2 DEF PhaseInv, On
<1>4. manifest' \in Manifest(Len(attempts'))
  BY <1>1, <1>2 DEF StoreTyped, Manifest, Ref, States
<1>5. StoreTyped'
  BY <1>1, <1>2, <1>4 DEF StoreTyped, On, HostPhases
<1>6. PhaseInv'
  BY <1>1, <1>2, <1>3 DEF PhaseInv, On, PublishingSteps
<1>7. FilesInv'
  BY <1>1, <1>2, <1>3 DEF FilesInv, PublishingSteps
<1>8. AnsweredInv'
  BY <1>1, <1>2, <1>3 DEF AnsweredInv, On, PublishingSteps, OwnWork, Usable
<1> QED
  BY <1>5, <1>6, <1>7, <1>8 DEF StoreInv

(* An attempt begins from nothing, from the point of resumption or from    *)
(* some checkpoint that is there.                                          *)
LEMMA BeginsFrom ==
  ASSUME StoreAssumption, StoreInv, Solve \/ ResumeRun \/ ResumeCheckpoint
  PROVE  \E from \in Ref, r \in Requests, f \in BOOLEAN :
           /\ BeginAttempt(from, r, SequenceOf(from), f)
           /\ SequenceOf(from) \in 0..MaxClock
           /\ host \in {"created", "idle", "crashed"}
           /\ ~Explicit => ~f /\ (host = "created" \/ from = ResumePoint)
           /\ host = "created" => from = None
           /\ host # "created" => from # None
<1>1. StoreTyped /\ FilesInv /\ MaxClock \in Nat /\ None \notin Id
  BY DEF StoreInv, StoreAssumption
<1>2. \A i \in Id : SequenceOf(i) = i[2] /\ i[2] \in 0..MaxClock /\ i \in Ref
  BY <1>1 DEF SequenceOf, Id, Ref
<1>3. CASE Solve
  <2>1. PICK r \in Requests : host = "created" /\ BeginAttempt(None, r, 0, FALSE)
    BY <1>3 DEF Solve
  <2>2. None \in Ref /\ SequenceOf(None) = 0 /\ 0 \in 0..MaxClock
    BY <1>1 DEF Ref, SequenceOf
  <2> QED
    BY <2>1, <2>2
<1>4. CASE ResumeRun
  <2>1. PICK r \in Requests : /\ host \in {"idle", "crashed"} /\ ResumePoint # None
                              /\ BeginAttempt(ResumePoint, r, ResumePoint[2], FALSE)
    BY <1>4 DEF ResumeRun
  <2>2. ResumePoint \in Id
    BY <1>1, <2>1, PointIs
  <2> QED
    BY <1>2, <2>1, <2>2
<1>5. CASE ResumeCheckpoint
  <2>1. PICK r \in Requests, i \in Id :
          /\ Explicit /\ host \in {"idle", "crashed"} /\ envelope[i] # None
          /\ \E f \in {FALSE, ~envelope[i].eligible} : BeginAttempt(i, r, i[2], f)
    BY <1>5 DEF ResumeCheckpoint
  <2>2. PICK f \in {FALSE, ~envelope[i].eligible} : BeginAttempt(i, r, i[2], f)
    BY <2>1
  <2> QED
    BY <1>1, <1>2, <2>1, <2>2
<1> QED
  BY <1>3, <1>4, <1>5

LEMMA StoreInitially == ASSUME StoreAssumption, StoreInit PROVE StoreInv
<1>1. /\ envelope = [i \in Id |-> None] /\ index = [i \in Id |-> None] /\ latest = None
      /\ attempts = <<>>
      /\ manifest = [latest |-> None, attempt |-> 0, resumable |-> FALSE, state |-> "running"]
      /\ host = "created" /\ stale = 0 /\ report = None /\ answered = FALSE
      /\ kernel = NoKernel /\ clock = 0 /\ known = 0
  BY DEF StoreInit
<1>2. StoreTyped
  <2>1. manifest \in Manifest(Len(attempts))
    BY <1>1 DEF Manifest, Ref, States
  <2>2. kernel \in Kernel /\ ~On
    BY <1>1 DEF Kernel, NoKernel, Ref, StoreAssumption, On
  <2>3. attempts \in Seq(Attempt) /\ Len(attempts) = 0
    BY <1>1
  <2>4. envelope \in [Id -> Entry \cup {None}] /\ index \in [Id -> Entry \cup {None}]
    BY <1>1
  <2>5. latest \in Ref /\ report \in Ref
    BY <1>1 DEF Ref
  <2>6. 0 \in 0..MaxClock /\ 0 \in 0..MaxAttempts /\ 0 <= MaxAttempts
    BY DEF StoreAssumption
  <2>7. /\ stale = 0 /\ clock = 0 /\ known = 0
        /\ host \in HostPhases /\ answered \in BOOLEAN
    BY <1>1 DEF HostPhases
  <2> QED
    BY <2>1, <2>2, <2>3, <2>4, <2>5, <2>6, <2>7 DEF StoreTyped
<1>3. kernel.step = "off"
  BY <1>1 DEF NoKernel
<1>4. PhaseInv
  BY <1>1, <1>3 DEF PhaseInv, On, PublishingSteps
<1>5. FilesInv
  BY <1>1, <1>3 DEF FilesInv, PublishingSteps
<1>6. AnsweredInv
  BY <1>1, <1>3 DEF AnsweredInv, On, PublishingSteps
<1> QED
  BY <1>2, <1>4, <1>5, <1>6 DEF StoreInv

LEMMA StoreStepKeeps == ASSUME StoreAssumption, StoreInv, [StoreNext]_storeVars PROVE StoreInv'
<1>1. CASE Solve \/ ResumeRun \/ ResumeCheckpoint
  <2>1. PICK from \in Ref, r \in Requests, f \in BOOLEAN :
          /\ BeginAttempt(from, r, SequenceOf(from), f)
          /\ SequenceOf(from) \in 0..MaxClock
          /\ host \in {"created", "idle", "crashed"}
    BY <1>1, BeginsFrom
  <2>2. SequenceOf(from) <= SequenceOf(from)
    BY <2>1
  <2> QED
    BY <2>1, <2>2, BeginKeeps
<1>2. CASE NameAttempt \/ (\E e \in BOOLEAN : WriteEnvelope(e)) \/ WriteIndex \/ WriteLatest
           \/ NameCheckpoint
  BY <1>2, NameAttemptKeeps, WriteEnvelopeKeeps, WriteIndexKeeps, WriteLatestKeeps,
     NameCheckpointKeeps
<1>3. CASE (\E o \in {"completed", "cancelled", "failed"} : Respond(o)) \/ LoseKernel
           \/ FinishAttempt \/ FinishRun \/ PruneFiles \/ NamePruned \/ MachineStops
  BY <1>3, RespondKeeps, LoseKernelKeeps, FinishAttemptKeeps, FinishRunKeeps, PruneFilesKeeps,
     NamePrunedKeeps, MachineStopsKeeps
<1>4. CASE UNCHANGED storeVars
  BY <1>4
  DEF storeVars, files, StoreInv, StoreTyped, PhaseInv, FilesInv, AnsweredInv, On, Usable, Row,
     OwnWork, Publishing, EligibleIn
<1> QED
  BY <1>1, <1>2, <1>3, <1>4 DEF StoreNext

(* Each file says of a checkpoint what its envelope says, host and kernel  *)
(* are where their files say, and an answered attempt names its own newest *)
(* checkpoint, at every step (kernel/checkpointing/publication.py,         *)
(* storage/run_store.py).                                                  *)
THEOREM StoreInvariant == ASSUME StoreAssumption PROVE StoreSpec => []StoreInv
<1>1. StoreInit => StoreInv
  BY StoreInitially
<1>2. StoreInv /\ [StoreNext]_storeVars => StoreInv'
  BY StoreStepKeeps
<1> QED
  BY <1>1, <1>2, PTL DEF StoreSpec

(* However the run was begun, by its own reference or from any checkpoint, *)
(* and whatever rows of abandoned work are the newest: after an attempt    *)
(* that answered a resume goes on from that attempt's last eligible        *)
(* checkpoint (_build_run_result, finish_attempt, finish_run).             *)
THEOREM AnsweredHolds == ASSUME StoreAssumption PROVE StoreSpec => []AnsweredRunResumesItsOwnWork
<1>1. StoreInv => AnsweredRunResumesItsOwnWork
  <2> SUFFICES ASSUME StoreInv, host = "idle", answered, NEW i \in Id, envelope[i] # None,
                      envelope[i].eligible, envelope[i].attempt = Len(attempts)
               PROVE  /\ ResumePoint # None /\ envelope[ResumePoint].attempt = Len(attempts)
                      /\ PointAt >= envelope[i].at
    BY DEF AnsweredRunResumesItsOwnWork
  <2>1. Usable(i)
    BY DEF Usable, StoreAssumption
  <2>2. /\ Usable(manifest.latest) /\ envelope[manifest.latest].attempt = Len(attempts)
        /\ envelope[manifest.latest].at >= envelope[i].at
    BY <2>1 DEF StoreInv, AnsweredInv, OwnWork
  <2>3. ResumePoint = manifest.latest /\ ResumePoint # None
    BY <2>2, PointIs DEF StoreInv, Usable
  <2> QED
    BY <2>2, <2>3 DEF PointAt
<1> QED
  BY <1>1, StoreInvariant, PTL

(***************************************************************************)
(* A run that is only ever resumed by its own reference.                   *)
(***************************************************************************)
LEMMA NothingToResume ==
  ASSUME StoreAssumption, StoreInv, Nothing
  PROVE  ResumePoint = None /\ OfAttempt = None
<1>1. StoreTyped /\ FilesInv
  BY DEF StoreInv
<1>2. OfAttempt = None
  BY <1>1 DEF Nothing, OfAttempt, StoreTyped, Manifest
<1>3. ~Usable(manifest.latest) /\ ~Usable(OfAttempt) /\ ~Usable(latest)
  BY <1>2 DEF Nothing, Usable
<1>4. ResumePoint = None \/ UsableRow(ResumePoint)
  BY <1>1, <1>3, PointIs
<1> QED
  BY <1>2, <1>4 DEF Nothing, UsableRow

LEMMA NumbersOf ==
  ASSUME StoreAssumption, StoreInv
  PROVE  /\ \A i \in Id : i[2] \in Nat /\ i[2] \in 1..MaxClock /\ i # None /\ SequenceOf(i) = i[2]
         /\ \A i \in Id : envelope[i] # None =>
              envelope[i].at \in Nat /\ envelope[i].at <= clock /\ envelope[i].eligible \in BOOLEAN
         /\ \A i \in Id : index[i] # None =>
              /\ index[i].at \in Nat /\ envelope[i] # None /\ index[i].at <= envelope[i].at
         /\ kernel.sequence \in Nat /\ Own \in Nat /\ clock \in Nat /\ known \in Nat
         /\ kernel.own \in Ref /\ manifest.latest \in Ref /\ latest \in Ref /\ report \in Ref
         /\ Len(attempts) \in Nat
<1>1. StoreTyped /\ FilesInv /\ MaxClock \in Nat /\ None \notin Id /\ None \notin Entry
  BY DEF StoreInv, StoreAssumption
<1>2. \A i \in Id : i[2] \in Nat /\ i[2] \in 1..MaxClock /\ i # None /\ SequenceOf(i) = i[2]
  BY <1>1 DEF Id, SequenceOf
<1>3. \A i \in Id : /\ envelope[i] # None => envelope[i] \in Entry
                    /\ index[i] # None => index[i] \in Entry
  BY <1>1 DEF StoreTyped
<1>4. \A e \in Entry : e.at \in Nat /\ e.eligible \in BOOLEAN
  BY DEF Entry
<1>5. /\ kernel.sequence \in Nat /\ clock \in Nat /\ known \in Nat
      /\ kernel.own \in Ref /\ manifest.latest \in Ref /\ latest \in Ref /\ report \in Ref
  BY <1>1 DEF StoreTyped, Kernel, Manifest
<1>6. Own \in Nat
  BY <1>2, <1>5 DEF SequenceOf, Ref, Own
<1> QED
  BY <1>1, <1>2, <1>3, <1>4, <1>5, <1>6, LenIsNat DEF FilesInv

(* While the kernel runs, its attempt names no checkpoint.                 *)
LEMMA RunningIs ==
  ASSUME StoreInv, On
  PROVE  /\ report = None /\ attempts # <<>> /\ host \in {"begun", "running"}
         /\ kernel.step # "ready" => OfAttempt = None /\ manifest.attempt = Len(attempts)
                                       /\ attempts[Len(attempts)].latest = None
         /\ Own <= kernel.sequence
         /\ kernel.step \in PublishingSteps => Own < kernel.sequence
<1>1. PhaseInv
  BY DEF StoreInv
<1>2. host \in {"begun", "running"}
  BY <1>1 DEF PhaseInv
<1> QED
  BY <1>1, <1>2 DEF PhaseInv, OfAttempt, Own, On

(* The newest row covers a floor.                                          *)
LEMMA NewestIsGood ==
  ASSUME StoreAssumption, StoreInv, NEW k \in Id, Floor(k)
  PROVE  /\ NewestRow \in Id /\ Row(NewestRow) /\ NewestRow # None
         /\ Covers(NewestRow, k) /\ Within(NewestRow)
         /\ \A j \in Id : Row(j) => j[2] <= NewestRow[2]
<1>1. StoreTyped /\ FilesInv
  BY DEF StoreInv
<1>2. UsableRow(k) /\ Row(k) /\ index[k] = envelope[k]
      /\ \A j \in Id : UsableRow(j) /\ j[2] > k[2] => envelope[j].at >= envelope[k].at
  BY DEF Floor, UsableRow
<1>3. NewestRow \in Id /\ Row(NewestRow) /\ NewestRow # None
      /\ \A j \in Id : Row(j) => /\ j[2] <= NewestRow[2]
                                 /\ j[2] = NewestRow[2] => index[j].at <= index[NewestRow].at
  BY <1>1, <1>2, NewestRowIs
<1>4. Covers(NewestRow, k)
  <2>1. k[2] <= NewestRow[2] /\ envelope[NewestRow] # None
        /\ index[NewestRow].at <= envelope[NewestRow].at
    BY <1>2, <1>3, NumbersOf DEF Row
  <2>2. ASSUME Usable(NewestRow) PROVE envelope[NewestRow].at >= envelope[k].at
    <3>1. UsableRow(NewestRow)
      BY <1>3, <2>2 DEF UsableRow
    <3>2. CASE k[2] < NewestRow[2]
      BY <1>2, <1>3, <3>1, <3>2
    <3>3. CASE k[2] = NewestRow[2]
      BY <1>2, <1>3, <2>1, <3>3, NumbersOf DEF Row
    <3> QED
      BY <1>3, <2>1, <3>2, <3>3, NumbersOf
  <2> QED
    BY <1>3, <2>1, <2>2, NumbersOf DEF Covers
<1>5. Within(NewestRow)
  BY <1>3, NumbersOf DEF Within, UsableRow
<1> QED
  BY <1>3, <1>4, <1>5

(* Where a resume of the run starts.                                       *)
LEMMA PointIsGood ==
  ASSUME StoreAssumption, StoreInv, RangeInv, NEW k \in Id, Floor(k)
  PROVE  /\ ResumePoint \in Id /\ ResumePoint # None /\ Usable(ResumePoint)
         /\ Covers(ResumePoint, k) /\ Within(ResumePoint)
         /\ Usable(manifest.latest) => ResumePoint = manifest.latest
         /\ ~Usable(manifest.latest) /\ Usable(latest) => ResumePoint[2] <= latest[2]
<1>1. StoreTyped /\ FilesInv
  BY DEF StoreInv
<1>2. CASE Usable(manifest.latest)
  BY <1>1, <1>2, PointIs DEF Floor, RangeInv, Usable
<1>3. CASE ~Usable(manifest.latest) /\ Usable(OfAttempt)
  BY <1>1, <1>3, PointIs DEF Floor, RangeInv, Usable
<1>4. CASE ~Usable(manifest.latest) /\ ~Usable(OfAttempt) /\ Usable(latest)
  <2>1. ResumePoint = latest /\ latest \in Id
    BY <1>1, <1>4, PointIs DEF Usable
  <2> QED
    BY <1>4, <2>1, NumbersOf DEF Floor, RangeInv, Usable
<1>5. CASE ~Usable(manifest.latest) /\ ~Usable(OfAttempt) /\ ~Usable(latest)
  <2>1. UsableRow(k) /\ Row(k) /\ index[k] = envelope[k]
        /\ \A j \in Id : UsableRow(j) /\ j[2] > k[2] => envelope[j].at >= envelope[k].at
    BY DEF Floor, UsableRow
  <2>2. /\ ResumePoint \in Id /\ ResumePoint # None /\ UsableRow(ResumePoint)
        /\ \A j \in Id : UsableRow(j) =>
             /\ j[2] <= ResumePoint[2]
             /\ j[2] = ResumePoint[2] => index[j].at <= index[ResumePoint].at
    <3>1. ResumePoint # None
      BY <1>1, <1>5, <2>1, PointIs
    <3> QED
      BY <1>1, <1>5, <3>1, PointIs DEF UsableRow
  <2>3. Row(ResumePoint) /\ Usable(ResumePoint) /\ envelope[ResumePoint] # None
    BY <2>2 DEF UsableRow, Usable
  <2>4. envelope[ResumePoint].at >= envelope[k].at
    <3>1. CASE k[2] < ResumePoint[2]
      BY <2>1, <2>2, <3>1
    <3>2. CASE k[2] = ResumePoint[2]
      BY <2>1, <2>2, <2>3, <3>2, NumbersOf DEF Row
    <3> QED
      BY <2>1, <2>2, <3>1, <3>2, NumbersOf
  <2>5. Within(ResumePoint)
    BY <2>2, NumbersOf DEF Within
  <2> QED
    BY <1>5, <2>1, <2>2, <2>3, <2>4, <2>5, NumbersOf DEF Covers
<1> QED
  BY <1>2, <1>3, <1>4, <1>5

(* Each action keeps RunInv.                                              *)
LEMMA BeginKeepsRun ==
  ASSUME StoreAssumption, StoreInv, RunInv, ~Explicit, Solve \/ ResumeRun \/ ResumeCheckpoint
  PROVE  RunInv'
<1>1. PICK from \in Ref, r \in Requests, f \in BOOLEAN :
        /\ BeginAttempt(from, r, SequenceOf(from), f)
        /\ host \in {"created", "idle", "crashed"}
        /\ ~f /\ (host = "created" \/ from = ResumePoint)
        /\ host = "created" => from = None
        /\ host # "created" => from # None
  BY BeginsFrom
<1>2. /\ attempts' = Append(attempts, [latest |-> None, state |-> "running"])
      /\ host' = "begun" /\ report' = None
      /\ kernel' = [step |-> "ready", request |-> r, sequence |-> SequenceOf(from), own |-> from,
                    failed |-> FALSE]
      /\ UNCHANGED <<envelope, index, latest, manifest, clock, known>>
  BY <1>1 DEF BeginAttempt
<1>3. /\ kernel'.step = "ready" /\ kernel'.own = from /\ kernel'.sequence = SequenceOf(from)
      /\ kernel'.failed = FALSE /\ On' /\ Own' = SequenceOf(from)
  BY <1>2 DEF On, Own, SequenceOf
<1>4. StoreTyped /\ PhaseInv
  BY DEF StoreInv
<1>5. /\ Len(attempts') = Len(attempts) + 1 /\ attempts' # <<>> /\ DOMAIN attempts' = 1..Len(attempts')
      /\ attempts'[Len(attempts')].latest = None
      /\ \A a \in DOMAIN attempts : attempts'[a] = attempts[a]
      /\ manifest.attempt \in 0..Len(attempts)
  BY <1>2, <1>4 DEF StoreTyped, Manifest
<1>6. OfAttempt' = OfAttempt
  BY <1>2, <1>4, <1>5 DEF OfAttempt, StoreTyped
<1>7. \A c : /\ Usable(c)' <=> Usable(c)
             /\ UsableRow(c)' <=> UsableRow(c)
             /\ Row(c)' <=> Row(c)
  BY <1>2 DEF Usable, UsableRow, Row
<1>8. CASE Nothing
  <2>1. host = "created" /\ from = None /\ attempts = <<>>
    BY <1>1, <1>4, <1>8, NothingToResume DEF PhaseInv
  <2> QED
    BY <1>2, <1>3, <1>4, <1>5, <1>7, <1>8, <2>1
    DEF Nothing, RunInv, SequenceOf, PublishingSteps, StoreTyped
<1>9. CASE Saved
  <2>1. PICK k \in Id : Floor(k)
    BY <1>9 DEF Saved
  <2>2. Kept /\ RangeInv
    BY <1>9 DEF Saved
  <2>3. host # "created" /\ from = ResumePoint
    BY <1>1, <1>4, <2>2 DEF PhaseInv, Kept
  <2>4. /\ from \in Id /\ from # None /\ Usable(from) /\ Covers(from, k) /\ Within(from)
        /\ Usable(manifest.latest) => from = manifest.latest
        /\ ~Usable(manifest.latest) /\ Usable(latest) => from[2] <= latest[2]
        /\ SequenceOf(from) = from[2]
    BY <2>1, <2>2, <2>3, PointIsGood DEF SequenceOf
  <2>5. \A c : (Covers(c, k)' <=> Covers(c, k)) /\ (Within(c)' <=> Within(c))
    BY <1>2, <1>7 DEF Covers, Within, SequenceOf
  <2>6. Floor(k)'
    BY <1>2, <1>3, <1>6, <1>7, <2>1, <2>4, <2>5, NumbersOf DEF Floor, Covers
  <2>7. Kept'
    BY <1>2, <1>3, <1>5, <2>2, <2>4 DEF Kept, Begun, PublishingSteps
  <2>8. RangeInv'
    BY <1>2, <1>3, <1>6, <1>7, <2>2, <2>4, <2>5, NumbersOf DEF RangeInv
  <2> QED
    BY <2>6, <2>7, <2>8 DEF Saved, RunInv
<1> QED
  BY <1>8, <1>9 DEF RunInv

LEMMA NameAttemptKeepsRun ==
  ASSUME StoreAssumption, StoreInv, RunInv, NameAttempt
  PROVE  RunInv'
<1>1. /\ host = "begun" /\ host' = "running"
      /\ manifest' = [manifest EXCEPT !.attempt = Len(attempts)]
      /\ kernel' = [kernel EXCEPT !.step = "run"]
      /\ UNCHANGED <<envelope, index, latest, attempts, stale, report, answered, clock, known>>
  BY DEF NameAttempt
<1>2. StoreTyped /\ PhaseInv /\ Len(attempts) \in Nat
  BY LenIsNat DEF StoreInv
<1>3. /\ kernel.step = "ready" /\ kernel'.step = "run" /\ kernel'.own = kernel.own
      /\ kernel'.sequence = kernel.sequence /\ kernel'.failed = kernel.failed
      /\ On /\ On' /\ Own' = Own
      /\ manifest'.latest = manifest.latest /\ manifest'.attempt = Len(attempts)
      /\ attempts[Len(attempts)].latest = None
  BY <1>1, <1>2 DEF StoreTyped, PhaseInv, Kernel, Manifest, Begun, On, Own
<1>4. OfAttempt' = None
  BY <1>1, <1>3 DEF OfAttempt
<1>5. \A c : /\ Usable(c)' <=> Usable(c)
             /\ UsableRow(c)' <=> UsableRow(c)
             /\ Row(c)' <=> Row(c)
  BY <1>1 DEF Usable, UsableRow, Row
<1>6. CASE Nothing
  BY <1>1, <1>3, <1>5, <1>6 DEF Nothing, RunInv, PublishingSteps
<1>7. CASE Saved
  <2>1. PICK k \in Id : Floor(k)
    BY <1>7 DEF Saved
  <2>2. Kept /\ RangeInv
    BY <1>7 DEF Saved
  <2>3. \A c : (Covers(c, k)' <=> Covers(c, k)) /\ (Within(c)' <=> Within(c))
    BY <1>1, <1>5 DEF Covers, Within, SequenceOf
  <2>4. Floor(k)'
    BY <1>1, <1>3, <1>4, <1>5, <2>1, <2>3 DEF Floor
  <2>5. Kept'
    BY <1>1, <1>3, <2>2 DEF Kept, Begun, PublishingSteps
  <2>6. RangeInv'
    BY <1>1, <1>3, <1>4, <1>5, <2>2, <2>3 DEF RangeInv
  <2> QED
    BY <2>4, <2>5, <2>6 DEF Saved, RunInv
<1> QED
  BY <1>6, <1>7 DEF RunInv

LEMMA WriteEnvelopeKeepsRun ==
  ASSUME StoreAssumption, StoreInv, RunInv, NEW eligible \in BOOLEAN, WriteEnvelope(eligible)
  PROVE  RunInv'
<1>0. PICK i, new : /\ i = <<kernel.request, kernel.sequence + 1>>
                    /\ new = [at |-> clock + 1, attempt |-> Len(attempts), eligible |-> eligible]
  OBVIOUS
<1>1. StoreTyped /\ PhaseInv
  BY DEF StoreInv
<1>2. /\ kernel.step = "run" /\ (eligible => ~kernel.failed)
      /\ clock < MaxClock /\ kernel.sequence < MaxClock
      /\ clock' = clock + 1
      /\ envelope' = [envelope EXCEPT ![i] = new]
      /\ kernel' = [kernel EXCEPT !.step = "index", !.sequence = @ + 1, !.failed = ~eligible]
      /\ UNCHANGED <<index, latest, manifest, attempts, host, stale, report, answered, known>>
  BY <1>0 DEF WriteEnvelope
<1>3. /\ kernel.request \in Requests /\ kernel.sequence \in Nat /\ clock \in Nat /\ MaxClock \in Nat
      /\ On /\ host = "running"
  BY <1>1, <1>2 DEF StoreTyped, Kernel, StoreAssumption, PhaseInv, On
<1>4. i \in Id /\ i[2] = kernel.sequence + 1 /\ new # None /\ i # None
  <2>1. i \in Id
    BY <1>0, <1>2, <1>3 DEF Id
  <2>2. Len(attempts) \in 1..MaxAttempts
    BY <1>1, <1>3 DEF StoreTyped, PhaseInv
  <2>3. new \in Entry
    BY <1>0, <1>2, <1>3, <2>2 DEF Entry
  <2> QED
    BY <1>0, <2>1, <2>3 DEF StoreAssumption
<1>5. new.at = clock + 1 /\ new.eligible = eligible
  BY <1>0
<1>6. /\ kernel'.step = "index" /\ kernel'.own = kernel.own
      /\ kernel'.sequence = kernel.sequence + 1 /\ (kernel'.failed <=> ~eligible)
      /\ On' /\ Own' = Own
  BY <1>1, <1>2 DEF StoreTyped, Kernel, On, Own, Begun, PublishingSteps
<1>7. /\ envelope'[i] = new /\ \A j \in Id : j # i => envelope'[j] = envelope[j]
  BY <1>1, <1>2, <1>4 DEF StoreTyped
<1>8. /\ report = None /\ OfAttempt = None /\ OfAttempt' = None /\ report' = None
      /\ Own <= kernel.sequence
  BY <1>2, <1>3, RunningIs DEF OfAttempt
<1>9. /\ \A c \in Id : c # i => (Usable(c)' <=> Usable(c))
      /\ Usable(i)' <=> eligible
      /\ \A c \in Id : Row(c)' <=> Row(c)
  BY <1>2, <1>4, <1>5, <1>7 DEF Usable, Row
<1>10. \A c \in Id : UsableRow(c)' => UsableRow(c) \/ (c = i /\ eligible)
  BY <1>9 DEF UsableRow
<1>11. CASE Nothing
  BY <1>2, <1>3, <1>6, <1>8, <1>9, <1>11 DEF Nothing, RunInv, PublishingSteps
<1>12. CASE Saved
  <2>1. PICK k \in Id : Floor(k)
    BY <1>12 DEF Saved
  <2>2. Kept /\ RangeInv
    BY <1>12 DEF Saved
  <2>3. k # i /\ envelope'[k] = envelope[k] /\ k[2] <= kernel.sequence /\ UsableRow(k)'
    BY <1>2, <1>3, <1>4, <1>7, <1>9, <2>1, NumbersOf DEF Floor, UsableRow
  <2>4. ASSUME NEW c \in Id, Covers(c, k) PROVE Covers(c, k)'
    <3>1. c[2] >= k[2] /\ envelope'[c] # None
      BY <1>4, <1>7, <2>4 DEF Covers
    <3>2. ASSUME Usable(c)' PROVE envelope'[c].at >= envelope'[k].at
      <4>1. CASE c = i
        BY <1>4, <1>5, <1>7, <2>3, <4>1, NumbersOf, <2>1 DEF Floor, UsableRow, Usable
      <4>2. CASE c # i
        BY <1>7, <1>9, <2>3, <2>4, <3>2, <4>2 DEF Covers
      <4> QED
        BY <4>1, <4>2
    <3> QED
      BY <3>1, <3>2 DEF Covers
  <2>5. kernel.own # None /\ kernel.own \in Id /\ kernel.own # i /\ Own = kernel.own[2]
        /\ (~kernel.failed => kernel.sequence = Own)
    BY <1>2, <1>3, <1>4, <1>8, <2>2, NumbersOf
    DEF Kept, Begun, Ref, SequenceOf, Own, PublishingSteps
  <2>6. Floor(k)'
    <3>1. \A c \in {manifest.latest, latest, kernel.own} : c # None => c \in Id
      BY NumbersOf DEF Ref
    <3>2. \A j \in Id : UsableRow(j)' /\ j[2] > k[2] => envelope'[j].at >= envelope'[k].at
      <4> SUFFICES ASSUME NEW j \in Id, UsableRow(j)', j[2] > k[2]
                   PROVE  envelope'[j].at >= envelope'[k].at
        OBVIOUS
      <4>1. CASE j = i
        BY <1>4, <1>5, <1>7, <2>3, <4>1, NumbersOf, <2>1 DEF Floor, UsableRow, Usable
      <4>2. CASE j # i
        BY <1>7, <1>10, <2>1, <2>3, <4>2 DEF Floor
      <4> QED
        BY <4>1, <4>2
    <3>3. Usable(kernel.own)'
      BY <1>6, <1>9, <2>1, <2>5 DEF Floor
    <3>4. kernel'.sequence >= k[2]
      BY <1>3, <1>6, <2>3, NumbersOf
    <3> QED
      BY <1>2, <1>6, <1>8, <2>1, <2>3, <2>4, <3>1, <3>2, <3>3, <3>4 DEF Floor
  <2>7. Kept'
    BY <1>2, <1>3, <1>6, <1>8, <2>2, <2>5 DEF Kept, Begun, PublishingSteps
  <2>8. \A j \in Id : UsableRow(j)' =>
           UsableRow(j) \/ (j = i /\ eligible /\ j[2] = Own + 1 /\ kernel.sequence = Own)
    BY <1>2, <1>4, <1>10, <2>5
  <2>9. Within(kernel.own)'
    BY <1>3, <1>6, <2>2, <2>5, <2>8, NumbersOf DEF RangeInv, Within, SequenceOf
  <2>10. ASSUME NEW c \in Id, Within(c), eligible => Own <= c[2] PROVE Within(c)'
    BY <2>8, <2>10, NumbersOf DEF Within, SequenceOf
  <2>11. Within(i)'
    <3>1. \A j \in Id : UsableRow(j) => j[2] <= kernel.sequence + 1
      BY <1>3, <1>8, <2>2, <2>5, NumbersOf DEF RangeInv, Within
    <3> QED
      BY <1>4, <2>8, <3>1, NumbersOf DEF Within
  <2>12. ASSUME Usable(manifest.latest)'
         PROVE  /\ Within(manifest.latest)'
                /\ manifest.latest[2] <= kernel.sequence + 1
                /\ eligible => manifest.latest[2] >= Own
    <3>1. manifest.latest \in Id
      BY <1>2, <2>12, NumbersOf DEF Ref, Usable
    <3>2. CASE manifest.latest = i
      BY <1>2, <1>3, <1>4, <1>8, <2>11, <3>2, NumbersOf
    <3>3. CASE manifest.latest # i
      <4>1. Usable(manifest.latest)
        BY <1>2, <1>9, <2>12, <3>1, <3>3
      <4>2. /\ Within(manifest.latest) /\ manifest.latest[2] <= kernel.sequence
            /\ eligible => manifest.latest[2] >= Own
        BY <1>2, <1>3, <2>2, <4>1 DEF RangeInv
      <4> QED
        BY <1>2, <1>3, <2>10, <3>1, <4>2, NumbersOf
    <3> QED
      BY <3>2, <3>3
  <2>13. ASSUME ~(Usable(manifest.latest)'), Usable(latest)'
         PROVE  Within(latest)' /\ (eligible => Own <= latest[2])
    <3>1. latest \in Id
      BY <1>2, <2>13, NumbersOf DEF Ref, Usable
    <3>2. CASE latest = i
      BY <1>2, <1>3, <1>4, <1>8, <2>11, <3>2, NumbersOf
    <3>3. CASE latest # i
      <4>1. Usable(latest)
        BY <1>2, <1>9, <2>13, <3>1, <3>3
      <4>2. ~Usable(manifest.latest)
        <5> SUFFICES ASSUME Usable(manifest.latest) PROVE FALSE
          OBVIOUS
        <5>1. manifest.latest \in Id /\ manifest.latest[2] <= kernel.sequence
          BY <1>3, <2>2, NumbersOf DEF RangeInv, Ref, Usable
        <5>2. manifest.latest # i
          BY <1>3, <1>4, <5>1, NumbersOf
        <5> QED
          BY <1>2, <1>9, <2>13, <5>1, <5>2
      <4>3. Within(latest) /\ (eligible => Own <= latest[2])
        BY <1>2, <1>3, <2>2, <4>1, <4>2 DEF RangeInv
      <4> QED
        BY <1>2, <2>10, <3>1, <4>3
    <3> QED
      BY <3>2, <3>3
  <2>14. RangeInv'
    BY <1>2, <1>6, <1>8, <2>9, <2>12, <2>13 DEF RangeInv
  <2> QED
    BY <2>6, <2>7, <2>14 DEF Saved, RunInv
<1> QED
  BY <1>11, <1>12 DEF RunInv

LEMMA WriteIndexKeepsRun ==
  ASSUME StoreAssumption, StoreInv, RunInv, WriteIndex
  PROVE  RunInv'
<1>0. PICK i : i = Publishing
  OBVIOUS
<1>1. StoreTyped /\ PhaseInv /\ FilesInv
  BY DEF StoreInv
<1>2. /\ kernel.step = "index"
      /\ index' = [index EXCEPT ![i] = envelope[i]]
      /\ kernel' = [kernel EXCEPT !.step = "latest"]
      /\ UNCHANGED <<envelope, latest, manifest, attempts, host, stale, report, answered, clock,
                     known>>
  BY <1>0 DEF WriteIndex
<1>3. /\ kernel'.step = "latest" /\ kernel'.own = kernel.own
      /\ kernel'.sequence = kernel.sequence /\ kernel'.failed = kernel.failed
      /\ On /\ On' /\ Own' = Own
  BY <1>1, <1>2 DEF StoreTyped, Kernel, PublishingSteps, On, Own
<1>4. i \in Id /\ i[2] = kernel.sequence
  BY <1>0, <1>1, <1>2 DEF StoreTyped, Kernel, PhaseInv, On, Id, Publishing, SequenceOf, Ref,
     PublishingSteps
<1>5. /\ envelope[i] # None /\ envelope[i].at = clock
      /\ envelope[i].eligible = ~kernel.failed
      /\ \A j \in Id : index[j] # None => index[j].at < clock
  BY <1>0, <1>1, <1>2 DEF FilesInv, PublishingSteps
<1>6. index'[i] = envelope[i] /\ \A j \in Id : j # i => index'[j] = index[j]
  BY <1>1, <1>2, <1>4 DEF StoreTyped
<1>7. /\ report = None /\ OfAttempt = None /\ OfAttempt' = None /\ report' = None
      /\ attempts # <<>> /\ Own < kernel.sequence /\ host = "running"
  BY <1>1, <1>2, <1>3, RunningIs DEF OfAttempt, PublishingSteps, PhaseInv
<1>8. /\ \A c : Usable(c)' <=> Usable(c)
      /\ \A c \in Id : c # i => (Row(c)' <=> Row(c)) /\ (UsableRow(c)' <=> UsableRow(c))
      /\ Row(i)' <=> ~kernel.failed
      /\ UsableRow(i)' <=> ~kernel.failed
  BY <1>2, <1>4, <1>5, <1>6, NumbersOf DEF Usable, Row, UsableRow
<1>9. CASE Nothing /\ kernel.failed
  BY <1>2, <1>3, <1>7, <1>8, <1>9 DEF Nothing, RunInv, PublishingSteps
<1>10. CASE Nothing /\ ~kernel.failed
  <2>1. /\ kernel.sequence = 1 /\ known = 0 /\ manifest.latest = None /\ latest = None
        /\ kernel.own = None /\ Own = 0 /\ \A j \in Id : ~Row(j)
    BY <1>2, <1>3, <1>10 DEF Nothing, PublishingSteps, SequenceOf, Own
  <2>2. \A j \in Id : UsableRow(j)' => j = i
    BY <1>8, <2>1 DEF UsableRow
  <2>3. Floor(i)'
    <3>1. UsableRow(i)' /\ index'[i] = envelope'[i] /\ envelope'[i].at >= known'
      BY <1>2, <1>4, <1>5, <1>6, <1>8, <1>10, <2>1, NumbersOf
    <3>2. \A j \in Id : UsableRow(j)' /\ j[2] > i[2] => envelope'[j].at >= envelope'[i].at
      BY <1>4, <2>1, <2>2
    <3> QED
      BY <1>2, <1>3, <1>4, <1>7, <2>1, <3>1, <3>2 DEF Floor
  <2>4. Kept'
    BY <1>2, <1>3, <1>7, <1>10, <2>1 DEF Kept, Begun, PublishingSteps
  <2>5. RangeInv'
    BY <1>2, <1>3, <1>4, <1>7, <2>1, <2>2 DEF RangeInv, Within, SequenceOf, Usable
  <2> QED
    BY <1>4, <2>3, <2>4, <2>5 DEF Saved, RunInv
<1>11. CASE Saved
  <2>1. PICK k \in Id : Floor(k)
    BY <1>11 DEF Saved
  <2>2. Kept /\ RangeInv
    BY <1>11 DEF Saved
  <2>3. /\ k # i /\ UsableRow(k)' /\ index'[k] = index[k] /\ envelope[k].at <= clock
        /\ envelope[k].at \in Nat
    <3>1. UsableRow(k) /\ index[k] = envelope[k] /\ index[k] # None
      BY <2>1 DEF Floor, UsableRow, Row
    <3>2. index[k].at < clock
      BY <1>5, <3>1
    <3>3. k # i
      BY <1>5, <3>1, <3>2, NumbersOf
    <3> QED
      BY <1>6, <1>8, <3>1, <3>3, NumbersOf
  <2>4. \A c : Covers(c, k)' <=> Covers(c, k)
    BY <1>2, <1>8 DEF Covers
  <2>5. Floor(k)'
    <3>1. \A j \in Id : UsableRow(j)' /\ j[2] > k[2] => envelope'[j].at >= envelope'[k].at
      BY <1>2, <1>5, <1>8, <2>1, <2>3, NumbersOf DEF Floor
    <3> QED
      BY <1>2, <1>3, <1>7, <1>8, <2>1, <2>3, <2>4, <3>1 DEF Floor
  <2>6. Kept'
    BY <1>2, <1>3, <1>7, <2>2 DEF Kept, Begun, PublishingSteps
  <2>7. \A j \in Id : UsableRow(j)' =>
           UsableRow(j) \/ (~kernel.failed /\ j[2] = Own + 1)
    BY <1>2, <1>3, <1>4, <1>8, <2>2 DEF Kept, PublishingSteps
  <2>8. ASSUME NEW c \in Ref, Within(c), ~kernel.failed => Own <= SequenceOf(c) PROVE Within(c)'
    <3>1. SequenceOf(c) \in Nat
      BY NumbersOf DEF Ref, SequenceOf
    <3> QED
      BY <2>7, <2>8, <3>1, NumbersOf DEF Within
  <2>9. Within(kernel.own)'
    BY <1>3, <2>2, <2>8, NumbersOf DEF RangeInv, Own
  <2>10. Usable(manifest.latest) => Within(manifest.latest)'
    <3> SUFFICES ASSUME Usable(manifest.latest) PROVE Within(manifest.latest)'
      OBVIOUS
    <3>1. manifest.latest \in Id
      BY NumbersOf DEF Usable, Ref
    <3> QED
      BY <1>2, <1>3, <2>2, <2>8, <3>1, NumbersOf DEF RangeInv, Ref
  <2>11. ~Usable(manifest.latest) /\ Usable(latest) => Within(latest)'
    <3> SUFFICES ASSUME ~Usable(manifest.latest), Usable(latest) PROVE Within(latest)'
      OBVIOUS
    <3>1. latest \in Id
      BY NumbersOf DEF Usable, Ref
    <3> QED
      BY <1>2, <1>3, <2>2, <2>8, <3>1, NumbersOf DEF RangeInv, Ref
  <2>12. RangeInv'
    BY <1>2, <1>3, <1>7, <1>8, <2>2, <2>9, <2>10, <2>11 DEF RangeInv
  <2> QED
    BY <2>5, <2>6, <2>12 DEF Saved, RunInv
<1> QED
  BY <1>9, <1>10, <1>11 DEF RunInv

LEMMA WriteLatestKeepsRun ==
  ASSUME StoreAssumption, StoreInv, RunInv, WriteLatest
  PROVE  RunInv'
<1>1. StoreTyped /\ PhaseInv /\ FilesInv
  BY DEF StoreInv
<1>2. /\ kernel.step = "latest" /\ latest' = NewestRow
      /\ kernel' = [kernel EXCEPT !.step = "manifest"]
      /\ UNCHANGED <<envelope, index, manifest, attempts, host, stale, report, answered, clock,
                     known>>
  BY DEF WriteLatest, NewestRow
<1>3. /\ kernel'.step = "manifest" /\ kernel'.own = kernel.own
      /\ kernel'.sequence = kernel.sequence /\ kernel'.failed = kernel.failed
      /\ On /\ On' /\ Own' = Own
  BY <1>1, <1>2 DEF StoreTyped, Kernel, PublishingSteps, On, Own
<1>4. /\ report = None /\ OfAttempt = None /\ OfAttempt' = None /\ report' = None
      /\ attempts # <<>> /\ host = "running"
  BY <1>1, <1>2, <1>3, RunningIs DEF OfAttempt, PhaseInv
<1>5. \A c : /\ Usable(c)' <=> Usable(c)
             /\ UsableRow(c)' <=> UsableRow(c)
             /\ Row(c)' <=> Row(c)
  BY <1>2 DEF Usable, UsableRow, Row
<1>6. CASE Nothing
  <2>1. NewestRow = None
    BY <1>1, <1>6, NewestRowIs DEF Nothing
  <2> QED
    BY <1>2, <1>3, <1>4, <1>5, <1>6, <2>1 DEF Nothing, RunInv, PublishingSteps
<1>7. CASE Saved
  <2>1. PICK k \in Id : Floor(k)
    BY <1>7 DEF Saved
  <2>2. Kept /\ RangeInv
    BY <1>7 DEF Saved
  <2>3. PICK q \in Id : q = NewestRow
    BY <2>1, NewestIsGood
  <2>4. Covers(q, k) /\ Within(q) /\ \A j \in Id : Row(j) => j[2] <= q[2]
    BY <2>1, <2>3, NewestIsGood
  <2>5. \A c : (Covers(c, k)' <=> Covers(c, k)) /\ (Within(c)' <=> Within(c))
    BY <1>2, <1>5 DEF Covers, Within, SequenceOf
  <2>6. ~kernel.failed => Own <= q[2]
    <3> SUFFICES ASSUME ~kernel.failed PROVE Own <= q[2]
      OBVIOUS
    <3>1. Publishing \in Id /\ Publishing[2] = kernel.sequence
      BY <1>1, <1>2
      DEF StoreTyped, Kernel, PhaseInv, On, Id, Publishing, SequenceOf, Ref, PublishingSteps
    <3>2. Row(Publishing)
      BY <1>1, <1>2 DEF FilesInv, PublishingSteps, Row
    <3>3. kernel.sequence = Own + 1
      BY <1>2, <1>3, <2>2 DEF Kept, PublishingSteps
    <3> QED
      BY <2>4, <3>1, <3>2, <3>3, NumbersOf
  <2>7. Floor(k)'
    BY <1>2, <1>3, <1>4, <1>5, <2>1, <2>3, <2>4, <2>5 DEF Floor
  <2>8. Kept'
    BY <1>2, <1>3, <1>4, <2>2 DEF Kept, Begun, PublishingSteps
  <2>9. RangeInv'
    BY <1>2, <1>3, <1>4, <1>5, <2>2, <2>3, <2>4, <2>5, <2>6 DEF RangeInv
  <2> QED
    BY <2>7, <2>8, <2>9 DEF Saved, RunInv
<1> QED
  BY <1>6, <1>7 DEF RunInv

LEMMA NameCheckpointKeepsRun ==
  ASSUME StoreAssumption, StoreInv, RunInv, NameCheckpoint
  PROVE  RunInv'
<1>0. PICK i, own : i = Publishing /\ own = IF envelope[i].eligible THEN i ELSE kernel.own
  OBVIOUS
<1>1. StoreTyped /\ PhaseInv /\ FilesInv
  BY DEF StoreInv
<1>2. /\ kernel.step = "manifest"
      /\ manifest' = [manifest EXCEPT !.attempt = Len(attempts), !.latest = NewestRow,
                                      !.resumable = NewestRow # None]
      /\ kernel' = [kernel EXCEPT !.step = "run", !.own = own]
      /\ known' = IF envelope[i].eligible THEN envelope[i].at ELSE known
      /\ UNCHANGED <<envelope, index, latest, attempts, host, stale, report, answered, clock>>
  BY <1>0 DEF NameCheckpoint, NewestRow
<1>3. /\ kernel'.step = "run" /\ kernel'.own = own
      /\ kernel'.sequence = kernel.sequence /\ kernel'.failed = kernel.failed
      /\ On /\ On' /\ Own' = SequenceOf(own)
      /\ manifest'.latest = NewestRow /\ manifest'.attempt = Len(attempts)
      /\ manifest'.state = manifest.state
  BY <1>1, <1>2 DEF StoreTyped, Kernel, Manifest, On, Own, SequenceOf
<1>4. i \in Id /\ i[2] = kernel.sequence
  BY <1>0, <1>1, <1>2 DEF StoreTyped, Kernel, PhaseInv, On, Id, Publishing, SequenceOf, Ref,
     PublishingSteps
<1>5. /\ envelope[i] # None /\ envelope[i].at = clock /\ index[i] = envelope[i]
      /\ (envelope[i].eligible <=> ~kernel.failed) /\ latest = NewestRow
  BY <1>0, <1>1, <1>2, NumbersOf DEF FilesInv, PublishingSteps, NewestRow
<1>6. /\ report = None /\ report' = None /\ OfAttempt' = None
      /\ attempts # <<>> /\ host = "running" /\ Own < kernel.sequence
      /\ attempts[Len(attempts)].latest = None
  BY <1>1, <1>2, <1>3, RunningIs DEF OfAttempt, PublishingSteps, PhaseInv
<1>7. \A c : /\ Usable(c)' <=> Usable(c)
             /\ UsableRow(c)' <=> UsableRow(c)
             /\ Row(c)' <=> Row(c)
  BY <1>2 DEF Usable, UsableRow, Row
<1>8. CASE Nothing
  <2>1. kernel.failed /\ NewestRow = None
    BY <1>1, <1>2, <1>8, NewestRowIs DEF Nothing, PublishingSteps
  <2>2. own = kernel.own /\ known' = known
    BY <1>0, <1>2, <1>5, <2>1
  <2> QED
    BY <1>2, <1>3, <1>6, <1>7, <1>8, <2>1, <2>2 DEF Nothing, RunInv, PublishingSteps
<1>9. CASE Saved
  <2>1. PICK k \in Id : Floor(k)
    BY <1>9 DEF Saved
  <2>2. Kept /\ RangeInv
    BY <1>9 DEF Saved
  <2>3. PICK q \in Id : q = NewestRow
    BY <2>1, NewestIsGood
  <2>4. /\ Covers(q, k) /\ Within(q) /\ Row(q) /\ q # None
        /\ \A j \in Id : Row(j) => j[2] <= q[2]
    BY <2>1, <2>3, NewestIsGood
  <2>5. \A c, f : (Covers(c, f)' <=> Covers(c, f)) /\ (Within(c)' <=> Within(c))
    BY <1>2, <1>7 DEF Covers, Within, SequenceOf
  <2>6. Usable(q) => UsableRow(q) /\ q[2] <= Own + 1
    BY <1>3, <2>2, <2>4, NumbersOf DEF UsableRow, RangeInv, Within, Own
  <2>7. CASE kernel.failed
    <3>1. own = kernel.own /\ known' = known /\ own # None
      BY <1>0, <1>2, <1>3, <1>5, <2>2, <2>7 DEF Kept
    <3>2. Floor(k)'
      BY <1>2, <1>3, <1>5, <1>6, <1>7, <2>1, <2>3, <2>4, <2>5, <3>1 DEF Floor
    <3>3. Kept'
      BY <1>2, <1>3, <1>5, <1>6, <2>7, <3>1 DEF Kept, Begun, PublishingSteps
    <3>4. Usable(q) => q[2] <= kernel.sequence
      BY <1>6, <2>6, NumbersOf
    <3>5. RangeInv'
      BY <1>2, <1>3, <1>5, <1>6, <1>7, <2>2, <2>3, <2>4, <2>5, <2>7, <3>1, <3>4 DEF RangeInv
    <3> QED
      BY <3>2, <3>3, <3>5 DEF Saved, RunInv
  <2>8. CASE ~kernel.failed
    <3>1. /\ own = i /\ own # None /\ known' = envelope[i].at /\ Usable(i) /\ Row(i)
          /\ UsableRow(i) /\ SequenceOf(i) = i[2] /\ i[2] = Own + 1
      BY <1>0, <1>2, <1>3, <1>4, <1>5, <2>2, <2>8, NumbersOf
         DEF Kept, PublishingSteps, Usable, Row, UsableRow
    <3>2. i[2] <= q[2]
      BY <1>4, <2>4, <3>1
    <3>3. Usable(q) => q[2] = i[2]
      BY <2>6, <3>1, <3>2, NumbersOf
    <3>4. Covers(q, i)
      <4>1. ASSUME Usable(q) PROVE envelope[q].at >= envelope[i].at
        <5>1. NewestRow \in Id /\ Row(NewestRow) /\ index[i].at <= index[NewestRow].at
          BY <1>1, <1>4, <2>3, <2>4, <3>1, <3>3, <4>1, NewestRowIs
        <5> QED
          BY <1>4, <1>5, <2>3, <5>1, NumbersOf DEF Row
      <4> QED
        BY <2>4, <3>2, <4>1 DEF Covers
    <3>5. Covers(i, i)
      BY <1>4, <1>5, NumbersOf DEF Covers
    <3>6. \A j \in Id : UsableRow(j) => j[2] <= i[2]
      BY <1>3, <2>2, <3>1 DEF RangeInv, Within, Own
    <3>7. Floor(i)'
      <4>1. \A j \in Id : UsableRow(j)' /\ j[2] > i[2] => envelope'[j].at >= envelope'[i].at
        BY <1>4, <1>7, <3>6, NumbersOf
      <4>2. envelope[i].at >= envelope[i].at /\ kernel.sequence >= i[2]
        BY <1>4, <1>5, NumbersOf
      <4> QED
        BY <1>2, <1>3, <1>5, <1>6, <1>7, <2>3, <2>5, <3>1, <3>4, <3>5, <4>1, <4>2 DEF Floor
    <3>8. Kept'
      BY <1>2, <1>3, <1>4, <1>6, <2>8, <3>1 DEF Kept, Begun, PublishingSteps
    <3>9. Within(i)
      BY <1>4, <3>1, <3>6, NumbersOf DEF Within
    <3>10. RangeInv'
      BY <1>2, <1>3, <1>4, <1>5, <1>6, <1>7, <2>3, <2>4, <2>5, <3>1, <3>3, <3>9, NumbersOf
         DEF RangeInv
    <3> QED
      BY <1>4, <3>7, <3>8, <3>10 DEF Saved, RunInv
  <2> QED
    BY <2>7, <2>8
<1> QED
  BY <1>8, <1>9 DEF RunInv

(* As long as envelopes and rows stay, so does what can be used.           *)
LEMMA StepKeepsUse ==
  ASSUME UNCHANGED <<envelope, index>>
  PROVE  /\ \A c : /\ Usable(c)' <=> Usable(c)
                   /\ UsableRow(c)' <=> UsableRow(c)
                   /\ Row(c)' <=> Row(c)
         /\ \A c, f : (Covers(c, f)' <=> Covers(c, f)) /\ (Within(c)' <=> Within(c))
<1>1. \A c : /\ Usable(c)' <=> Usable(c)
             /\ UsableRow(c)' <=> UsableRow(c)
             /\ Row(c)' <=> Row(c)
  BY DEF Usable, UsableRow, Row
<1> QED
  BY <1>1 DEF Covers, Within, SequenceOf

LEMMA OffIs ==
  ASSUME kernel' = NoKernel
  PROVE  ~On' /\ kernel'.step = "off" /\ kernel'.own = None /\ ~kernel'.failed /\ kernel'.sequence = 0
BY DEF NoKernel, On

LEMMA StopKeepsRun ==
  ASSUME StoreAssumption, StoreInv, RunInv, LoseKernel \/ MachineStops
  PROVE  RunInv'
<1>1. /\ report' = None /\ kernel' = NoKernel /\ host' \in {"failed", "crashed"}
      /\ UNCHANGED <<envelope, index, latest, manifest, attempts, known>>
  BY DEF LoseKernel, MachineStops, files
<1>2. /\ ~On' /\ kernel'.step = "off" /\ kernel'.own = None
      /\ OfAttempt' = OfAttempt
  BY <1>1, OffIs DEF OfAttempt
<1>3. CASE Nothing
  BY <1>1, <1>2, <1>3, StepKeepsUse DEF Nothing, RunInv, PublishingSteps
<1>4. CASE Saved
  <2>1. PICK k \in Id : Floor(k)
    BY <1>4 DEF Saved
  <2>2. Kept /\ RangeInv
    BY <1>4 DEF Saved
  <2>3. Floor(k)'
    BY <1>1, <1>2, <2>1, StepKeepsUse DEF Floor
  <2>4. Kept'
    BY <1>1, <1>2, <2>2 DEF Kept, Begun, PublishingSteps
  <2>5. RangeInv'
    BY <1>1, <1>2, <2>2, StepKeepsUse DEF RangeInv
  <2> QED
    BY <2>3, <2>4, <2>5 DEF Saved, RunInv
<1> QED
  BY <1>3, <1>4 DEF RunInv

LEMMA RespondKeepsRun ==
  ASSUME StoreAssumption, StoreInv, RunInv, NEW o \in {"completed", "cancelled", "failed"},
         Respond(o)
  PROVE  RunInv'
<1>1. /\ kernel.step = "run" /\ kernel' = NoKernel /\ host' = o
      /\ UNCHANGED <<envelope, index, latest, manifest, attempts, known>>
      /\ kernel.own = None => report' = ResumePoint
      /\ kernel.own # None /\ Usable(kernel.own) => report' = kernel.own
  BY DEF Respond, files
<1>2. /\ ~On' /\ kernel'.step = "off" /\ kernel'.own = None /\ On
  BY <1>1, OffIs DEF On
<1>3. OfAttempt = None /\ OfAttempt' = None
  BY <1>1, <1>2, RunningIs DEF OfAttempt
<1>4. CASE Nothing
  <2>1. report' = None
    BY <1>1, <1>4, NothingToResume DEF Nothing
  <2> QED
    BY <1>1, <1>2, <1>4, <2>1, StepKeepsUse DEF Nothing, RunInv, PublishingSteps
<1>5. CASE Saved
  <2>1. PICK k \in Id : Floor(k)
    BY <1>5 DEF Saved
  <2>2. Kept /\ RangeInv
    BY <1>5 DEF Saved
  <2>3. PICK own \in Id : own = kernel.own
    BY <1>1, <2>2, NumbersOf DEF Kept, Begun, Ref
  <2>4. /\ own # None /\ Usable(own) /\ Covers(own, k) /\ Within(own) /\ Own = own[2]
        /\ report' = own
    BY <1>1, <1>2, <2>1, <2>2, <2>3, NumbersOf DEF Floor, RangeInv, Own
  <2>5. ~Usable(manifest.latest) /\ Usable(latest) => own[2] <= latest[2]
    BY <1>1, <1>2, <2>2, <2>4 DEF RangeInv, Kept
  <2>6. Floor(k)'
    BY <1>1, <1>2, <1>3, <2>1, <2>4, StepKeepsUse DEF Floor
  <2>7. Kept'
    BY <1>1, <1>2, <2>2 DEF Kept, Begun, PublishingSteps
  <2>8. RangeInv'
    BY <1>1, <1>2, <1>3, <2>2, <2>4, <2>5, StepKeepsUse DEF RangeInv
  <2> QED
    BY <2>6, <2>7, <2>8 DEF Saved, RunInv
<1> QED
  BY <1>4, <1>5 DEF RunInv

LEMMA FinishAttemptKeepsRun ==
  ASSUME StoreAssumption, StoreInv, RunInv, FinishAttempt
  PROVE  RunInv'
<1>0. PICK c, s : c = Reference /\ s = Lifecycle
  OBVIOUS
<1>1. StoreTyped /\ PhaseInv
  BY DEF StoreInv
<1>2. /\ host \in {"completed", "cancelled", "failed"} /\ host' = "finishing"
      /\ attempts' = [attempts EXCEPT ![Len(attempts)] = [latest |-> c, state |-> s]]
      /\ report' = c
      /\ UNCHANGED <<envelope, index, latest, manifest, kernel, known>>
  BY <1>0 DEF FinishAttempt
<1>3. /\ kernel.step = "off" /\ ~On /\ ~On' /\ kernel'.step = "off" /\ kernel'.own = kernel.own
      /\ attempts # <<>> /\ manifest.attempt = Len(attempts) /\ Len(attempts) \in Nat
      /\ attempts[Len(attempts)].latest = None
  BY <1>1, <1>2, LenIsNat DEF PhaseInv, On
<1>4. /\ Len(attempts) >= 1 /\ DOMAIN attempts = 1..Len(attempts)
      /\ Len(attempts') = Len(attempts) /\ attempts' # <<>>
      /\ DOMAIN attempts' = DOMAIN attempts
      /\ attempts'[Len(attempts)] = [latest |-> c, state |-> s]
      /\ \A a \in DOMAIN attempts : a # Len(attempts) => attempts'[a] = attempts[a]
  BY <1>1, <1>2, <1>3 DEF StoreTyped
<1>5. /\ OfAttempt' = c /\ attempts'[Len(attempts')].latest = c
      /\ attempts'[Len(attempts')].state = s
  BY <1>2, <1>3, <1>4 DEF OfAttempt
<1>6. CASE Nothing
  <2>1. c = None
    BY <1>0, <1>6, NothingToResume DEF Nothing, Reference
  <2>2. s \in {"completed", "cancelled", "failed"}
    BY <1>0, <1>2, <2>1 DEF Lifecycle
  <2>3. \A a \in DOMAIN attempts' : attempts'[a].latest = None
    BY <1>4, <1>6, <2>1 DEF Nothing
  <2> QED
    BY <1>2, <1>3, <1>4, <1>5, <1>6, <2>1, <2>2, <2>3, StepKeepsUse
    DEF Nothing, RunInv, PublishingSteps
<1>7. CASE Saved
  <2>1. PICK k \in Id : Floor(k)
    BY <1>7 DEF Saved
  <2>2. Kept /\ RangeInv
    BY <1>7 DEF Saved
  <2>3. /\ c \in Id /\ c # None /\ Usable(c) /\ Covers(c, k) /\ Within(c)
        /\ ~Usable(manifest.latest) /\ Usable(latest) => c[2] <= latest[2]
    <3>1. CASE report # None
      <4>1. c = report /\ c \in Id
        BY <1>0, <3>1, NumbersOf DEF Reference, Ref
      <4> QED
        BY <2>1, <2>2, <3>1, <4>1 DEF Floor, RangeInv
    <3>2. CASE report = None
      BY <1>0, <2>1, <2>2, <3>2, PointIsGood DEF Reference
    <3> QED
      BY <3>1, <3>2
  <2>4. s \in {"completed", "cancelled", "paused"}
    BY <1>0, <1>2, <2>3 DEF Lifecycle
  <2>5. Floor(k)'
    BY <1>2, <1>3, <1>5, <2>1, <2>3, StepKeepsUse DEF Floor
  <2>6. Kept'
    BY <1>2, <1>3, <1>4, <1>5, <2>2, <2>3, <2>4 DEF Kept, Begun, PublishingSteps
  <2>7. RangeInv'
    BY <1>2, <1>3, <1>5, <2>2, <2>3, StepKeepsUse, NumbersOf DEF RangeInv
  <2> QED
    BY <2>5, <2>6, <2>7 DEF Saved, RunInv
<1> QED
  BY <1>6, <1>7 DEF RunInv

LEMMA FinishRunKeepsRun ==
  ASSUME StoreAssumption, StoreInv, RunInv, FinishRun
  PROVE  RunInv'
<1>0. PICK s : s = attempts[Len(attempts)].state
  OBVIOUS
<1>1. StoreTyped /\ PhaseInv
  BY DEF StoreInv
<1>2. /\ host = "finishing"
      /\ manifest' = [latest |-> report, attempt |-> stale, state |-> s,
                      resumable |-> report # None]
      /\ host' = IF s = "failed" /\ ~KeepFailures THEN "pruning" ELSE "idle"
      /\ UNCHANGED <<envelope, index, latest, attempts, report, kernel, known>>
  BY <1>0 DEF FinishRun
<1>3. /\ kernel.step = "off" /\ ~On /\ ~On' /\ kernel'.step = "off" /\ kernel'.own = kernel.own
      /\ manifest'.latest = report /\ manifest'.state = s
      /\ manifest'.resumable = (report # None)
  BY <1>1, <1>2 DEF PhaseInv, On
<1>4. CASE Nothing
  <2>1. report = None /\ s \in {"completed", "cancelled", "failed"}
    BY <1>0, <1>2, <1>4 DEF Nothing
  <2> QED
    BY <1>2, <1>3, <1>4, <2>1, StepKeepsUse DEF Nothing, RunInv, PublishingSteps
<1>5. CASE Saved
  <2>1. PICK k \in Id : Floor(k)
    BY <1>5 DEF Saved
  <2>2. Kept /\ RangeInv
    BY <1>5 DEF Saved
  <2>3. PICK c \in Id : c = report
    BY <1>2, <2>2, NumbersOf DEF Kept, Ref
  <2>4. c # None /\ Usable(c) /\ Covers(c, k) /\ Within(c) /\ s \in {"completed", "cancelled", "paused"}
    BY <1>0, <1>2, <2>1, <2>2, <2>3 DEF Floor, RangeInv, Kept
  <2>5. host' = "idle"
    BY <1>2, <2>4
  <2>6. Floor(k)'
    BY <1>2, <1>3, <2>1, <2>3, <2>4, StepKeepsUse DEF Floor
  <2>7. Kept'
    BY <1>2, <1>3, <2>2, <2>3, <2>4, <2>5, StepKeepsUse DEF Kept, Begun, PublishingSteps
  <2>8. RangeInv'
    BY <1>2, <1>3, <2>2, <2>3, <2>4, StepKeepsUse DEF RangeInv
  <2> QED
    BY <2>6, <2>7, <2>8 DEF Saved, RunInv
<1> QED
  BY <1>4, <1>5 DEF RunInv

LEMMA PruneKeepsRun ==
  ASSUME StoreAssumption, StoreInv, RunInv, PruneFiles \/ NamePruned
  PROVE  RunInv'
<1>1. StoreTyped /\ PhaseInv /\ None \notin Id
  BY DEF StoreInv, StoreAssumption
<1>2. host \in {"pruning", "pruned"}
  BY DEF PruneFiles, NamePruned
<1>3. Nothing /\ ~On
  BY <1>1, <1>2 DEF RunInv, Saved, Kept, PhaseInv
<1>4. CASE PruneFiles
  <2>1. \A i \in Id : ~Row(i)'
    BY <1>4 DEF PruneFiles, Row
  <2> QED
    BY <1>2, <1>3, <1>4, <2>1 DEF PruneFiles, Nothing, RunInv, On, PublishingSteps
<1>5. CASE NamePruned
  <2>1. manifest'.latest = None /\ manifest'.state = "pruned" /\ manifest'.resumable = FALSE
    BY <1>1, <1>5 DEF NamePruned, StoreTyped, Manifest
  <2>2. \A i \in Id : ~Row(i)'
    BY <1>3, <1>5 DEF NamePruned, Nothing, Row
  <2> QED
    BY <1>2, <1>3, <1>5, <2>1, <2>2 DEF NamePruned, Nothing, RunInv, On, PublishingSteps
<1> QED
  BY <1>4, <1>5
LEMMA RunStepKeeps ==
  ASSUME StoreAssumption, ~Explicit, StoreInv, RunInv, [StoreNext]_storeVars
  PROVE  RunInv'
<1>1. CASE Solve \/ ResumeRun \/ ResumeCheckpoint
  BY <1>1, BeginKeepsRun
<1>2. CASE NameAttempt \/ (\E e \in BOOLEAN : WriteEnvelope(e)) \/ WriteIndex \/ WriteLatest
           \/ NameCheckpoint
  BY <1>2, NameAttemptKeepsRun, WriteEnvelopeKeepsRun, WriteIndexKeepsRun, WriteLatestKeepsRun,
     NameCheckpointKeepsRun
<1>3. CASE (\E o \in {"completed", "cancelled", "failed"} : Respond(o)) \/ LoseKernel
           \/ FinishAttempt \/ FinishRun \/ PruneFiles \/ NamePruned \/ MachineStops
  BY <1>3, RespondKeepsRun, StopKeepsRun, FinishAttemptKeepsRun, FinishRunKeepsRun, PruneKeepsRun
<1>4. CASE UNCHANGED storeVars
  <2>1. UNCHANGED <<envelope, index, latest, manifest, attempts, host, report, kernel, known>>
    BY <1>4 DEF storeVars, files
  <2>2. (On' <=> On) /\ Own' = Own /\ OfAttempt' = OfAttempt
    BY <2>1 DEF On, Own, OfAttempt, SequenceOf
  <2>3. \A k : Floor(k)' <=> Floor(k)
    BY <2>1, <2>2, StepKeepsUse DEF Floor
  <2>4. (Kept' <=> Kept) /\ (RangeInv' <=> RangeInv)
    BY <2>1, <2>2, StepKeepsUse DEF Kept, RangeInv
  <2>5. Nothing' <=> Nothing
    BY <2>1, <2>2, StepKeepsUse DEF Nothing
  <2> QED
    BY <2>3, <2>4, <2>5 DEF RunInv, Saved
<1> QED
  BY <1>1, <1>2, <1>3, <1>4 DEF StoreNext

(* On a run that is only resumed by its own reference (resume by run_ref,  *)
(* runtime/host/durable_runs.py) either nothing was ever published that a  *)
(* resume could find, or some checkpoint is a floor: it is eligible, its   *)
(* row is its envelope's, no kernel went on from a later one, and no file  *)
(* a resume may start from names an older one (write_checkpoint,           *)
(* finish_attempt, finish_run).                                            *)
THEOREM RunInvariant == ASSUME StoreAssumption, ~Explicit PROVE StoreSpec => [](StoreInv /\ RunInv)
<1>1. StoreInit => StoreInv /\ RunInv
  <2>1. StoreInit => StoreInv
    BY StoreInitially
  <2>2. StoreInit => Nothing
    BY DEF StoreInit, Nothing, NoKernel, Row, On, PublishingSteps
  <2> QED
    BY <2>1, <2>2 DEF RunInv
<1>2. (StoreInv /\ RunInv) /\ [StoreNext]_storeVars => (StoreInv /\ RunInv)'
  BY StoreStepKeeps, RunStepKeeps
<1> QED
  BY <1>1, <1>2, PTL DEF StoreSpec

(* A checkpoint a kernel has gone on from is never lost to a resume,       *)
(* wherever the kernel or the machine stops: also between two of           *)
(* write_checkpoint's files (latest_usable_checkpoint_ref).                *)
THEOREM KnownHolds == ASSUME StoreAssumption, ~Explicit PROVE StoreSpec => []NothingKnownIsLost
<1>1. StoreInv /\ RunInv => NothingKnownIsLost
  <2> SUFFICES ASSUME StoreInv, RunInv PROVE PointAt >= known
    BY DEF NothingKnownIsLost
  <2>1. CASE Nothing
    BY <2>1, NothingToResume DEF PointAt, Nothing
  <2>2. CASE Saved
    <3>1. PICK k \in Id : Floor(k)
      BY <2>2 DEF Saved
    <3>2. /\ ResumePoint \in Id /\ ResumePoint # None /\ envelope[ResumePoint] # None
          /\ envelope[ResumePoint].at >= envelope[k].at
      BY <2>2, <3>1, PointIsGood DEF Saved, Covers
    <3>3. envelope[k] # None /\ envelope[k].at >= known
      BY <3>1 DEF Floor, UsableRow, Usable
    <3>4. PointAt = envelope[ResumePoint].at
      BY <3>2 DEF PointAt
    <3> QED
      BY <3>1, <3>2, <3>3, <3>4, NumbersOf
  <2> QED
    BY <2>1, <2>2 DEF RunInv
<1> QED
  BY <1>1, RunInvariant, PTL

(* What the manifest of a finished run says of itself is what a resume     *)
(* finds (finish_run, prune_run).                                          *)
THEOREM FinishedHolds == ASSUME StoreAssumption, ~Explicit PROVE StoreSpec => []FinishedRunIsTruthful
<1>1. StoreInv /\ RunInv => FinishedRunIsTruthful
  <2>1. ASSUME StoreInv, Nothing PROVE FinishedRunIsTruthful
    BY <2>1, NothingToResume DEF Nothing, FinishedRunIsTruthful
  <2>2. ASSUME StoreInv, Saved PROVE FinishedRunIsTruthful
    <3>1. PICK k \in Id : Floor(k)
      BY <2>2 DEF Saved
    <3>2. ResumePoint # None
      BY <2>2, <3>1, PointIsGood DEF Saved
    <3> QED
      BY <2>2, <3>2 DEF FinishedRunIsTruthful, Saved, Kept
  <2> QED
    BY <2>1, <2>2 DEF RunInv
<1> QED
  BY <1>1, RunInvariant, PTL

(* Every file of a run and all that host and kernel remember keep their    *)
(* shape (storage/run_store.py).                                           *)
THEOREM StoreTypeCorrect == ASSUME StoreAssumption PROVE StoreSpec => []StoreTypeOK
<1>1. StoreInv => StoreTypeOK
  <2> SUFFICES ASSUME StoreInv PROVE StoreTypeOK
    OBVIOUS
  <2>1. StoreTyped
    BY DEF StoreInv
  <2>2. attempts \in Seq([latest : Ref, state : States])
    BY <2>1 DEF StoreTyped, Attempt
  <2> QED
    BY <2>1, <2>2 DEF StoreTypeOK, StoreTyped, Kernel, Manifest, Begun, PublishingSteps
<1> QED
  BY <1>1, StoreInvariant, PTL

(* However often a run is stopped, resumed and answered, a resume goes on  *)
(* from the last answered attempt's own work; and where every resume is by *)
(* the run's reference, none of what a kernel has gone on from is lost and *)
(* a finished manifest is truthful (storage/run_store.py).                 *)
THEOREM WorkHolds == ASSUME StoreAssumption PROVE StoreSpec => []RunsKeepTheirWork
<1>1. CASE Explicit
  <2>1. AnsweredRunResumesItsOwnWork => RunsKeepTheirWork
    BY <1>1 DEF RunsKeepTheirWork
  <2> QED
    BY <2>1, AnsweredHolds, PTL
<1>2. CASE ~Explicit
  <2>1. AnsweredRunResumesItsOwnWork /\ NothingKnownIsLost /\ FinishedRunIsTruthful
          => RunsKeepTheirWork
    BY DEF RunsKeepTheirWork
  <2>2. (StoreSpec => []NothingKnownIsLost) /\ (StoreSpec => []FinishedRunIsTruthful)
    BY <1>2, KnownHolds, FinishedHolds
  <2> QED
    BY <2>1, <2>2, AnsweredHolds, PTL
<1> QED
  BY <1>1, <1>2
=============================================================================
