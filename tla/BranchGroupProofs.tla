------------------------- MODULE BranchGroupProofs -------------------------
(***************************************************************************)
(* What holds of a branch group for every number of branches and of        *)
(* requests, every bound on faults and attempts, and with or without a     *)
(* provider that can reconcile (runtime/kernel/branches/).                 *)
(*                                                                         *)
(* The inductive invariant GroupInv says of each part of the group what    *)
(* the others rely on: which futures may be in which state in which phase  *)
(* (PoolInv), what a result means (ResultsInv), when the shared state and  *)
(* the checkpoint are eligible (SharedInv), that a thread between a        *)
(* request's launch and its node's end has its progress in the shared      *)
(* state, and on disk while nothing failed (ThreadInv), and what the       *)
(* requests handed over so far allow (SentInv, LateInv, CauseInv).         *)
(*                                                                         *)
(* AccountInv says why a call is charged at most once: the budget can be   *)
(* split into a part for each branch so that the part, with any one of the *)
(* places the branch's calls are still held in, is covered by the requests *)
(* the branch sent.                                                        *)
(***************************************************************************)
EXTENDS BranchGroup, FiniteSetTheorems, TLAPS

-----------------------------------------------------------------------------
(* The inductive invariant.                                                *)

(* Where a thread is between a launch receipt and the end of its node, and *)
(* where no terminal receipt has followed.                                 *)
NodePc == {"launched", "armed", "cleared", "sent", "answered", "kept"}
OpenPc == {"launched", "armed", "cleared", "sent"}
Pcs == NodePc \cup {"idle", "restore", "begin", "next", "closed", "withheld", "published"}

(* The shared state's type around a given sum of charged calls; that the   *)
(* sum is a number follows from AccountInv below.                          *)
SharedFor(s) ==
  [status : [Branches -> Terminal \cup {"none", "pending", "running"}],
   held : SUBSET Branches,
   snap : [Branches -> Progress],
   used : [Branches -> 0..Steps],
   own : [Branches -> Publication],
   listed : [Branches -> Publication],
   spent : {s}]

Typed ==
  /\ mem \in SharedFor(mem.spent)
  /\ disk \in SharedFor(disk.spent)
  /\ phase \in {"ready", "collecting", "draining", "returned", "failed", "killed"}
  /\ event \in BOOLEAN
  /\ erred \in BOOLEAN
  /\ pending \subseteq Branches
  /\ results \in [Branches -> Seq(Result)]
  /\ future \in [Branches -> {"none", "pending", "running", "done", "cancelled"}]
  /\ ret \in [Branches -> Result]
  /\ pc \in [Branches -> Pcs]
  /\ ctx \in [Branches -> Progress]
  /\ sends \in [Branches -> [1..Steps -> Nat]]
  /\ late \in [Branches -> Nat]
  /\ cause \subseteq {"relaunch", "failure"}

(* The pool is there; no branch failed; the siblings were told to stop.    *)
Running == phase \in {"collecting", "draining"}
NoFailure(m) == \A b \in Branches : m.status[b] # "failed"
Halted == erred \/ \E b \in Branches : results[b] # <<>> /\ results[b][1].status = "failed"

(* A thread belongs to a running future, and the futures the coordinator   *)
(* has not taken yet are those it waits for.                               *)
PoolInv ==
  /\ phase = "ready" => disk.held = {} /\ (\A b \in Branches : \A i \in 1..Steps : sends[b][i] = 0)
  /\ phase # "collecting" => pending = {}
  /\ \A b \in Branches :
       /\ pc[b] # "idle" <=> future[b] = "running"
       /\ future[b] \in {"pending", "running"} => Running
       /\ phase = "collecting" /\ future[b] \in {"pending", "running"} => b \in pending
       /\ phase = "draining" => future[b] # "pending"
       /\ b \in pending => future[b] \in {"pending", "running", "done"}

(* A result is a terminal one; a branch that has one and its snapshot too  *)
(* was cancelled before a thread took it, so the group cannot succeed.     *)
ResultsInv ==
  /\ OneResultEach
  /\ phase = "collecting" =>
       \A b \in Branches :
         /\ results[b] # <<>> => results[b][1].status \in Terminal
         /\ b \in mem.held /\ results[b] # <<>> => Halted
         /\ results[b] # <<>> /\ results[b][1].status = "failed" => "failure" \in cause
  /\ Running /\ event => Halted

(* Running branches are those with a snapshot, in the shared state and in  *)
(* the checkpoint; only a branch that ended can be recorded as failed.     *)
SharedInv ==
  /\ \A b \in Branches :
       /\ disk.status[b] # "failed"
       /\ disk.status[b] = "running" <=> b \in disk.held
       /\ Running =>
            /\ mem.status[b] = "running" <=> b \in mem.held
            /\ mem.status[b] = "failed" => future[b] = "done" /\ "failure" \in cause
            /\ future[b] = "done" /\ ret[b].status = "failed" => "failure" \in cause
            /\ future[b] = "done" /\ ret[b].status \in Terminal => b \notin mem.held

WellFormed(p) == p.calls <= p.done /\ (p.open => p.done < Steps)

(* A thread inside a node has its progress in the shared state, and in the *)
(* checkpoint unless a failed branch keeps checkpoints from being eligible.*)
ThreadInv ==
  \A b \in Branches :
    /\ ctx[b].open <=> pc[b] \in OpenPc
    /\ WellFormed(ctx[b]) /\ WellFormed(mem.snap[b]) /\ WellFormed(disk.snap[b])
    /\ pc[b] = "restore" => b \in mem.held
    /\ pc[b] \in NodePc =>
         /\ b \in mem.held
         /\ mem.snap[b] = ctx[b]
         /\ NoFailure(mem) => b \in disk.held /\ disk.snap[b] = ctx[b]

(* No progress claims a node whose request never went out.                 *)
SentInv ==
  \A b \in Branches :
    /\ pc[b] = "sent" => sends[b][ctx[b].done + 1] > 0
    /\ \A i \in 1..Steps :
         i <= ctx[b].done \/ i <= mem.snap[b].done \/ i <= disk.snap[b].done => sends[b][i] > 0

(* A request past the set event was the one already cleared.               *)
LateInv ==
  \A b \in Branches :
    /\ late[b] <= 1
    /\ Running /\ late[b] > 0 => event /\ pc[b] # "cleared"

(* As long as no branch failed and the group was launched once, whatever a *)
(* progress does not know of was never sent: that is why resuming from it  *)
(* repeats nothing.                                                        *)
Unsent(b, i, p) == i > p.done /\ ~(p.open /\ i = p.done + 1) => sends[b][i] = 0

CauseInv ==
  cause = {} =>
    \A b \in Branches : \A i \in 1..Steps :
      /\ sends[b][i] <= 1
      /\ b \in disk.held => Unsent(b, i, disk.snap[b])
      /\ Running /\ b \in mem.held => Unsent(b, i, mem.snap[b])
      /\ pc[b] \notin {"idle", "restore"} => Unsent(b, i, ctx[b])
      /\ pc[b] \in {"launched", "armed", "cleared"} => (i = ctx[b].done + 1 => sends[b][i] = 0)
      /\ future[b] = "pending" /\ b \notin mem.held => sends[b][i] = 0

GroupInv ==
  /\ Typed
  /\ PoolInv
  /\ ResultsInv
  /\ SharedInv
  /\ ThreadInv
  /\ SentInv
  /\ LateInv
  /\ CauseInv
-----------------------------------------------------------------------------
(* The steps of a branch's thread.                                         *)

StepsAreNat == Steps \in Nat \ {0}

LEMMA StepsPositive == StepsAreNat
BY GroupAssumption DEF GroupAssumption, StepsAreNat

(* A branch's step that stores its snapshot and publishes the shared state. *)
Stores(b, to, p) ==
  /\ pc' = [pc EXCEPT ![b] = to]
  /\ ctx' = [ctx EXCEPT ![b] = p]
  /\ Persist(b, p)
  /\ UNCHANGED <<groupVars, future, ret, sendVars, cause>>

StoresSoundly(b, to, p) ==
  /\ p \in Progress
  /\ pc[b] \in {"next"} \cup NodePc
  /\ to \in {"launched", "armed", "answered", "kept", "next"}
  /\ p.open <=> to \in OpenPc
  /\ WellFormed(p)
  /\ \A i \in 1..Steps : i <= p.done => sends[b][i] > 0
  /\ cause = {} =>
       \A i \in 1..Steps :
         /\ Unsent(b, i, p)
         /\ to \in OpenPc => (i = p.done + 1 => sends[b][i] = 0)

LEMMA PersistShape ==
  ASSUME Typed, NEW b \in Branches, NEW p \in Progress, Persist(b, p)
  PROVE  /\ mem' \in SharedFor(mem'.spent)
         /\ mem'.status = [mem.status EXCEPT ![b] = "running"]
         /\ mem'.held = mem.held \cup {b}
         /\ mem'.snap = [mem.snap EXCEPT ![b] = p]
         /\ disk' = IF Eligible(mem') THEN mem' ELSE disk
<1> DEFINE m == [mem EXCEPT !.status[b] = "running",
                            !.held = @ \cup {b},
                            !.snap[b] = p,
                            !.own[b] = "none"]
<1>1. mem' = m /\ disk' = IF Eligible(m) THEN m ELSE disk
  BY DEF Persist, Publish
<1>2. mem \in SharedFor(mem.spent)
  BY DEF Typed
<1>3. m \in SharedFor(mem.spent)
  BY <1>2 DEF SharedFor, Publication, Terminal
<1>4. m.spent = mem.spent
  BY <1>3 DEF SharedFor
<1>5. m.status = [mem.status EXCEPT ![b] = "running"]
  BY <1>2 DEF SharedFor
<1>6. m.held = mem.held \cup {b}
  BY <1>2 DEF SharedFor
<1>7. m.snap = [mem.snap EXCEPT ![b] = p]
  BY <1>2 DEF SharedFor
<1> HIDE DEF m
<1>8. mem' \in SharedFor(mem'.spent)
  BY <1>1, <1>3, <1>4
<1> QED
  BY <1>1, <1>5, <1>6, <1>7, <1>8

LEMMA SharedFields ==
  ASSUME NEW m, NEW s, m \in SharedFor(s)
  PROVE  /\ m.status \in [Branches -> Terminal \cup {"none", "pending", "running"}]
         /\ m.held \subseteq Branches
         /\ m.snap \in [Branches -> Progress]
BY DEF SharedFor

LEMMA StoresKeepTypes ==
  ASSUME GroupInv, NEW b \in Branches, NEW to, NEW p, Stores(b, to, p), StoresSoundly(b, to, p)
  PROVE  Typed'
<1>1. Typed /\ p \in Progress /\ to \in Pcs
  BY DEF GroupInv, StoresSoundly, Pcs, NodePc
<1>2. mem' \in SharedFor(mem'.spent) /\ disk' = IF Eligible(mem') THEN mem' ELSE disk
  BY <1>1, PersistShape DEF Stores
<1>3. disk' \in SharedFor(disk'.spent)
  BY <1>1, <1>2 DEF Typed
<1>4. pc' \in [Branches -> Pcs] /\ ctx' \in [Branches -> Progress]
  BY <1>1 DEF Stores, Typed
<1> QED
  BY <1>1, <1>2, <1>3, <1>4 DEF Typed, Stores, groupVars, sendVars

LEMMA StoresKeepGroup ==
  ASSUME GroupInv, NEW b \in Branches, NEW to, NEW p, Stores(b, to, p), StoresSoundly(b, to, p)
  PROVE  PoolInv' /\ ResultsInv' /\ SharedInv' /\ LateInv'
<1>1. Typed /\ PoolInv /\ ResultsInv /\ SharedInv /\ LateInv /\ p \in Progress /\ to \in Pcs
  BY DEF GroupInv, StoresSoundly, Pcs, NodePc
<1>2. /\ mem'.status = [mem.status EXCEPT ![b] = "running"]
      /\ mem'.held = mem.held \cup {b}
      /\ disk' = IF Eligible(mem') THEN mem' ELSE disk
  BY <1>1, PersistShape DEF Stores
<1>3. mem.status \in [Branches -> Terminal \cup {"none", "pending", "running"}]
  BY <1>1, SharedFields DEF Typed
<1>4. pc[b] # "idle" /\ to # "idle" /\ to # "cleared" /\ future[b] = "running" /\ Running
  BY <1>1 DEF StoresSoundly, NodePc, PoolInv
<1>5. pc \in [Branches -> Pcs] /\ pc' = [pc EXCEPT ![b] = to]
  BY <1>1 DEF Typed, Stores
<1>6. UNCHANGED <<phase, event, erred, pending, results, future, ret, sends, late, cause>>
  BY DEF Stores, groupVars, sendVars
<1>7. SharedInv'
  <2>1. \A c \in Branches : mem'.status[c] = "running" <=> c \in mem'.held
    BY <1>1, <1>2, <1>3, <1>4 DEF SharedInv
  <2>2. \A c \in Branches : disk'.status[c] # "failed" /\ (disk'.status[c] = "running" <=> c \in disk'.held)
    <3>1. CASE Eligible(mem')
      BY <3>1, <1>2, <2>1 DEF Eligible
    <3>2. CASE ~Eligible(mem')
      BY <3>2, <1>1, <1>2 DEF SharedInv
    <3> QED BY <3>1, <3>2
  <2>3. \A c \in Branches : mem'.status[c] = "failed" => future[c] = "done" /\ "failure" \in cause
    BY <1>1, <1>2, <1>3, <1>4 DEF SharedInv
  <2>4. \A c \in Branches : future[c] = "done" /\ ret[c].status \in Terminal => c \notin mem'.held
    BY <1>1, <1>2, <1>4 DEF SharedInv
  <2>5. \A c \in Branches : future[c] = "done" /\ ret[c].status = "failed" => "failure" \in cause
    BY <1>1, <1>4 DEF SharedInv
  <2> QED
    BY <2>1, <2>2, <2>3, <2>4, <2>5, <1>6 DEF SharedInv, Running
<1>8. PoolInv'
  <2>1. phase # "ready"
    BY <1>4 DEF Running
  <2> QED
    BY <2>1, <1>1, <1>4, <1>5, <1>6 DEF PoolInv, Running
<1>9. ResultsInv'
  <2>1. OneResultEach'
    BY <1>1, <1>6 DEF ResultsInv, OneResultEach
  <2>2. phase = "collecting" => b \in pending /\ results[b] = <<>>
    BY <1>1, <1>4 DEF PoolInv, ResultsInv, OneResultEach
  <2> QED
    BY <2>1, <2>2, <1>1, <1>2, <1>6 DEF ResultsInv, Running, Halted
<1>10. LateInv'
  BY <1>1, <1>4, <1>5, <1>6 DEF LateInv, Running
<1> QED
  BY <1>7, <1>8, <1>9, <1>10

LEMMA StoresKeepThreads ==
  ASSUME GroupInv, NEW b \in Branches, NEW to, NEW p, Stores(b, to, p), StoresSoundly(b, to, p)
  PROVE  ThreadInv' /\ SentInv' /\ CauseInv'
<1>1. Typed /\ PoolInv /\ SharedInv /\ ThreadInv /\ SentInv /\ CauseInv /\ p \in Progress /\ to \in Pcs
  BY DEF GroupInv, StoresSoundly, Pcs, NodePc
<1>2. /\ mem'.status = [mem.status EXCEPT ![b] = "running"]
      /\ mem'.held = mem.held \cup {b}
      /\ mem'.snap = [mem.snap EXCEPT ![b] = p]
      /\ disk' = IF Eligible(mem') THEN mem' ELSE disk
  BY <1>1, PersistShape DEF Stores
<1>3. /\ mem.status \in [Branches -> Terminal \cup {"none", "pending", "running"}]
      /\ mem.snap \in [Branches -> Progress]
  BY <1>1, SharedFields DEF Typed
<1>4. pc[b] # "idle" /\ future[b] = "running" /\ Running
  BY <1>1 DEF StoresSoundly, NodePc, PoolInv
<1>5. /\ pc \in [Branches -> Pcs] /\ pc' = [pc EXCEPT ![b] = to]
      /\ ctx \in [Branches -> Progress] /\ ctx' = [ctx EXCEPT ![b] = p]
  BY <1>1 DEF Typed, Stores
<1>6. UNCHANGED <<phase, future, sends, cause>>
  BY DEF Stores, groupVars, sendVars
<1>7. \A c \in Branches : mem'.status[c] = "running" <=> c \in mem'.held
  BY <1>1, <1>2, <1>3, <1>4 DEF SharedInv
<1>8. NoFailure(mem') => disk' = mem' /\ NoFailure(mem)
  <2>1. NoFailure(mem') => Eligible(mem')
    BY <1>7 DEF NoFailure, Eligible
  <2>2. mem.status[b] # "failed"
    BY <1>1, <1>4 DEF SharedInv
  <2>3. NoFailure(mem') => NoFailure(mem)
    BY <2>2, <1>2, <1>3 DEF NoFailure
  <2> QED
    BY <2>1, <2>3, <1>2
<1>9. /\ to # "restore" /\ to # "sent" /\ to # "idle" /\ to # "cleared"
      /\ p.open <=> to \in OpenPc
      /\ WellFormed(p)
  BY DEF StoresSoundly
<1>10. ThreadInv'
  <2> SUFFICES ASSUME NEW c \in Branches
      PROVE /\ ctx'[c].open <=> pc'[c] \in OpenPc
            /\ WellFormed(ctx'[c]) /\ WellFormed(mem'.snap[c]) /\ WellFormed(disk'.snap[c])
            /\ pc'[c] = "restore" => c \in mem'.held
            /\ pc'[c] \in NodePc => /\ c \in mem'.held
                                    /\ mem'.snap[c] = ctx'[c]
                                    /\ NoFailure(mem') => c \in disk'.held /\ disk'.snap[c] = ctx'[c]
    BY DEF ThreadInv, NoFailure, WellFormed
  <2>1. WellFormed(mem'.snap[c])
    BY <1>1, <1>2, <1>3, <1>9 DEF ThreadInv
  <2>2. WellFormed(disk'.snap[c])
    BY <1>1, <1>2, <2>1 DEF ThreadInv
  <2>3. CASE c = b
    BY <2>3, <2>1, <2>2, <1>2, <1>3, <1>5, <1>8, <1>9
  <2>4. CASE c # b
    BY <2>4, <2>1, <2>2, <1>1, <1>2, <1>3, <1>5, <1>8 DEF ThreadInv
  <2> QED
    BY <2>3, <2>4
<1>11. SentInv'
  <2> SUFFICES ASSUME NEW c \in Branches
      PROVE /\ pc'[c] = "sent" => sends[c][ctx'[c].done + 1] > 0
            /\ \A i \in 1..Steps :
                i <= ctx'[c].done \/ i <= mem'.snap[c].done \/ i <= disk'.snap[c].done => sends[c][i] > 0
    BY <1>6 DEF SentInv
  <2>1. \A i \in 1..Steps : i <= p.done => sends[b][i] > 0
    BY DEF StoresSoundly
  <2>2. \A i \in 1..Steps : i <= mem'.snap[c].done \/ i <= ctx'[c].done => sends[c][i] > 0
    BY <2>1, <1>1, <1>2, <1>3, <1>5 DEF SentInv
  <2>3. \A i \in 1..Steps : i <= disk'.snap[c].done => sends[c][i] > 0
    BY <2>2, <1>1, <1>2 DEF SentInv
  <2>4. pc'[c] = "sent" => c # b /\ pc[c] = "sent" /\ ctx'[c] = ctx[c]
    BY <1>5, <1>9
  <2> QED
    BY <2>2, <2>3, <2>4, <1>1 DEF SentInv
<1>12. CauseInv'
  <2> SUFFICES ASSUME cause = {}, NEW c \in Branches, NEW i \in 1..Steps
      PROVE /\ sends[c][i] <= 1
            /\ c \in disk'.held => Unsent(c, i, disk'.snap[c])
            /\ c \in mem'.held => Unsent(c, i, mem'.snap[c])
            /\ pc'[c] \notin {"idle", "restore"} => Unsent(c, i, ctx'[c])
            /\ pc'[c] \in {"launched", "armed", "cleared"} => (i = ctx'[c].done + 1 => sends[c][i] = 0)
            /\ future[c] = "pending" /\ c \notin mem'.held => sends[c][i] = 0
    BY <1>4, <1>6 DEF CauseInv, Unsent
  <2>1. Unsent(b, i, p) /\ (to \in OpenPc => (i = p.done + 1 => sends[b][i] = 0))
    BY DEF StoresSoundly
  <2>2. c \in mem'.held => Unsent(c, i, mem'.snap[c])
    BY <2>1, <1>1, <1>2, <1>3, <1>4 DEF CauseInv
  <2>3. c \in disk'.held => Unsent(c, i, disk'.snap[c])
    BY <2>2, <1>1, <1>2 DEF CauseInv
  <2>4. CASE c = b
    BY <2>1, <2>2, <2>3, <2>4, <1>1, <1>2, <1>4, <1>5, <1>9 DEF CauseInv, OpenPc
  <2>5. CASE c # b
    BY <2>2, <2>3, <2>5, <1>1, <1>2, <1>5 DEF CauseInv
  <2> QED
    BY <2>4, <2>5
<1> QED
  BY <1>10, <1>11, <1>12

LEMMA StoresAreSafe ==
  ASSUME GroupInv, NEW b \in Branches, NEW to, NEW p, Stores(b, to, p), StoresSoundly(b, to, p)
  PROVE  GroupInv'
BY StoresKeepTypes, StoresKeepGroup, StoresKeepThreads DEF GroupInv

LEMMA StoringSteps ==
  ASSUME GroupInv, NEW b \in Branches,
         Launch(b) \/ LaunchBoundary(b) \/ Answer(b) \/ CompletionBoundary(b) \/ CompleteNode(b)
  PROVE  GroupInv'
<1>1. Typed /\ ThreadInv /\ SentInv /\ CauseInv
  BY DEF GroupInv
<1>2. /\ ctx \in [Branches -> Progress]
      /\ ctx[b] \in Progress
      /\ ctx[b].done \in 0..Steps /\ ctx[b].calls \in 0..Steps /\ ctx[b].open \in BOOLEAN
      /\ pc \in [Branches -> Pcs]
      /\ sends \in [Branches -> [1..Steps -> Nat]]
  BY <1>1 DEF Typed, Progress
<1>3. Steps \in Nat /\ Steps > 0
  BY StepsPositive DEF StepsAreNat
<1>4. /\ ctx[b].open <=> pc[b] \in OpenPc
      /\ WellFormed(ctx[b])
      /\ \A i \in 1..Steps : i <= ctx[b].done => sends[b][i] > 0
      /\ cause = {} /\ pc[b] \notin {"idle", "restore"} =>
           \A i \in 1..Steps : Unsent(b, i, ctx[b])
      /\ cause = {} /\ pc[b] \in {"launched", "armed", "cleared"} =>
           \A i \in 1..Steps : i = ctx[b].done + 1 => sends[b][i] = 0
  BY <1>1 DEF ThreadInv, SentInv, CauseInv
<1>5. CASE Launch(b)
  <2> DEFINE p == [ctx[b] EXCEPT !.open = TRUE]
  <2>1. p \in Progress /\ p.done = ctx[b].done /\ p.calls = ctx[b].calls /\ p.open
    BY <1>2 DEF Progress
  <2>2. pc[b] = "next" /\ ctx[b].done < Steps /\ Stores(b, "launched", p)
    BY <1>5 DEF Launch, Goto, Stores
  <2> HIDE DEF p
  <2>3. cause = {} => \A i \in 1..Steps : i > ctx[b].done => sends[b][i] = 0
    BY <2>2, <1>4 DEF Unsent, OpenPc
  <2>4. StoresSoundly(b, "launched", p)
    BY <2>1, <2>2, <2>3, <1>2, <1>3, <1>4 DEF StoresSoundly, WellFormed, OpenPc, Unsent
  <2> QED
    BY <2>2, <2>4, StoresAreSafe
<1>6. CASE LaunchBoundary(b)
  <2>1. ctx' = [ctx EXCEPT ![b] = ctx[b]]
    BY <1>6, <1>2 DEF LaunchBoundary
  <2>2. pc[b] = "launched" /\ Stores(b, "armed", ctx[b])
    BY <1>6, <2>1 DEF LaunchBoundary, Goto, Stores
  <2>3. StoresSoundly(b, "armed", ctx[b])
    BY <2>2, <1>2, <1>3, <1>4 DEF StoresSoundly, WellFormed, OpenPc, NodePc
  <2> QED
    BY <2>2, <2>3, StoresAreSafe
<1>7. CASE Answer(b)
  <2> DEFINE p == [done |-> ctx[b].done + 1, calls |-> ctx[b].calls + 1, open |-> FALSE]
  <2>1. pc[b] = "sent" /\ Stores(b, "answered", p)
    BY <1>7 DEF Answer, Goto, Stores
  <2>2. ctx[b].done < Steps /\ ctx[b].open
    BY <2>1, <1>4 DEF OpenPc, WellFormed
  <2>3. ctx[b].calls < Steps
    BY <2>2, <1>2, <1>3, <1>4 DEF WellFormed
  <2>4. p \in Progress /\ p.done = ctx[b].done + 1 /\ p.calls = ctx[b].calls + 1 /\ p.open = FALSE
    BY <2>2, <2>3, <1>2, <1>3 DEF Progress
  <2> HIDE DEF p
  <2>5. sends[b][ctx[b].done + 1] > 0
    BY <2>1, <1>1 DEF SentInv
  <2>6. \A i \in 1..Steps : i <= p.done => sends[b][i] > 0
    BY <2>4, <2>5, <1>2, <1>4
  <2>7. cause = {} => \A i \in 1..Steps : Unsent(b, i, p)
    BY <2>1, <2>2, <2>4, <1>2, <1>4 DEF Unsent
  <2>8. WellFormed(p)
    BY <2>4, <1>2, <1>4 DEF WellFormed
  <2>9. StoresSoundly(b, "answered", p)
    BY <2>1, <2>2, <2>4, <2>6, <2>7, <2>8 DEF StoresSoundly, WellFormed, OpenPc, NodePc
  <2> QED
    BY <2>1, <2>9, StoresAreSafe
<1>8. CASE CompletionBoundary(b)
  <2>1. ctx' = [ctx EXCEPT ![b] = ctx[b]]
    BY <1>8, <1>2 DEF CompletionBoundary
  <2>2. pc[b] = "answered" /\ Stores(b, "kept", ctx[b])
    BY <1>8, <2>1 DEF CompletionBoundary, Goto, Stores
  <2>3. StoresSoundly(b, "kept", ctx[b])
    BY <2>2, <1>2, <1>3, <1>4 DEF StoresSoundly, WellFormed, OpenPc, NodePc
  <2> QED
    BY <2>2, <2>3, StoresAreSafe
<1>9. CASE CompleteNode(b)
  <2>1. ctx' = [ctx EXCEPT ![b] = ctx[b]]
    BY <1>9, <1>2 DEF CompleteNode
  <2>2. pc[b] = "kept" /\ Stores(b, "next", ctx[b])
    BY <1>9, <2>1 DEF CompleteNode, Goto, Stores
  <2>3. StoresSoundly(b, "next", ctx[b])
    BY <2>2, <1>2, <1>3, <1>4 DEF StoresSoundly, WellFormed, OpenPc, NodePc
  <2> QED
    BY <2>2, <2>3, StoresAreSafe
<1> QED
  BY <1>5, <1>6, <1>7, <1>8, <1>9

(* A branch's thread ends with a result.                                   *)
Finishes(b, status, own) ==
  /\ status \in Terminal
  /\ own \in Publication
  /\ pc[b] # "idle"
  /\ Finalize(b, status, own)

LEMMA FreshIsProgress ==
  Fresh \in Progress /\ WellFormed(Fresh) /\ Fresh.done = 0 /\ Fresh.calls = 0 /\ Fresh.open = FALSE
BY StepsPositive DEF StepsAreNat, Fresh, Progress, WellFormed

LEMMA ResultShape ==
  ASSUME NEW status \in Terminal, NEW own \in Publication, NEW calls \in 0..Steps,
         NEW artifact \in BOOLEAN
  PROVE  /\ [status |-> status, calls |-> calls, own |-> own, artifact |-> artifact] \in Result
BY DEF Result

LEMMA WithoutShape ==
  ASSUME NEW status \in Terminal \cup {"unrecovered", "raised"}
  PROVE  Without(status) \in Result /\ Without(status).status = status
BY StepsPositive DEF StepsAreNat, Without, Result, Publication

LEMMA FinishShape ==
  ASSUME Typed, NEW b \in Branches, NEW status, NEW own, Finishes(b, status, own)
  PROVE  /\ mem' \in SharedFor(mem'.spent)
         /\ mem'.status = [mem.status EXCEPT ![b] = status]
         /\ mem'.held = mem.held \ {b}
         /\ mem'.snap = [mem.snap EXCEPT ![b] = Fresh]
         /\ future' = [future EXCEPT ![b] = "done"]
         /\ pc' = [pc EXCEPT ![b] = "idle"]
         /\ ctx' = [ctx EXCEPT ![b] = Fresh]
         /\ ret' \in [Branches -> Result]
         /\ \A c \in Branches : c # b => ret'[c] = ret[c]
         /\ \/ disk' = (IF Eligible(mem') THEN mem' ELSE disk) /\ ret'[b].status = status
            \/ disk' = disk /\ ret'[b].status = "raised"
         /\ cause' = IF status = "failed" THEN cause \cup {"failure"} ELSE cause
         /\ UNCHANGED <<groupVars, sendVars, runs>>
<1> DEFINE m == [mem EXCEPT !.status[b] = status,
                            !.held = @ \ {b},
                            !.snap[b] = Fresh,
                            !.used[b] = ctx[b].calls,
                            !.own[b] = own,
                            !.listed[b] = IF @ = "none" THEN own ELSE @]
           r == [status |-> status, calls |-> ctx[b].calls, own |-> own,
                 artifact |-> status = "completed"]
<1>1. /\ \/ mem' = m /\ disk' = (IF Eligible(m) THEN m ELSE disk) /\ Ends(b, r)
         \/ mem' = m /\ disk' = disk /\ Ends(b, Without("raised"))
      /\ cause' = IF status = "failed" THEN cause \cup {"failure"} ELSE cause
      /\ UNCHANGED <<groupVars, sendVars, runs>>
  BY DEF Finishes, Finalize, Publish
<1>2. /\ mem \in SharedFor(mem.spent) /\ ret \in [Branches -> Result]
      /\ ctx[b].calls \in 0..Steps /\ status \in Terminal /\ own \in Publication
      /\ Fresh \in Progress
  BY FreshIsProgress DEF Typed, Progress, Finishes
<1>3. m \in SharedFor(mem.spent)
  BY <1>2 DEF SharedFor, Publication, Terminal
<1>4. m.spent = mem.spent
  BY <1>3 DEF SharedFor
<1>5. m.status = [mem.status EXCEPT ![b] = status]
  BY <1>2 DEF SharedFor
<1>6. m.held = mem.held \ {b}
  BY <1>2 DEF SharedFor
<1>7. m.snap = [mem.snap EXCEPT ![b] = Fresh]
  BY <1>2 DEF SharedFor
<1>8. r \in Result /\ r.status = status
  BY <1>2, ResultShape
<1>9. Without("raised") \in Result /\ Without("raised").status = "raised"
  BY WithoutShape
<1> HIDE DEF m, r
<1>10. mem' = m
  BY <1>1
<1>11. mem' \in SharedFor(mem'.spent)
  BY <1>10, <1>3, <1>4
<1>12. CASE disk' = (IF Eligible(m) THEN m ELSE disk) /\ Ends(b, r)
  BY <1>12, <1>1, <1>2, <1>5, <1>6, <1>7, <1>8, <1>10, <1>11 DEF Ends
<1>13. CASE disk' = disk /\ Ends(b, Without("raised"))
  BY <1>13, <1>1, <1>2, <1>5, <1>6, <1>7, <1>9, <1>10, <1>11 DEF Ends
<1> QED
  BY <1>1, <1>12, <1>13

LEMMA FinishIsSafe ==
  ASSUME GroupInv, NEW b \in Branches, NEW status, NEW own, Finishes(b, status, own)
  PROVE  GroupInv'
<1>1. /\ Typed /\ PoolInv /\ ResultsInv /\ SharedInv /\ ThreadInv /\ SentInv /\ LateInv /\ CauseInv
      /\ status \in Terminal /\ pc[b] # "idle"
  BY DEF GroupInv, Finishes
<1>2. /\ mem' \in SharedFor(mem'.spent)
      /\ mem'.status = [mem.status EXCEPT ![b] = status]
      /\ mem'.held = mem.held \ {b}
      /\ mem'.snap = [mem.snap EXCEPT ![b] = Fresh]
      /\ (disk' = mem' /\ Eligible(mem')) \/ disk' = disk
      /\ NoFailure(mem') /\ ~Eligible(mem') => disk' = disk
      /\ disk' \in SharedFor(disk'.spent)
  BY <1>1, FinishShape DEF Typed
<1>3. /\ future' = [future EXCEPT ![b] = "done"]
      /\ pc' = [pc EXCEPT ![b] = "idle"]
      /\ ctx' = [ctx EXCEPT ![b] = Fresh]
      /\ cause' = IF status = "failed" THEN cause \cup {"failure"} ELSE cause
      /\ UNCHANGED <<phase, event, erred, pending, results, sends, late>>
  BY <1>1, FinishShape DEF groupVars, sendVars
<1>4. /\ ret' \in [Branches -> Result]
      /\ \A c \in Branches : c # b => ret'[c] = ret[c]
      /\ ret'[b].status \in {status, "raised"}
  BY <1>1, FinishShape
<1>5. /\ mem.status \in [Branches -> Terminal \cup {"none", "pending", "running"}]
      /\ mem.snap \in [Branches -> Progress]
      /\ pc \in [Branches -> Pcs] /\ ctx \in [Branches -> Progress]
      /\ future \in [Branches -> {"none", "pending", "running", "done", "cancelled"}]
      /\ sends \in [Branches -> [1..Steps -> Nat]]
  BY <1>1, SharedFields DEF Typed
<1>6. future[b] = "running" /\ Running /\ Fresh \in Progress
  BY <1>1, FreshIsProgress DEF PoolInv
<1>7. Typed'
  BY <1>1, <1>2, <1>3, <1>4, <1>5, <1>6 DEF Typed, Pcs
<1>8. PoolInv'
  BY <1>1, <1>3, <1>5, <1>6 DEF PoolInv, Running
<1>9. ResultsInv'
  <2>1. OneResultEach'
    BY <1>1, <1>3, <1>5, <1>6 DEF ResultsInv, PoolInv, OneResultEach
  <2> QED
    BY <2>1, <1>1, <1>2, <1>3 DEF ResultsInv, Running, Halted
<1>10. SharedInv'
  <2>1. \A c \in Branches : mem'.status[c] = "running" <=> c \in mem'.held
    BY <1>1, <1>2, <1>5, <1>6 DEF SharedInv, Terminal
  <2>2. \A c \in Branches : disk'.status[c] # "failed" /\ (disk'.status[c] = "running" <=> c \in disk'.held)
    BY <2>1, <1>1, <1>2 DEF Eligible, SharedInv
  <2>3. \A c \in Branches : mem'.status[c] = "failed" => future'[c] = "done" /\ "failure" \in cause'
    BY <1>1, <1>2, <1>3, <1>5, <1>6 DEF SharedInv
  <2>4. \A c \in Branches : future'[c] = "done" /\ ret'[c].status \in Terminal => c \notin mem'.held
    BY <1>1, <1>2, <1>3, <1>4, <1>5, <1>6 DEF SharedInv
  <2>5. \A c \in Branches : future'[c] = "done" /\ ret'[c].status = "failed" => "failure" \in cause'
    BY <1>1, <1>3, <1>4, <1>5, <1>6 DEF SharedInv
  <2> QED
    BY <2>1, <2>2, <2>3, <2>4, <2>5 DEF SharedInv
<1>11. ThreadInv'
  <2> SUFFICES ASSUME NEW c \in Branches
      PROVE /\ ctx'[c].open <=> pc'[c] \in OpenPc
            /\ WellFormed(ctx'[c]) /\ WellFormed(mem'.snap[c]) /\ WellFormed(disk'.snap[c])
            /\ pc'[c] = "restore" => c \in mem'.held
            /\ pc'[c] \in NodePc => /\ c \in mem'.held
                                    /\ mem'.snap[c] = ctx'[c]
                                    /\ NoFailure(mem') => c \in disk'.held /\ disk'.snap[c] = ctx'[c]
    BY DEF ThreadInv, NoFailure, WellFormed
  <2>1. WellFormed(ctx'[c]) /\ WellFormed(mem'.snap[c])
    BY <1>1, <1>2, <1>3, <1>5, FreshIsProgress DEF ThreadInv
  <2>2. WellFormed(disk'.snap[c])
    BY <2>1, <1>1, <1>2 DEF ThreadInv
  <2>3. CASE c = b
    BY <2>1, <2>2, <2>3, <1>3, <1>5, FreshIsProgress DEF NodePc, OpenPc
  <2>4. CASE c # b
    <3>1. NoFailure(mem') => NoFailure(mem)
      BY <1>1, <1>2, <1>5, <1>6 DEF NoFailure, SharedInv
    <3> QED
      BY <3>1, <2>1, <2>2, <2>4, <1>1, <1>2, <1>3, <1>5 DEF ThreadInv
  <2> QED
    BY <2>3, <2>4
<1>12. SentInv'
  <2> SUFFICES ASSUME NEW c \in Branches
      PROVE /\ pc'[c] = "sent" => sends[c][ctx'[c].done + 1] > 0
            /\ \A i \in 1..Steps :
                i <= ctx'[c].done \/ i <= mem'.snap[c].done \/ i <= disk'.snap[c].done => sends[c][i] > 0
    BY <1>3 DEF SentInv
  <2>1. \A i \in 1..Steps : i <= mem'.snap[c].done \/ i <= ctx'[c].done => sends[c][i] > 0
    BY <1>1, <1>2, <1>3, <1>5, FreshIsProgress DEF SentInv
  <2>2. \A i \in 1..Steps : i <= disk'.snap[c].done => sends[c][i] > 0
    BY <2>1, <1>1, <1>2 DEF SentInv
  <2>3. pc'[c] = "sent" => c # b /\ pc[c] = "sent" /\ ctx'[c] = ctx[c]
    BY <1>3, <1>5
  <2> QED
    BY <2>1, <2>2, <2>3, <1>1 DEF SentInv
<1>13. LateInv'
  BY <1>1, <1>3, <1>5, <1>6 DEF LateInv, Running
<1>14. CauseInv'
  <2> SUFFICES ASSUME cause' = {}, NEW c \in Branches, NEW i \in 1..Steps
      PROVE /\ sends[c][i] <= 1
            /\ c \in disk'.held => Unsent(c, i, disk'.snap[c])
            /\ c \in mem'.held => Unsent(c, i, mem'.snap[c])
            /\ pc'[c] \notin {"idle", "restore"} => Unsent(c, i, ctx'[c])
            /\ pc'[c] \in {"launched", "armed", "cleared"} => (i = ctx'[c].done + 1 => sends[c][i] = 0)
            /\ future'[c] = "pending" /\ c \notin mem'.held => sends[c][i] = 0
    BY <1>3, <1>6 DEF CauseInv, Unsent
  <2>1. cause = {}
    BY <1>3
  <2>2. c \in mem'.held => Unsent(c, i, mem'.snap[c])
    BY <2>1, <1>1, <1>2, <1>5, <1>6 DEF CauseInv
  <2>3. c \in disk'.held => Unsent(c, i, disk'.snap[c])
    BY <2>1, <2>2, <1>1, <1>2 DEF CauseInv
  <2> QED
    BY <2>1, <2>2, <2>3, <1>1, <1>2, <1>3, <1>5, <1>6 DEF CauseInv
<1> QED
  BY <1>7, <1>8, <1>9, <1>10, <1>11, <1>12, <1>13, <1>14 DEF GroupInv

LEMMA FinishingSteps ==
  ASSUME GroupInv, NEW b \in Branches, Complete(b) \/ Cancelled(b) \/ Fail(b)
  PROVE  GroupInv'
<1>1. CASE pc[b] = "published" /\ Finalize(b, "completed", "emitted")
  BY <1>1, FinishIsSafe DEF Finishes, Terminal, Publication
<1>2. CASE pc[b] = "withheld" /\ Finalize(b, "completed", "none")
  BY <1>2, FinishIsSafe DEF Finishes, Terminal, Publication
<1>3. CASE Cancelled(b)
  BY <1>3, FinishIsSafe DEF Cancelled, Finishes, Terminal, Publication
<1>4. CASE Fail(b)
  BY <1>4, FinishIsSafe DEF Fail, Finishes, Terminal, Publication
<1> QED
  BY <1>1, <1>2, <1>3, <1>4 DEF Complete

(* A branch's step that only moves its thread on.                          *)
Moves(b, to, p) ==
  /\ pc' = [pc EXCEPT ![b] = to]
  /\ ctx' = [ctx EXCEPT ![b] = p]
  /\ UNCHANGED <<sharedVars, groupVars, future, ret, sendVars, cause>>

MovesSoundly(b, to, p) ==
  /\ p \in Progress
  /\ WellFormed(p)
  /\ pc[b] # "idle"
  /\ to \in {"begin", "next", "cleared", "closed", "withheld", "published"}
  /\ p.open <=> to \in OpenPc
  /\ to = "cleared" => pc[b] = "armed" /\ p = ctx[b] /\ ~event
  /\ \A i \in 1..Steps : i <= p.done => sends[b][i] > 0
  /\ cause = {} => \A i \in 1..Steps : Unsent(b, i, p)

LEMMA MoveIsSafe ==
  ASSUME GroupInv, NEW b \in Branches, NEW to, NEW p, Moves(b, to, p), MovesSoundly(b, to, p)
  PROVE  GroupInv'
<1>1. Typed /\ PoolInv /\ ResultsInv /\ SharedInv /\ ThreadInv /\ SentInv /\ LateInv /\ CauseInv
  BY DEF GroupInv
<1>2. /\ pc \in [Branches -> Pcs] /\ pc' = [pc EXCEPT ![b] = to]
      /\ ctx \in [Branches -> Progress] /\ ctx' = [ctx EXCEPT ![b] = p]
      /\ late \in [Branches -> Nat] /\ to \in Pcs
      /\ UNCHANGED <<mem, disk, phase, event, erred, pending, results, future, ret, sends, late,
                     cause>>
  BY <1>1 DEF Typed, Moves, MovesSoundly, Pcs, NodePc, sharedVars, groupVars, sendVars
<1>3. /\ p \in Progress /\ WellFormed(p) /\ pc[b] # "idle"
      /\ to \in {"begin", "next", "cleared", "closed", "withheld", "published"}
      /\ p.open <=> to \in OpenPc
      /\ to = "cleared" => pc[b] = "armed" /\ p = ctx[b] /\ ~event
      /\ \A i \in 1..Steps : i <= p.done => sends[b][i] > 0
      /\ cause = {} => \A i \in 1..Steps : Unsent(b, i, p)
  BY DEF MovesSoundly
<1>4. future[b] = "running" /\ Running
  BY <1>1, <1>3 DEF PoolInv
<1>5. Typed'
  BY <1>1, <1>2, <1>3 DEF Typed
<1>6. PoolInv'
  BY <1>1, <1>2, <1>3, <1>4 DEF PoolInv, Running
<1>7. ResultsInv' /\ SharedInv'
  BY <1>1, <1>2 DEF ResultsInv, OneResultEach, SharedInv, Running, Halted
<1>8. ThreadInv'
  BY <1>1, <1>2, <1>3 DEF ThreadInv, NoFailure, WellFormed, NodePc
<1>9. SentInv'
  <2>1. \A c \in Branches : pc'[c] = "sent" => c # b /\ pc[c] = "sent" /\ ctx'[c] = ctx[c]
    BY <1>2, <1>3
  <2>2. \A c \in Branches : \A i \in 1..Steps : i <= ctx'[c].done => sends[c][i] > 0
    BY <1>1, <1>2, <1>3 DEF SentInv
  <2> QED
    BY <2>1, <2>2, <1>1, <1>2 DEF SentInv
<1>10. LateInv'
  BY <1>1, <1>2, <1>3, <1>4 DEF LateInv, Running
<1>11. CauseInv'
  <2>1. cause = {} => \A c \in Branches : \A i \in 1..Steps :
                        pc'[c] \notin {"idle", "restore"} => Unsent(c, i, ctx'[c])
    BY <1>1, <1>2, <1>3 DEF CauseInv
  <2>2. cause = {} => \A c \in Branches : \A i \in 1..Steps :
          pc'[c] \in {"launched", "armed", "cleared"} => (i = ctx'[c].done + 1 => sends[c][i] = 0)
    BY <1>1, <1>2, <1>3 DEF CauseInv
  <2> QED
    BY <2>1, <2>2, <1>1, <1>2 DEF CauseInv, Running, Unsent
<1> QED
  BY <1>5, <1>6, <1>7, <1>8, <1>9, <1>10, <1>11 DEF GroupInv

LEMMA MovingSteps ==
  ASSUME GroupInv, NEW b \in Branches,
         Restore(b) \/ Begin(b) \/ Clear(b) \/ CloseNodes(b) \/ Emit(b)
  PROVE  GroupInv'
<1>1. Typed /\ ThreadInv /\ SentInv /\ CauseInv /\ PoolInv
  BY DEF GroupInv
<1>2. /\ ctx \in [Branches -> Progress]
      /\ ctx[b] \in Progress
      /\ ctx = [ctx EXCEPT ![b] = ctx[b]]
      /\ pc \in [Branches -> Pcs]
      /\ sends \in [Branches -> [1..Steps -> Nat]]
      /\ mem.snap \in [Branches -> Progress]
  BY <1>1, SharedFields DEF Typed
<1>3. Steps \in Nat /\ Steps > 0
  BY StepsPositive DEF StepsAreNat
<1>4. /\ ctx[b].open <=> pc[b] \in OpenPc
      /\ WellFormed(ctx[b])
      /\ \A i \in 1..Steps : i <= ctx[b].done => sends[b][i] > 0
      /\ cause = {} /\ pc[b] \notin {"idle", "restore"} =>
           \A i \in 1..Steps : Unsent(b, i, ctx[b])
  BY <1>1 DEF ThreadInv, SentInv, CauseInv
<1>5. CASE Restore(b)
  <2> DEFINE saved == mem.snap[b]
             p == IF saved.open THEN [saved EXCEPT !.open = FALSE, !.done = @ + 1] ELSE saved
  <2>1. /\ Moves(b, "begin", p) /\ pc[b] = "restore"
        /\ saved.open => Reconcilable(b, saved)
    BY <1>5 DEF Restore, Goto, Moves
  <2>2. /\ saved \in Progress /\ saved.done \in 0..Steps /\ saved.calls \in 0..Steps
        /\ saved.open \in BOOLEAN /\ WellFormed(saved)
        /\ \A i \in 1..Steps : i <= saved.done => sends[b][i] > 0
        /\ cause = {} => \A i \in 1..Steps : Unsent(b, i, saved)
    <3>1. b \in mem.held /\ Running
      BY <2>1, <1>1 DEF ThreadInv, PoolInv
    <3> QED
      BY <3>1, <1>1, <1>2 DEF ThreadInv, SentInv, CauseInv, Progress
  <2> HIDE DEF saved
  <2>3. CASE saved.open
    <3> DEFINE q == [saved EXCEPT !.open = FALSE, !.done = @ + 1]
    <3>5. saved.done + 1 \in 0..Steps
      BY <2>2, <2>3, <1>3 DEF WellFormed
    <3>6. q \in Progress
      BY <3>5, <2>2 DEF Progress
    <3>7. q.done = saved.done + 1
      BY <2>2 DEF Progress
    <3>8. q.calls = saved.calls
      BY <2>2 DEF Progress
    <3>9. q.open = FALSE
      BY <2>2 DEF Progress
    <3>10. p = q
      BY <2>3
    <3> HIDE DEF q
    <3>1. /\ p \in Progress /\ p.done = saved.done + 1 /\ p.calls = saved.calls /\ p.open = FALSE
          /\ WellFormed(p)
      BY <3>6, <3>7, <3>8, <3>9, <3>10, <2>2 DEF WellFormed
    <3>2. sends[b][saved.done + 1] > 0
      BY <2>1, <2>3 DEF Reconcilable
    <3> HIDE DEF p
    <3>3. \A i \in 1..Steps : i <= p.done => sends[b][i] > 0
      BY <3>1, <3>2, <2>2
    <3>4. cause = {} => \A i \in 1..Steps : Unsent(b, i, p)
      BY <3>1, <2>2, <2>3 DEF Unsent
    <3> QED
      BY <3>1, <3>3, <3>4, <2>1, MoveIsSafe DEF MovesSoundly, OpenPc
  <2>4. CASE ~saved.open
    <3>1. p = saved
      BY <2>4
    <3> QED
      BY <3>1, <2>1, <2>2, <2>4, MoveIsSafe DEF MovesSoundly, OpenPc
  <2> QED
    BY <2>3, <2>4
<1>6. CASE Begin(b)
  <2>1. pc[b] = "begin" /\ Moves(b, "next", ctx[b])
    BY <1>6, <1>2 DEF Begin, Unless, Goto, Moves
  <2> QED
    BY <2>1, <1>2, <1>4, MoveIsSafe DEF MovesSoundly, OpenPc
<1>7. CASE Clear(b)
  <2>1. pc[b] = "armed" /\ ~event /\ Moves(b, "cleared", ctx[b])
    BY <1>7, <1>2 DEF Clear, Unless, Uncancelled, Goto, Moves
  <2> QED
    BY <2>1, <1>2, <1>4, MoveIsSafe DEF MovesSoundly, OpenPc
<1>8. CASE CloseNodes(b)
  <2>1. pc[b] = "next" /\ Moves(b, "closed", ctx[b])
    BY <1>8, <1>2 DEF CloseNodes, Unless, Goto, Moves
  <2> QED
    BY <2>1, <1>2, <1>4, MoveIsSafe DEF MovesSoundly, OpenPc
<1>9. CASE Emit(b)
  <2>1. pc[b] = "closed" /\ \E to \in {"withheld", "published"} : Moves(b, to, ctx[b])
    BY <1>9, <1>2 DEF Emit, Goto, Moves
  <2> QED
    BY <2>1, <1>2, <1>4, MoveIsSafe DEF MovesSoundly, OpenPc
<1> QED
  BY <1>5, <1>6, <1>7, <1>8, <1>9

LEMMA StartIsSafe ==
  ASSUME GroupInv, NEW b \in Branches, StartBranch(b)
  PROVE  GroupInv'
<1> DEFINE to == IF b \in mem.held THEN "restore" ELSE "begin"
<1>1. Typed /\ PoolInv /\ ResultsInv /\ SharedInv /\ ThreadInv /\ SentInv /\ LateInv /\ CauseInv
  BY DEF GroupInv
<1>2. /\ future[b] = "pending" /\ Running
      /\ future \in [Branches -> {"none", "pending", "running", "done", "cancelled"}]
      /\ future' = [future EXCEPT ![b] = "running"]
      /\ pc \in [Branches -> Pcs] /\ pc' = [pc EXCEPT ![b] = to]
      /\ ctx \in [Branches -> Progress] /\ sends \in [Branches -> [1..Steps -> Nat]]
      /\ UNCHANGED <<mem, disk, phase, event, erred, pending, results, ret, ctx, sends, late, cause>>
  BY <1>1 DEF StartBranch, Typed, PoolInv, sharedVars, groupVars, sendVars
<1>3. pc[b] = "idle" /\ ~ctx[b].open
  BY <1>1, <1>2 DEF PoolInv, ThreadInv, OpenPc
<1>4. to \in {"restore", "begin"} /\ (to = "restore" => b \in mem.held)
  OBVIOUS
<1> HIDE DEF to
<1>5. Typed'
  BY <1>1, <1>2, <1>4 DEF Typed, Pcs
<1>6. PoolInv'
  BY <1>1, <1>2, <1>4 DEF PoolInv, Running
<1>7. ResultsInv'
  BY <1>1, <1>2 DEF ResultsInv, OneResultEach, PoolInv, Running, Halted
<1>8. SharedInv'
  BY <1>1, <1>2 DEF SharedInv, Running
<1>9. ThreadInv'
  BY <1>1, <1>2, <1>3, <1>4 DEF ThreadInv, NoFailure, WellFormed, NodePc, OpenPc
<1>10. SentInv'
  BY <1>1, <1>2, <1>4 DEF SentInv
<1>11. LateInv'
  BY <1>1, <1>2, <1>4 DEF LateInv, Running
<1>12. CauseInv'
  <2>1. cause = {} /\ to = "begin" => \A i \in 1..Steps : Unsent(b, i, ctx[b])
    <3>1. b \notin mem.held /\ cause = {} => \A i \in 1..Steps : sends[b][i] = 0
      BY <1>1, <1>2 DEF CauseInv
    <3>2. to = "begin" => b \notin mem.held
      BY DEF to
    <3> QED
      BY <3>1, <3>2 DEF Unsent
  <2> QED
    BY <2>1, <1>1, <1>2, <1>4 DEF CauseInv, Running, Unsent
<1> QED
  BY <1>5, <1>6, <1>7, <1>8, <1>9, <1>10, <1>11, <1>12 DEF GroupInv

LEMMA RestoreFailsIsSafe ==
  ASSUME GroupInv, NEW b \in Branches, RestoreFails(b)
  PROVE  GroupInv'
<1>1. Typed /\ PoolInv /\ ResultsInv /\ SharedInv /\ ThreadInv /\ SentInv /\ LateInv /\ CauseInv
  BY DEF GroupInv
<1>2. /\ future \in [Branches -> {"none", "pending", "running", "done", "cancelled"}]
      /\ future' = [future EXCEPT ![b] = "done"]
      /\ ret \in [Branches -> Result] /\ ret' = [ret EXCEPT ![b] = Without("unrecovered")]
      /\ pc[b] = "restore" /\ pc \in [Branches -> Pcs] /\ pc' = [pc EXCEPT ![b] = "idle"]
      /\ ctx \in [Branches -> Progress] /\ ctx' = [ctx EXCEPT ![b] = Fresh]
      /\ sends \in [Branches -> [1..Steps -> Nat]]
      /\ UNCHANGED <<mem, disk, phase, event, erred, pending, results, sends, late, cause>>
  BY <1>1 DEF RestoreFails, Ends, Typed, sharedVars, groupVars, sendVars
<1>3. future[b] = "running" /\ Running
  BY <1>1, <1>2 DEF PoolInv
<1>4. Without("unrecovered") \in Result /\ Without("unrecovered").status = "unrecovered"
  BY WithoutShape
<1>5. Typed'
  BY <1>1, <1>2, <1>4, FreshIsProgress DEF Typed, Pcs
<1>6. PoolInv'
  BY <1>1, <1>2, <1>3 DEF PoolInv, Running
<1>7. ResultsInv'
  BY <1>1, <1>2, <1>3 DEF ResultsInv, OneResultEach, PoolInv, Running, Halted
<1>8. SharedInv'
  BY <1>1, <1>2, <1>3, <1>4 DEF SharedInv, Running, Terminal
<1>9. ThreadInv'
  BY <1>1, <1>2, FreshIsProgress DEF ThreadInv, NoFailure, WellFormed, NodePc, OpenPc
<1>10. SentInv'
  BY <1>1, <1>2, FreshIsProgress DEF SentInv
<1>11. LateInv'
  BY <1>1, <1>2 DEF LateInv, Running
<1>12. CauseInv'
  BY <1>1, <1>2, <1>3 DEF CauseInv, Running, Unsent
<1> QED
  BY <1>5, <1>6, <1>7, <1>8, <1>9, <1>10, <1>11, <1>12 DEF GroupInv

LEMMA SendIsSafe ==
  ASSUME GroupInv, NEW b \in Branches, Send(b)
  PROVE  GroupInv'
<1> DEFINE n == ctx[b].done + 1
<1>1. Typed /\ PoolInv /\ ResultsInv /\ SharedInv /\ ThreadInv /\ SentInv /\ LateInv /\ CauseInv
  BY DEF GroupInv
<1>2. /\ pc[b] = "cleared" /\ pc \in [Branches -> Pcs] /\ pc' = [pc EXCEPT ![b] = "sent"]
      /\ ctx \in [Branches -> Progress]
      /\ sends \in [Branches -> [1..Steps -> Nat]]
      /\ sends' = [sends EXCEPT ![b][n] = @ + 1]
      /\ late \in [Branches -> Nat]
      /\ late' = [late EXCEPT ![b] = IF event THEN @ + 1 ELSE @]
      /\ UNCHANGED <<mem, disk, phase, event, erred, pending, results, future, ret, ctx, cause>>
  BY <1>1 DEF Send, Goto, Typed, sharedVars, groupVars
<1>3. future[b] = "running" /\ Running
  BY <1>1, <1>2 DEF PoolInv
<1>4. ctx[b].open /\ ctx[b].done < Steps /\ b \in mem.held /\ mem.snap[b] = ctx[b]
  BY <1>1, <1>2 DEF ThreadInv, OpenPc, NodePc, WellFormed
<1>5. n \in 1..Steps /\ ctx[b].done \in 0..Steps
  BY <1>2, <1>4, StepsPositive DEF StepsAreNat, Progress
<1>6. /\ sends' \in [Branches -> [1..Steps -> Nat]]
      /\ \A c \in Branches : \A i \in 1..Steps :
           sends'[c][i] = IF c = b /\ i = n THEN sends[b][n] + 1 ELSE sends[c][i]
  <2> DEFINE h == [sends[b] EXCEPT ![n] = sends[b][n] + 1]
  <2>1. sends' = [sends EXCEPT ![b] = h]
    BY <1>2
  <2>2. sends[b] \in [1..Steps -> Nat] /\ sends[b][n] \in Nat
    BY <1>2, <1>5
  <2>4. n \in 1..Steps
    BY <1>5
  <2> HIDE DEF n
  <2>3. h \in [1..Steps -> Nat] /\ \A i \in 1..Steps : h[i] = IF i = n THEN sends[b][n] + 1 ELSE sends[b][i]
    <3>1. h \in [1..Steps -> Nat]
      BY <2>2, <2>4
    <3>2. \A i \in 1..Steps : i = n => h[i] = sends[b][n] + 1
      BY <2>2, <2>4
    <3>3. \A i \in 1..Steps : i # n => h[i] = sends[b][i]
      BY <2>2, <2>4
    <3> HIDE DEF h
    <3> QED
      BY <3>1, <3>2, <3>3
  <2> HIDE DEF h
  <2> QED
    BY <2>1, <2>3, <1>2
<1>7. /\ late' \in [Branches -> Nat]
      /\ \A c \in Branches : late'[c] = IF c = b /\ event THEN late[b] + 1 ELSE late[c]
  BY <1>2
<1>8. Typed'
  BY <1>1, <1>2, <1>6, <1>7 DEF Typed, Pcs, NodePc
<1>9. PoolInv'
  BY <1>1, <1>2, <1>3 DEF PoolInv, Running
<1>10. ResultsInv' /\ SharedInv'
  BY <1>1, <1>2 DEF ResultsInv, OneResultEach, SharedInv, Running, Halted
<1>11. ThreadInv'
  BY <1>1, <1>2 DEF ThreadInv, NoFailure, WellFormed, NodePc, OpenPc
<1>12. SentInv'
  <2>1. \A c \in Branches : \A i \in 1..Steps : sends[c][i] > 0 => sends'[c][i] > 0
    BY <1>2, <1>5, <1>6
  <2>2. sends'[b][ctx[b].done + 1] > 0
    BY <1>2, <1>5, <1>6
  <2>3. \A c \in Branches : c # b /\ pc'[c] = "sent" => sends'[c][ctx[c].done + 1] > 0
    <3> SUFFICES ASSUME NEW c \in Branches, c # b, pc'[c] = "sent"
        PROVE sends'[c][ctx[c].done + 1] > 0
      OBVIOUS
    <3>1. pc[c] = "sent" /\ sends[c][ctx[c].done + 1] > 0
      BY <1>1, <1>2 DEF SentInv
    <3>2. ctx[c].done + 1 \in 1..Steps
      BY <3>1, <1>1, <1>2, StepsPositive DEF StepsAreNat, ThreadInv, OpenPc, WellFormed, Progress
    <3> QED
      BY <3>1, <3>2, <2>1
  <2> QED
    BY <2>1, <2>2, <2>3, <1>1, <1>2 DEF SentInv
<1>13. LateInv'
  BY <1>1, <1>2, <1>3, <1>7 DEF LateInv, Running
<1>14. CauseInv'
  <2> SUFFICES ASSUME cause = {}, NEW c \in Branches, NEW i \in 1..Steps
      PROVE /\ sends'[c][i] <= 1
            /\ c \in disk.held => (Unsent(c, i, disk.snap[c]))'
            /\ c \in mem.held => (Unsent(c, i, mem.snap[c]))'
            /\ pc'[c] \notin {"idle", "restore"} => (Unsent(c, i, ctx[c]))'
            /\ pc'[c] \in {"launched", "armed", "cleared"} => (i = ctx[c].done + 1 => sends'[c][i] = 0)
            /\ future[c] = "pending" /\ c \notin mem.held => sends'[c][i] = 0
    BY <1>2 DEF CauseInv, Unsent
  <2>1. CASE ~(c = b /\ i = n)
    BY <2>1, <1>1, <1>2, <1>3, <1>6 DEF CauseInv, Unsent
  <2>2. CASE c = b /\ i = n
    <3>1. sends[c][i] = 0
      BY <2>2, <1>1, <1>2 DEF CauseInv
    <3>4. sends'[c][i] = 1
      BY <3>1, <2>2, <1>6
    <3>2. NoFailure(mem)
      BY <1>1, <1>3 DEF SharedInv, NoFailure
    <3>3. disk.snap[b] = ctx[b]
      BY <3>2, <1>1, <1>2 DEF ThreadInv, NodePc
    <3> QED
      BY <3>4, <3>3, <2>2, <1>2, <1>3, <1>4, <1>5 DEF Unsent
  <2> QED
    BY <2>1, <2>2
<1> QED
  BY <1>8, <1>9, <1>10, <1>11, <1>12, <1>13, <1>14 DEF GroupInv

-----------------------------------------------------------------------------
(* The steps of the coordinating thread.                                   *)

Unstarted(b, stop) == {c \in pending \ {b} : stop /\ future[c] = "pending"}

(* No branch in the wait has a result yet, so a future taken or cancelled  *)
(* gets its first one.                                                     *)
LEMMA TookShape ==
  ASSUME GroupInv, NEW b \in pending, NEW added \in Seq(Result), NEW stop \in BOOLEAN,
         Took(b, added, stop)
  PROVE  /\ pending' = (pending \ {b}) \ Unstarted(b, stop)
         /\ future' = [c \in Branches |-> IF c \in Unstarted(b, stop) THEN "cancelled" ELSE future[c]]
         /\ results' = [c \in Branches |-> IF c = b THEN added
                                           ELSE IF c \in Unstarted(b, stop) THEN <<Without("cancelled")>>
                                           ELSE results[c]]
         /\ event' = (event \/ stop)
         /\ UNCHANGED <<sharedVars, phase, ret, pc, ctx, sendVars, cause, boundVars>>
<1>1. Typed /\ ResultsInv
  BY DEF GroupInv
<1>2. \A c \in Branches : results[c] \in Seq(Result) /\ (c \in pending => results[c] = <<>>)
  BY <1>1 DEF Typed, ResultsInv, OneResultEach
<1>3. <<Without("cancelled")>> \in Seq(Result)
  BY WithoutShape DEF Terminal
<1>4. \A s \in Seq(Result) : s \o <<>> = s /\ <<>> \o s = s
  OBVIOUS
<1>5. results' = [c \in Branches |->
                    results[c] \o (IF c = b THEN added ELSE <<>>)
                               \o (IF c \in Unstarted(b, stop) THEN <<Without("cancelled")>> ELSE <<>>)]
  BY DEF Took, Unstarted
<1>6. ASSUME NEW c \in Branches
      PROVE  results[c] \o (IF c = b THEN added ELSE <<>>)
                        \o (IF c \in Unstarted(b, stop) THEN <<Without("cancelled")>> ELSE <<>>)
             = IF c = b THEN added
               ELSE IF c \in Unstarted(b, stop) THEN <<Without("cancelled")>>
               ELSE results[c]
  <2>1. CASE c = b
    BY <2>1, <1>2, <1>4 DEF Unstarted
  <2>2. CASE c # b /\ c \in Unstarted(b, stop)
    BY <2>2, <1>2, <1>3, <1>4 DEF Unstarted
  <2>3. CASE c # b /\ c \notin Unstarted(b, stop)
    BY <2>3, <1>2, <1>4
  <2> QED
    BY <2>1, <2>2, <2>3
<1> QED
  BY <1>5, <1>6 DEF Took, Unstarted

TakesSoundly(b, added, stop) ==
  /\ Done(b)
  /\ added \in Seq(Result)
  /\ \/ added = <<ret[b]>> /\ ret[b].status \in Terminal /\ erred' = erred
        /\ stop = (ret[b].status = "failed" /\ ~event)
     \/ added = <<>> /\ erred' = TRUE /\ stop = ~erred

LEMMA TakeIsSafe ==
  ASSUME GroupInv, NEW b \in Branches, NEW added, NEW stop,
         TakesSoundly(b, added, stop), Took(b, added, stop)
  PROVE  GroupInv'
<1>1. Typed /\ PoolInv /\ ResultsInv /\ SharedInv /\ ThreadInv /\ SentInv /\ LateInv /\ CauseInv
  BY DEF GroupInv
<1>2. /\ phase = "collecting" /\ b \in pending /\ future[b] = "done" /\ Running
      /\ stop \in BOOLEAN /\ added \in Seq(Result) /\ Len(added) <= 1
      /\ added # <<>> => added[1].status \in Terminal /\ added[1].status = ret[b].status
      /\ erred' \in BOOLEAN /\ (erred => erred')
      /\ added = <<>> => erred'
      /\ stop => erred' \/ (added # <<>> /\ added[1].status = "failed")
  <2>1. phase = "collecting" /\ b \in pending /\ future[b] = "done" /\ Running /\ added \in Seq(Result)
    BY DEF TakesSoundly, Done, Running
  <2>2. event \in BOOLEAN /\ erred \in BOOLEAN
    BY <1>1 DEF Typed
  <2>3. CASE /\ added = <<ret[b]>> /\ ret[b].status \in Terminal /\ erred' = erred
             /\ stop = (ret[b].status = "failed" /\ ~event)
    <3>1. Len(added) = 1 /\ added[1] = ret[b] /\ added # <<>>
      BY <2>3
    <3> QED
      BY <3>1, <2>1, <2>2, <2>3
  <2>4. CASE added = <<>> /\ erred' = TRUE /\ stop = ~erred
    BY <2>1, <2>2, <2>4
  <2> QED
    BY <2>3, <2>4 DEF TakesSoundly
<1> DEFINE gone == Unstarted(b, stop)
<1>3. /\ gone \subseteq pending \ {b}
      /\ \A c \in gone : future[c] = "pending"
      /\ gone # {} => stop
  BY DEF Unstarted
<1>4. /\ pending' = (pending \ {b}) \ gone
      /\ future' = [c \in Branches |-> IF c \in gone THEN "cancelled" ELSE future[c]]
      /\ results' = [c \in Branches |-> IF c = b THEN added
                                        ELSE IF c \in gone THEN <<Without("cancelled")>>
                                        ELSE results[c]]
      /\ event' = (event \/ stop)
      /\ UNCHANGED <<mem, disk, phase, ret, pc, ctx, sends, late, cause>>
  BY <1>2, TookShape DEF sharedVars, sendVars
<1> HIDE DEF gone
<1>5. <<Without("cancelled")>> \in Seq(Result) /\ Without("cancelled").status = "cancelled"
  BY WithoutShape DEF Terminal
<1>6. /\ results \in [Branches -> Seq(Result)] /\ pending \subseteq Branches
      /\ future \in [Branches -> {"none", "pending", "running", "done", "cancelled"}]
      /\ event \in BOOLEAN
  BY <1>1 DEF Typed
<1>7. /\ \A c \in Branches : c \in pending => results[c] = <<>>
      /\ \A c \in Branches : Len(results[c]) <= 1
      /\ ~erred => \A c \in Branches : future[c] # "none" /\ c \notin pending => results[c] # <<>>
  BY <1>1, <1>2 DEF ResultsInv, OneResultEach
<1>8. Typed'
  BY <1>1, <1>2, <1>4, <1>5, <1>6 DEF Typed
<1>9. PoolInv'
  BY <1>1, <1>2, <1>3, <1>4, <1>6 DEF PoolInv, Running
<1>10. Halted'
    \/ (~stop /\ erred' = erred /\ ~(added # <<>> /\ added[1].status = "failed") /\ (Halted' <=> Halted))
  <2>1. CASE erred' \/ (added # <<>> /\ added[1].status = "failed")
    BY <2>1, <1>4, <1>6 DEF Halted
  <2>2. CASE ~erred' /\ ~(added # <<>> /\ added[1].status = "failed")
    <3>1. ~stop /\ gone = {} /\ erred' = erred
      BY <2>2, <1>1, <1>2, <1>3 DEF Typed
    <3> QED
      BY <3>1, <2>2, <1>2, <1>4, <1>6, <1>7 DEF Halted
  <2> QED
    BY <2>1, <2>2
<1>11. ResultsInv'
  <2>1. OneResultEach'
    <3> SUFFICES ASSUME NEW c \in Branches
        PROVE /\ Len(results'[c]) <= 1
              /\ c \in pending' => results'[c] = <<>>
              /\ ~erred' /\ future'[c] # "none" /\ c \notin pending' => results'[c] # <<>>
      BY DEF OneResultEach
    <3>1. CASE c = b
      BY <3>1, <1>2, <1>4, <1>6
    <3>2. CASE c # b /\ c \in gone
      BY <3>2, <1>2, <1>4, <1>6
    <3>3. CASE c # b /\ c \notin gone
      BY <3>3, <1>2, <1>3, <1>4, <1>6, <1>7
    <3> QED
      BY <3>1, <3>2, <3>3
  <2>2. ASSUME NEW c \in Branches, results'[c] # <<>>
        PROVE  /\ results'[c][1].status \in Terminal
               /\ c \in mem.held => Halted'
               /\ results'[c][1].status = "failed" => "failure" \in cause
    <3>1. CASE c = b
      BY <3>1, <2>2, <1>1, <1>2, <1>4, <1>6 DEF SharedInv
    <3>2. CASE c # b /\ c \in gone
      BY <3>2, <2>2, <1>3, <1>4, <1>5, <1>6, <1>10 DEF Terminal
    <3>3. CASE c # b /\ c \notin gone
      BY <3>3, <2>2, <1>1, <1>2, <1>4, <1>6, <1>10 DEF ResultsInv
    <3> QED
      BY <3>1, <3>2, <3>3
  <2>3. event' => Halted'
    BY <1>1, <1>2, <1>4, <1>6, <1>10 DEF ResultsInv
  <2> QED
    BY <2>1, <2>2, <2>3, <1>4 DEF ResultsInv
<1>12. SharedInv'
  BY <1>1, <1>3, <1>4, <1>6 DEF SharedInv, Running
<1>13. ThreadInv' /\ SentInv'
  BY <1>1, <1>4 DEF ThreadInv, SentInv, NoFailure, WellFormed
<1>14. LateInv'
  BY <1>1, <1>2, <1>4, <1>6 DEF LateInv, Running
<1>15. CauseInv'
  BY <1>1, <1>3, <1>4, <1>6 DEF CauseInv, Running, Unsent
<1> QED
  BY <1>8, <1>9, <1>11, <1>12, <1>13, <1>14, <1>15 DEF GroupInv

LEMMA TakingSteps ==
  ASSUME GroupInv, NEW b \in Branches, TakeResult(b) \/ TakeUnrecovered(b)
  PROVE  GroupInv'
<1>1. ret[b] \in Result
  BY DEF GroupInv, Typed
<1>2. CASE TakeResult(b)
  <2>1. /\ Took(b, <<ret[b]>>, ret[b].status = "failed" /\ ~event)
        /\ TakesSoundly(b, <<ret[b]>>, ret[b].status = "failed" /\ ~event)
    BY <1>1, <1>2 DEF TakeResult, TakesSoundly
  <2> QED
    BY <2>1, TakeIsSafe
<1>3. CASE TakeUnrecovered(b)
  <2>1. Took(b, <<>>, ~erred) /\ TakesSoundly(b, <<>>, ~erred)
    BY <1>3 DEF TakeUnrecovered, TakesSoundly
  <2> QED
    BY <2>1, TakeIsSafe
<1> QED
  BY <1>2, <1>3

LEMMA RaisedIsSafe ==
  ASSUME GroupInv, NEW b \in Branches, TakeRaised(b)
  PROVE  GroupInv'
<1>1. Typed /\ PoolInv /\ ResultsInv /\ SharedInv /\ ThreadInv /\ SentInv /\ LateInv /\ CauseInv
  BY DEF GroupInv
<1>2. /\ phase = "collecting" /\ phase' = "draining" /\ pending' = {}
      /\ future \in [Branches -> {"none", "pending", "running", "done", "cancelled"}]
      /\ future' = [c \in Branches |-> IF future[c] = "pending" THEN "cancelled" ELSE future[c]]
      /\ UNCHANGED <<mem, disk, event, erred, results, ret, pc, ctx, sends, late, cause>>
  BY <1>1 DEF TakeRaised, Done, Typed, sharedVars, sendVars
<1>3. Typed'
  BY <1>1, <1>2 DEF Typed
<1>4. PoolInv'
  BY <1>1, <1>2 DEF PoolInv, Running
<1>5. ResultsInv' /\ SharedInv'
  BY <1>1, <1>2 DEF ResultsInv, OneResultEach, SharedInv, Running, Halted
<1>6. ThreadInv' /\ SentInv'
  BY <1>1, <1>2 DEF ThreadInv, SentInv, NoFailure, WellFormed
<1>7. LateInv' /\ CauseInv'
  BY <1>1, <1>2 DEF LateInv, CauseInv, Running, Unsent
<1> QED
  BY <1>3, <1>4, <1>5, <1>6, <1>7 DEF GroupInv

LEMMA DrainedIsSafe ==
  ASSUME GroupInv, Drained
  PROVE  GroupInv'
<1>1. Typed /\ PoolInv /\ ResultsInv /\ SharedInv /\ ThreadInv /\ SentInv /\ LateInv /\ CauseInv
  BY DEF GroupInv
<1>2. /\ phase = "draining" /\ phase' = "failed" /\ \A b \in Branches : future[b] # "running"
      /\ UNCHANGED <<mem, disk, event, erred, pending, results, future, ret, pc, ctx, sends, late,
                     cause>>
  BY DEF Drained, sharedVars, threadVars, sendVars
<1>3. Typed'
  BY <1>1, <1>2 DEF Typed
<1>4. PoolInv'
  BY <1>1, <1>2 DEF PoolInv, Running
<1>5. ResultsInv' /\ SharedInv'
  BY <1>1, <1>2 DEF ResultsInv, OneResultEach, SharedInv, Running, Halted
<1>6. ThreadInv' /\ SentInv'
  BY <1>1, <1>2 DEF ThreadInv, SentInv, NoFailure, WellFormed
<1>7. LateInv' /\ CauseInv'
  BY <1>1, <1>2 DEF LateInv, CauseInv, Running, Unsent
<1> QED
  BY <1>3, <1>4, <1>5, <1>6, <1>7 DEF GroupInv

LEMMA CrashIsSafe ==
  ASSUME GroupInv, Crash
  PROVE  GroupInv'
<1>1. Typed /\ PoolInv /\ ResultsInv /\ SharedInv /\ ThreadInv /\ SentInv /\ LateInv /\ CauseInv
  BY DEF GroupInv
<1>2. /\ phase' = "killed" /\ mem' = disk /\ event' = FALSE /\ erred' = FALSE /\ pending' = {}
      /\ results' = [b \in Branches |-> <<>>]
      /\ future' = [b \in Branches |-> "none"]
      /\ ret' = [b \in Branches |-> Without("cancelled")]
      /\ pc' = [b \in Branches |-> "idle"]
      /\ ctx' = [b \in Branches |-> Fresh]
      /\ UNCHANGED <<disk, sends, late, cause>>
  BY DEF Crash, sendVars
<1>3. Typed'
  <2>1. Without("cancelled") \in Result /\ Fresh \in Progress
    BY WithoutShape, FreshIsProgress DEF Terminal
  <2>2. mem' \in SharedFor(mem'.spent) /\ disk' \in SharedFor(disk'.spent)
    BY <1>1, <1>2 DEF Typed
  <2>3. results' \in [Branches -> Seq(Result)]
    BY <1>2
  <2> QED
    BY <1>1, <1>2, <2>1, <2>2, <2>3 DEF Typed, Pcs
<1>4. PoolInv'
  BY <1>1, <1>2 DEF PoolInv, Running
<1>5. ResultsInv' /\ SharedInv'
  BY <1>1, <1>2 DEF ResultsInv, OneResultEach, SharedInv, Running, Halted
<1>6. ThreadInv' /\ SentInv'
  BY <1>1, <1>2, FreshIsProgress DEF ThreadInv, SentInv, NoFailure, NodePc, OpenPc
<1>7. LateInv' /\ CauseInv'
  BY <1>1, <1>2 DEF LateInv, CauseInv, Running, Unsent
<1> QED
  BY <1>3, <1>4, <1>5, <1>6, <1>7 DEF GroupInv

-----------------------------------------------------------------------------
(* The steps that begin an attempt: each takes the progress of every       *)
(* branch from the checkpoint, and submits only branches it knows of       *)
(* unless the group is launched as a whole.                                *)
AttemptsSoundly(to, submitted, taken) ==
  /\ ~Running
  /\ to \in {"collecting", "returned"}
  /\ submitted \subseteq Branches
  /\ to = "returned" => submitted = {}
  /\ taken \in [Branches -> Seq(Result)]
  /\ \A b \in Branches :
       /\ Len(taken[b]) <= 1
       /\ b \in submitted => taken[b] = <<>>
       /\ to = "collecting" /\ taken[b] # <<>> =>
            taken[b][1].status \in Terminal \ {"failed"} /\ b \notin mem'.held
  /\ mem' \in SharedFor(mem'.spent)
  /\ disk' \in SharedFor(disk'.spent)
  /\ mem'.held = disk.held /\ disk'.held = disk.held
  /\ mem'.snap = disk.snap /\ disk'.snap = disk.snap
  /\ \A b \in Branches :
       /\ disk'.status[b] # "failed" /\ mem'.status[b] # "failed"
       /\ disk'.status[b] = "running" <=> b \in disk.held
       /\ mem'.status[b] = "running" <=> b \in disk.held
  /\ cause' \subseteq {"relaunch", "failure"} /\ cause \subseteq cause'
  /\ cause' = {} => phase = "ready" \/ submitted \subseteq disk.held

LEMMA AttemptIsSafe ==
  ASSUME GroupInv, NEW to, NEW submitted, NEW taken,
         Attempt(to, submitted, taken), AttemptsSoundly(to, submitted, taken)
  PROVE  GroupInv'
<1>1. Typed /\ PoolInv /\ ResultsInv /\ SharedInv /\ ThreadInv /\ SentInv /\ LateInv /\ CauseInv
  BY DEF GroupInv
<1>2. /\ phase' = to /\ event' = FALSE /\ erred' = FALSE
      /\ pending' = submitted /\ results' = taken
      /\ future' = [b \in Branches |-> IF b \in submitted THEN "pending" ELSE "none"]
      /\ ret' = [b \in Branches |-> Without("cancelled")]
      /\ late' = [b \in Branches |-> 0]
      /\ UNCHANGED <<pc, ctx, sends>>
  BY DEF Attempt
<1>3. /\ ~Running
      /\ to \in {"collecting", "returned"}
      /\ submitted \subseteq Branches
      /\ to = "returned" => submitted = {}
      /\ taken \in [Branches -> Seq(Result)]
      /\ \A b \in Branches :
           /\ Len(taken[b]) <= 1
           /\ b \in submitted => taken[b] = <<>>
           /\ to = "collecting" /\ taken[b] # <<>> =>
                taken[b][1].status \in Terminal \ {"failed"} /\ b \notin mem'.held
  BY DEF AttemptsSoundly
<1>4. /\ mem' \in SharedFor(mem'.spent)
      /\ disk' \in SharedFor(disk'.spent)
      /\ mem'.held = disk.held /\ disk'.held = disk.held
      /\ mem'.snap = disk.snap /\ disk'.snap = disk.snap
      /\ \A b \in Branches :
           /\ disk'.status[b] # "failed" /\ mem'.status[b] # "failed"
           /\ disk'.status[b] = "running" <=> b \in disk.held
           /\ mem'.status[b] = "running" <=> b \in disk.held
      /\ cause' \subseteq {"relaunch", "failure"} /\ cause \subseteq cause'
      /\ cause' = {} => phase = "ready" \/ submitted \subseteq disk.held
  BY DEF AttemptsSoundly
<1>5. \A b \in Branches : pc[b] = "idle" /\ ~ctx[b].open
  BY <1>1, <1>3 DEF PoolInv, ThreadInv, OpenPc
<1>6. Without("cancelled") \in Result /\ Without("cancelled").status = "cancelled"
  BY WithoutShape DEF Terminal
<1>7. Typed'
  BY <1>1, <1>2, <1>3, <1>4, <1>6 DEF Typed
<1>8. PoolInv'
  BY <1>2, <1>3, <1>5 DEF PoolInv, Running
<1>9. ResultsInv'
  <2>1. OneResultEach'
    BY <1>2, <1>3 DEF OneResultEach
  <2> QED
    BY <2>1, <1>2, <1>3 DEF ResultsInv, Running, Halted
<1>10. SharedInv'
  BY <1>2, <1>4 DEF SharedInv, Running
<1>11. ThreadInv'
  BY <1>1, <1>2, <1>4, <1>5 DEF ThreadInv, NodePc, OpenPc
<1>12. SentInv'
  BY <1>1, <1>2, <1>4, <1>5 DEF SentInv
<1>13. LateInv'
  BY <1>2 DEF LateInv
<1>14. CauseInv'
  <2> SUFFICES ASSUME cause' = {}, NEW c \in Branches, NEW i \in 1..Steps
      PROVE /\ sends[c][i] <= 1
            /\ c \in disk'.held => Unsent(c, i, disk'.snap[c])
            /\ c \in mem'.held => Unsent(c, i, mem'.snap[c])
            /\ future'[c] = "pending" /\ c \notin mem'.held => sends[c][i] = 0
    BY <1>2, <1>5 DEF CauseInv, Unsent
  <2>1. cause = {}
    BY <1>4
  <2>2. phase = "ready" => sends[c][i] = 0
    BY <1>1 DEF PoolInv
  <2> QED
    BY <2>1, <2>2, <1>1, <1>2, <1>4 DEF CauseInv
<1> QED
  BY <1>7, <1>8, <1>9, <1>10, <1>11, <1>12, <1>13, <1>14 DEF GroupInv

LEMMA RestoreFrontierIsSafe ==
  ASSUME GroupInv, RestoreFrontier
  PROVE  GroupInv'
<1> DEFINE given == [Without("completed") EXCEPT !.artifact = TRUE]
           taken == [b \in Branches |-> IF disk.listed[b] = "accepted" THEN <<given>> ELSE <<>>]
<1>1. Typed /\ SharedInv /\ PoolInv
  BY DEF GroupInv
<1>2. Attempt("returned", {}, taken) /\ mem' = disk /\ UNCHANGED <<disk, cause>> /\ Stopped
  BY DEF RestoreFrontier
<1>3. Without("completed") \in Result
  BY WithoutShape DEF Terminal
<1>4. given \in Result
  BY <1>3 DEF Result
<1> HIDE DEF given
<1>5. taken \in [Branches -> Seq(Result)] /\ \A b \in Branches : Len(taken[b]) <= 1
  BY <1>4
<1> HIDE DEF taken
<1>6. AttemptsSoundly("returned", {}, taken)
  BY <1>1, <1>2, <1>5 DEF AttemptsSoundly, Typed, SharedInv, Stopped, Running
<1> QED
  BY <1>2, <1>6, AttemptIsSafe

LEMMA ResumeIsSafe ==
  ASSUME GroupInv, ResumeGroup
  PROVE  GroupInv'
<1> DEFINE taken == [b \in Branches |-> IF disk.status[b] \in Terminal
                                          THEN <<Recorded(disk, b)>> ELSE <<>>]
<1>1. Typed /\ SharedInv /\ PoolInv
  BY DEF GroupInv
<1>2. /\ Attempt("collecting", disk.held, taken) /\ mem' = disk
      /\ UNCHANGED <<disk, cause>> /\ Stopped
  BY DEF ResumeGroup
<1>3. disk \in SharedFor(disk.spent)
  BY <1>1 DEF Typed
<1>4. /\ disk.held \subseteq Branches
      /\ disk.used \in [Branches -> 0..Steps] /\ disk.own \in [Branches -> Publication]
  BY <1>3 DEF SharedFor
<1>5. ASSUME NEW b \in Branches, disk.status[b] \in Terminal
      PROVE  Recorded(disk, b) \in Result /\ Recorded(disk, b).status = disk.status[b]
  BY <1>4, <1>5 DEF Recorded, Result
<1>6. ASSUME NEW b \in Branches
      PROVE  /\ taken[b] \in Seq(Result)
             /\ Len(taken[b]) <= 1
             /\ taken[b] # <<>> => /\ disk.status[b] \in Terminal
                                   /\ taken[b][1].status = disk.status[b]
  <2>1. CASE disk.status[b] \in Terminal
    <3>1. taken[b] = <<Recorded(disk, b)>>
      BY <2>1
    <3> HIDE DEF taken
    <3> QED
      BY <3>1, <2>1, <1>5
  <2>2. CASE disk.status[b] \notin Terminal
    BY <2>2
  <2> QED
    BY <2>1, <2>2
<1>7. taken = [b \in Branches |-> taken[b]]
  OBVIOUS
<1> HIDE DEF taken
<1>8. taken \in [Branches -> Seq(Result)]
  BY <1>6, <1>7
<1>9. \A b \in Branches : b \in disk.held => taken[b] = <<>>
  BY <1>1, <1>6 DEF SharedInv, Terminal
<1>10. \A b \in Branches : taken[b] # <<>> =>
         taken[b][1].status \in Terminal \ {"failed"} /\ b \notin disk.held
  BY <1>1, <1>6, <1>9 DEF SharedInv
<1>11. AttemptsSoundly("collecting", disk.held, taken)
  BY <1>1, <1>2, <1>3, <1>4, <1>6, <1>8, <1>9, <1>10
  DEF AttemptsSoundly, Typed, SharedInv, Stopped, Running
<1> QED
  BY <1>2, <1>11, AttemptIsSafe

LEMMA ExecuteIsSafe ==
  ASSUME GroupInv, ExecuteGroup
  PROVE  GroupInv'
<1> DEFINE status == [b \in Branches |-> "pending"]
           used == [b \in Branches |-> 0]
           own == [b \in Branches |-> "none"]
           m == [disk EXCEPT !.status = status, !.used = used, !.own = own]
           taken == [b \in Branches |-> <<>>]
<1>1. Typed /\ SharedInv /\ PoolInv
  BY DEF GroupInv
<1>2. /\ Attempt("collecting", Branches, taken) /\ mem' = m /\ disk' = m
      /\ \/ phase = "ready" /\ cause' = cause
         \/ Stopped /\ disk.held = {} /\ cause' = cause \cup {"relaunch"}
  BY DEF ExecuteGroup
<1>3. disk \in SharedFor(disk.spent)
  BY <1>1 DEF Typed
<1>15. status \in [Branches -> Terminal \cup {"none", "pending", "running"}]
  OBVIOUS
<1>16. used \in [Branches -> 0..Steps]
  BY StepsPositive DEF StepsAreNat
<1>17. own \in [Branches -> Publication]
  BY DEF Publication
<1>18. \A b \in Branches : status[b] = "pending"
  OBVIOUS
<1> HIDE DEF status, used, own
<1>4. m \in SharedFor(disk.spent)
  BY <1>3, <1>15, <1>16, <1>17 DEF SharedFor
<1>5. m.spent = disk.spent
  BY <1>4 DEF SharedFor
<1>6. m.status = status
  BY <1>3 DEF SharedFor
<1>7. m.held = disk.held
  BY <1>3 DEF SharedFor
<1>8. m.snap = disk.snap
  BY <1>3 DEF SharedFor
<1>9. disk.held = {} /\ ~Running
  BY <1>1, <1>2 DEF PoolInv, Stopped, Running
<1> HIDE DEF m
<1>10. mem' \in SharedFor(mem'.spent) /\ disk' \in SharedFor(disk'.spent)
  BY <1>2, <1>4, <1>5
<1>11. taken \in [Branches -> Seq(Result)] /\ \A b \in Branches : taken[b] = <<>> /\ Len(taken[b]) <= 1
  OBVIOUS
<1> HIDE DEF taken
<1>12. /\ mem'.held = disk.held /\ disk'.held = disk.held
       /\ mem'.snap = disk.snap /\ disk'.snap = disk.snap
       /\ \A b \in Branches : mem'.status[b] = "pending" /\ disk'.status[b] = "pending"
  BY <1>2, <1>6, <1>7, <1>8, <1>18
<1>13. /\ cause' \subseteq {"relaunch", "failure"} /\ cause \subseteq cause'
       /\ cause' = {} => phase = "ready"
  BY <1>1, <1>2 DEF Typed
<1>14. AttemptsSoundly("collecting", Branches, taken)
  BY <1>9, <1>10, <1>11, <1>12, <1>13 DEF AttemptsSoundly
<1> QED
  BY <1>2, <1>14, AttemptIsSafe

LEMMA LastOfOne ==
  ASSUME NEW s \in Seq(Result), Len(s) <= 1, s # <<>>
  PROVE  Last(s) = s[1] /\ s[1] \in Result /\ ToSet(s) = {s[1]}
BY DEF Last, ToSet

LEMMA ApplyIsSafe ==
  ASSUME GroupInv, Apply
  PROVE  GroupInv'
<1> DEFINE answered == {b \in Branches : results[b] # <<>>}
           completed == {b \in answered : Last(results[b]).status = "completed"}
           failed == \E b \in answered : \E r \in ToSet(results[b]) : r.status = "failed"
           own == [b \in Branches |-> IF b \in answered THEN Last(results[b]).own ELSE mem.own[b]]
           status == [b \in Branches |-> IF b \in answered THEN Last(results[b]).status
                                                           ELSE mem.status[b]]
           used == [b \in Branches |-> IF b \in answered THEN Last(results[b]).calls
                                                         ELSE mem.used[b]]
           owned == [b \in Branches |-> AcceptedOf(b, own[b])]
           listed == [b \in Branches |-> AcceptedOf(b, IF mem.listed[b] = "none" THEN own[b]
                                                                                 ELSE mem.listed[b])]
           snap == [b \in Branches |-> IF b \in completed THEN Fresh ELSE mem.snap[b]]
           spent == mem.spent + CallsTaken
           m == [mem EXCEPT !.status = status, !.used = used, !.spent = spent, !.own = owned,
                            !.listed = listed, !.held = mem.held \ completed, !.snap = snap]
           succeeds == ~erred /\ ~failed
<1>1. Typed /\ PoolInv /\ ResultsInv /\ SharedInv /\ ThreadInv /\ SentInv /\ LateInv /\ CauseInv
  BY DEF GroupInv
<1>2. /\ phase = "collecting" /\ pending = {}
      /\ mem' = m
      /\ disk' = (IF succeeds THEN m ELSE disk)
      /\ phase' = (IF succeeds THEN "returned" ELSE "failed")
      /\ UNCHANGED <<event, erred, pending, results, future, ret, pc, ctx, sends, late, cause>>
  BY DEF Apply, threadVars, sendVars
<1>3. /\ mem \in SharedFor(mem.spent) /\ disk \in SharedFor(disk.spent)
      /\ mem.status \in [Branches -> Terminal \cup {"none", "pending", "running"}]
      /\ mem.held \subseteq Branches
      /\ mem.snap \in [Branches -> Progress]
      /\ mem.used \in [Branches -> 0..Steps]
      /\ mem.own \in [Branches -> Publication]
      /\ mem.listed \in [Branches -> Publication]
  BY <1>1 DEF Typed, SharedFor
<1>4. ASSUME NEW b \in answered
      PROVE  /\ Last(results[b]) = results[b][1] /\ results[b][1] \in Result
             /\ ToSet(results[b]) = {results[b][1]}
             /\ Last(results[b]).status \in Terminal
             /\ Last(results[b]).own \in Publication
             /\ Last(results[b]).calls \in 0..Steps
  <2>1. results[b] \in Seq(Result) /\ Len(results[b]) <= 1 /\ results[b] # <<>>
    BY <1>1 DEF Typed, ResultsInv, OneResultEach
  <2>2. Last(results[b]) = results[b][1] /\ results[b][1] \in Result /\ ToSet(results[b]) = {results[b][1]}
    BY <2>1, LastOfOne
  <2>3. results[b][1].status \in Terminal
    BY <2>1, <1>1, <1>2 DEF ResultsInv
  <2>4. results[b][1].own \in Publication /\ results[b][1].calls \in 0..Steps
    BY <2>2 DEF Result
  <2> QED
    BY <2>2, <2>3, <2>4
<1>5. failed <=> \E b \in Branches : results[b] # <<>> /\ results[b][1].status = "failed"
  BY <1>4
<1>6. succeeds <=> ~Halted
  BY <1>5 DEF Halted
<1>7. \A b \in Branches : b \in answered <=> results[b] # <<>>
  OBVIOUS
<1>8. /\ completed \subseteq answered
      /\ \A b \in answered : /\ status[b] \in Terminal
                             /\ status[b] = "failed" => results[b][1].status = "failed"
  BY <1>4
<1>9. \A b \in Branches : b \notin answered => status[b] = mem.status[b]
  OBVIOUS
<1>10. own \in [Branches -> Publication]
  BY <1>3, <1>4
<1>11. status \in [Branches -> Terminal \cup {"none", "pending", "running"}]
  BY <1>3, <1>4
<1>12. used \in [Branches -> 0..Steps]
  BY <1>3, <1>4
<1> HIDE DEF answered, own
<1>13. owned \in [Branches -> Publication]
  BY <1>10 DEF AcceptedOf, Publication
<1>14. listed \in [Branches -> Publication]
  BY <1>3, <1>10 DEF AcceptedOf, Publication
<1>15. /\ snap \in [Branches -> Progress]
       /\ \A b \in Branches : /\ snap[b] \in {Fresh, mem.snap[b]}
                              /\ b \notin completed => snap[b] = mem.snap[b]
  BY <1>3, FreshIsProgress
<1> HIDE DEF completed, failed, status, used, owned, listed, snap, spent
<1>16. m \in SharedFor(spent)
  BY <1>3, <1>11, <1>12, <1>13, <1>14, <1>15 DEF SharedFor
<1>17. m.spent = spent
  BY <1>16 DEF SharedFor
<1>18. m.status = status
  BY <1>3 DEF SharedFor
<1>19. m.held = mem.held \ completed
  BY <1>3 DEF SharedFor
<1>20. m.snap = snap
  BY <1>3 DEF SharedFor
<1> HIDE DEF m
<1>21. mem' \in SharedFor(mem'.spent) /\ disk' \in SharedFor(disk'.spent)
  BY <1>2, <1>3, <1>16, <1>17
<1>22. /\ mem'.snap = snap
       /\ disk'.snap = snap \/ disk'.snap = disk.snap
       /\ phase' \in {"returned", "failed"}
       /\ (disk' = m /\ ~Halted) \/ disk' = disk
  BY <1>2, <1>6, <1>20
<1> HIDE DEF succeeds
<1>23. Typed'
  BY <1>1, <1>2, <1>21, <1>22 DEF Typed
<1>24. \A b \in Branches : future[b] \notin {"pending", "running"} /\ pc[b] = "idle"
  BY <1>1, <1>2 DEF PoolInv
<1>25. PoolInv'
  BY <1>2, <1>22, <1>24 DEF PoolInv
<1>26. ResultsInv'
  BY <1>1, <1>2, <1>22 DEF ResultsInv, OneResultEach, Running
<1>27. SharedInv'
  <2>1. ASSUME ~Halted, NEW b \in Branches
        PROVE  m.status[b] # "failed" /\ (m.status[b] = "running" <=> b \in m.held)
    <3>1. CASE b \in answered
      <4>1. b \notin mem.held /\ status[b] \in Terminal \ {"failed"}
        BY <2>1, <3>1, <1>1, <1>2, <1>7, <1>8 DEF ResultsInv, Halted
      <4> QED
        BY <4>1, <1>18, <1>19 DEF Terminal
    <3>2. CASE b \notin answered
      <4>1. future[b] = "none"
        BY <2>1, <3>2, <1>1, <1>2, <1>7 DEF ResultsInv, OneResultEach, Halted
      <4>2. mem.status[b] # "failed" /\ (mem.status[b] = "running" <=> b \in mem.held)
        BY <4>1, <1>1, <1>2 DEF SharedInv, Running
      <4> QED
        BY <4>2, <3>2, <1>8, <1>9, <1>18, <1>19
    <3> QED
      BY <3>1, <3>2
  <2>2. \A b \in Branches : disk'.status[b] # "failed" /\ (disk'.status[b] = "running" <=> b \in disk'.held)
    BY <2>1, <1>1, <1>22 DEF SharedInv
  <2> QED
    BY <2>2, <1>22 DEF SharedInv, Running
<1>28. ThreadInv'
  <2>1. \A b \in Branches : WellFormed(snap[b])
    BY <1>1, <1>15, FreshIsProgress DEF ThreadInv
  <2> QED
    BY <2>1, <1>1, <1>2, <1>22, <1>24 DEF ThreadInv, NodePc, OpenPc
<1>29. SentInv'
  <2>1. \A b \in Branches : \A i \in 1..Steps : i <= snap[b].done => sends[b][i] > 0
    BY <1>1, <1>15, FreshIsProgress DEF SentInv
  <2> QED
    BY <2>1, <1>1, <1>2, <1>22, <1>24 DEF SentInv
<1>30. LateInv'
  BY <1>1, <1>2, <1>22 DEF LateInv, Running
<1>31. CauseInv'
  <2> SUFFICES ASSUME cause = {}, NEW c \in Branches, NEW i \in 1..Steps
      PROVE /\ sends[c][i] <= 1
            /\ c \in disk'.held => Unsent(c, i, disk'.snap[c])
    BY <1>2, <1>22, <1>24 DEF CauseInv, Unsent, Running
  <2>1. c \in m.held => Unsent(c, i, m.snap[c])
    BY <1>1, <1>2, <1>15, <1>19, <1>20 DEF CauseInv, Running
  <2> QED
    BY <2>1, <1>1, <1>22 DEF CauseInv
<1> QED
  BY <1>23, <1>25, <1>26, <1>27, <1>28, <1>29, <1>30, <1>31 DEF GroupInv

-----------------------------------------------------------------------------
(* The invariant and the theorems.                                         *)

LEMMA InitIsSafe ==
  ASSUME Init
  PROVE  GroupInv
<1>1. Fresh \in Progress /\ WellFormed(Fresh) /\ Fresh.done = 0 /\ Fresh.open = FALSE
  BY FreshIsProgress
<1>2. Without("cancelled") \in Result
  BY WithoutShape DEF Terminal
<1>3. NoGroup \in SharedFor(NoGroup.spent)
  BY <1>1, StepsPositive DEF StepsAreNat, NoGroup, SharedFor, Publication
<1>4. /\ NoGroup.held = {} /\ NoGroup.snap = [b \in Branches |-> Fresh]
      /\ NoGroup.status = [b \in Branches |-> "none"]
  BY DEF NoGroup
<1>5. /\ mem = NoGroup /\ disk = NoGroup /\ phase = "ready" /\ event = FALSE /\ erred = FALSE
      /\ pending = {}
      /\ results = [b \in Branches |-> <<>>]
      /\ future = [b \in Branches |-> "none"]
      /\ ret = [b \in Branches |-> Without("cancelled")]
      /\ pc = [b \in Branches |-> "idle"]
      /\ ctx = [b \in Branches |-> Fresh]
      /\ sends = [b \in Branches |-> [i \in 1..Steps |-> 0]]
      /\ late = [b \in Branches |-> 0]
      /\ cause = {}
  BY DEF Init
<1>6. Typed
  <2>1. sends \in [Branches -> [1..Steps -> Nat]] /\ late \in [Branches -> Nat]
    BY <1>5
  <2>2. pc \in [Branches -> Pcs] /\ ctx \in [Branches -> Progress] /\ ret \in [Branches -> Result]
    BY <1>1, <1>2, <1>5 DEF Pcs
  <2>3. results \in [Branches -> Seq(Result)]
    BY <1>5
  <2> QED
    BY <2>1, <2>2, <2>3, <1>3, <1>5 DEF Typed
<1>7. PoolInv
  BY <1>4, <1>5 DEF PoolInv, Running
<1>8. ResultsInv /\ SharedInv
  BY <1>4, <1>5 DEF ResultsInv, OneResultEach, SharedInv, Running
<1>9. ThreadInv
  BY <1>1, <1>4, <1>5 DEF ThreadInv, NodePc, OpenPc
<1>10. SentInv
  BY <1>1, <1>4, <1>5 DEF SentInv
<1>11. LateInv /\ CauseInv
  BY <1>4, <1>5 DEF LateInv, CauseInv, Running, Unsent
<1> QED
  BY <1>6, <1>7, <1>8, <1>9, <1>10, <1>11 DEF GroupInv

LEMMA StutterIsSafe ==
  ASSUME GroupInv, UNCHANGED vars
  PROVE  GroupInv'
<1>1. UNCHANGED <<mem, disk, phase, event, erred, pending, results, future, ret, pc, ctx, sends,
                  late, cause>>
  BY DEF vars, sharedVars, groupVars, threadVars, sendVars
<1>2. Typed' /\ PoolInv'
  BY <1>1 DEF GroupInv, Typed, PoolInv, Running
<1>3. ResultsInv' /\ SharedInv'
  BY <1>1 DEF GroupInv, ResultsInv, OneResultEach, SharedInv, Running, Halted
<1>4. ThreadInv' /\ SentInv'
  BY <1>1 DEF GroupInv, ThreadInv, SentInv, NoFailure, WellFormed
<1>5. LateInv' /\ CauseInv'
  BY <1>1 DEF GroupInv, LateInv, CauseInv, Running, Unsent
<1> QED
  BY <1>2, <1>3, <1>4, <1>5 DEF GroupInv

LEMMA StepIsSafe ==
  ASSUME GroupInv, [Next]_vars
  PROVE  GroupInv'
<1>1. CASE \E b \in Branches : BranchStep(b)
  BY <1>1, StartIsSafe, RestoreFailsIsSafe, SendIsSafe, MovingSteps, StoringSteps, FinishingSteps
  DEF BranchStep
<1>2. CASE Coordinate
  <2>1. CASE Drained
    BY <2>1, DrainedIsSafe
  <2>2. CASE Apply
    BY <2>2, ApplyIsSafe
  <2>3. CASE \E b \in Branches : TakeResult(b) \/ TakeUnrecovered(b) \/ TakeRaised(b)
    BY <2>3, TakingSteps, RaisedIsSafe
  <2> QED
    BY <1>2, <2>1, <2>2, <2>3 DEF Coordinate
<1>3. CASE Crash
  BY <1>3, CrashIsSafe
<1>4. CASE RestoreFrontier
  BY <1>4, RestoreFrontierIsSafe
<1>5. CASE ResumeGroup
  BY <1>5, ResumeIsSafe
<1>6. CASE ExecuteGroup
  BY <1>6, ExecuteIsSafe
<1>7. CASE UNCHANGED vars
  BY <1>7, StutterIsSafe
<1> QED
  BY <1>1, <1>2, <1>3, <1>4, <1>5, <1>6, <1>7 DEF Next

-----------------------------------------------------------------------------
(* Totals of a function's values, as numbers of units.                     *)

Units(f) == UNION {{x} \X (1..f[x]) : x \in DOMAIN f}

LEMMA UnitsAre ==
  ASSUME NEW D, NEW f \in [D -> Nat]
  PROVE  /\ \A u \in Units(f) : u = <<u[1], u[2]>> /\ u[1] \in D /\ u[2] \in 1..f[u[1]]
         /\ \A x \in D : \A k \in 1..f[x] : <<x, k>> \in Units(f)
BY DEF Units

LEMMA UnitsAreFinite ==
  ASSUME NEW D, IsFiniteSet(D), NEW f \in [D -> Nat]
  PROVE  IsFiniteSet(Units(f))
<1> DEFINE columns == {{x} \X (1..f[x]) : x \in D}
           Column == [x \in D |-> {x} \X (1..f[x])]
<1>1. Column \in Surjection(D, columns)
  BY DEF Surjection
<1>2. IsFiniteSet(columns)
  BY <1>1, FS_Surjection
<1>3. ASSUME NEW x \in D PROVE IsFiniteSet({x} \X (1..f[x]))
  <2>1. IsFiniteSet({x})
    BY FS_Singleton
  <2>2. IsFiniteSet(1..f[x])
    BY FS_Interval
  <2> QED
    BY <2>1, <2>2, FS_Product
<1>4. IsFiniteSet(UNION columns)
  BY <1>2, <1>3, FS_UNION
<1> QED
  BY <1>4 DEF Units

(* A total is a natural number.                                            *)
LEMMA TotalIsNat ==
  ASSUME NEW D, IsFiniteSet(D), NEW f \in [D -> Nat]
  PROVE  TotalOf(f) \in Nat
BY UnitsAreFinite, FS_CardinalityType DEF TotalOf, Units

(* It grows with the values.                                               *)
LEMMA TotalGrows ==
  ASSUME NEW D, IsFiniteSet(D), NEW f \in [D -> Nat], NEW g \in [D -> Nat],
         \A x \in D : f[x] <= g[x]
  PROVE  TotalOf(f) <= TotalOf(g)
<1>1. Units(f) \subseteq Units(g)
  <2> SUFFICES ASSUME NEW u \in Units(f) PROVE u \in Units(g)
    OBVIOUS
  <2>1. u = <<u[1], u[2]>> /\ u[1] \in D /\ u[2] \in 1..f[u[1]]
    BY UnitsAre
  <2>2. u[2] \in 1..g[u[1]]
    BY <2>1
  <2> QED
    BY <2>1, <2>2, UnitsAre
<1>2. IsFiniteSet(Units(g))
  BY UnitsAreFinite
<1> QED
  BY <1>1, <1>2, FS_Subset DEF TotalOf, Units

(* The total of two sums' values is the sum of the totals: the units that  *)
(* g adds to f's lie behind them, and are as many as g's own.              *)
LEMMA TotalAdds ==
  ASSUME NEW D, IsFiniteSet(D), NEW f \in [D -> Nat], NEW g \in [D -> Nat]
  PROVE  TotalOf([x \in D |-> f[x] + g[x]]) = TotalOf(f) + TotalOf(g)
<1> DEFINE h == [x \in D |-> f[x] + g[x]]
           Behind == [u \in Units(g) |-> <<u[1], f[u[1]] + u[2]>>]
           added == {v \in Units(h) : v[2] > f[v[1]]}
<1>1. h \in [D -> Nat] /\ \A x \in D : h[x] = f[x] + g[x]
  OBVIOUS
<1> HIDE DEF h
<1>2. Behind \in Bijection(Units(g), added)
  <2>1. ASSUME NEW u \in Units(g) PROVE Behind[u] \in added
    <3>1. u[1] \in D /\ u[2] \in 1..g[u[1]]
      BY UnitsAre
    <3>2. f[u[1]] + u[2] \in 1..h[u[1]] /\ f[u[1]] + u[2] > f[u[1]]
      BY <3>1, <1>1
    <3>3. Behind[u] = <<u[1], f[u[1]] + u[2]>>
      OBVIOUS
    <3> HIDE DEF Behind
    <3>4. Behind[u] \in Units(h)
      BY <3>1, <3>2, <3>3, <1>1, UnitsAre
    <3> QED
      BY <3>2, <3>3, <3>4
  <2>2. ASSUME NEW u \in Units(g), NEW v \in Units(g), Behind[u] = Behind[v] PROVE u = v
    <3>1. /\ u = <<u[1], u[2]>> /\ u[1] \in D /\ u[2] \in 1..g[u[1]]
          /\ v = <<v[1], v[2]>> /\ v[1] \in D /\ v[2] \in 1..g[v[1]]
      BY UnitsAre
    <3>2. u[1] = v[1] /\ f[u[1]] + u[2] = f[v[1]] + v[2]
      BY <2>2
    <3>3. u[2] = v[2]
      BY <3>1, <3>2
    <3> QED
      BY <3>1, <3>2, <3>3
  <2>3. ASSUME NEW v \in added PROVE \E u \in Units(g) : Behind[u] = v
    <3>1. v = <<v[1], v[2]>> /\ v[1] \in D /\ v[2] \in 1..h[v[1]] /\ v[2] > f[v[1]]
      BY UnitsAre, <1>1
    <3> DEFINE k == v[2] - f[v[1]]
    <3>2. k \in 1..g[v[1]] /\ f[v[1]] + k = v[2]
      BY <3>1, <1>1
    <3> HIDE DEF k
    <3>3. <<v[1], k>> \in Units(g)
      BY <3>1, <3>2, UnitsAre
    <3>4. Behind[<<v[1], k>>] = v
      BY <3>1, <3>2, <3>3
    <3> QED
      BY <3>3, <3>4
  <2> HIDE DEF added
  <2>4. Behind \in [Units(g) -> added]
    BY <2>1
  <2> HIDE DEF Behind
  <2>5. Behind \in Injection(Units(g), added)
    BY <2>2, <2>4 DEF Injection, IsInjective
  <2>6. Behind \in Surjection(Units(g), added)
    BY <2>3, <2>4 DEF Surjection
  <2> QED
    BY <2>5, <2>6 DEF Bijection
<1>3. /\ IsFiniteSet(Units(f)) /\ IsFiniteSet(Units(g))
      /\ Cardinality(Units(f)) \in Nat /\ Cardinality(Units(g)) \in Nat
  BY UnitsAreFinite, FS_CardinalityType
<1>4. IsFiniteSet(added) /\ Cardinality(added) = Cardinality(Units(g))
  BY <1>2, <1>3, FS_Bijection DEF ExistsBijection
<1>5. Units(h) = Units(f) \cup added
  <2>1. ASSUME NEW v \in Units(h) PROVE v \in Units(f) \cup added
    <3>1. v = <<v[1], v[2]>> /\ v[1] \in D /\ v[2] \in 1..h[v[1]]
      BY UnitsAre, <1>1
    <3>2. CASE v[2] > f[v[1]]
      BY <3>2
    <3>3. CASE v[2] \in 1..f[v[1]]
      BY <3>1, <3>3, UnitsAre
    <3> QED
      BY <3>1, <3>2, <3>3, <1>1
  <2>2. ASSUME NEW u \in Units(f) PROVE u \in Units(h)
    <3>1. u = <<u[1], u[2]>> /\ u[1] \in D /\ u[2] \in 1..f[u[1]]
      BY UnitsAre
    <3>2. u[2] \in 1..h[u[1]]
      BY <3>1, <1>1
    <3> QED
      BY <3>1, <3>2, <1>1, UnitsAre
  <2> QED
    BY <2>1, <2>2
<1>6. Units(f) \cap added = {}
  <2> SUFFICES ASSUME NEW u \in Units(f), u[2] > f[u[1]] PROVE FALSE
    OBVIOUS
  <2> QED
    BY UnitsAre
<1>7. Cardinality(Units(h)) = Cardinality(Units(f)) + Cardinality(Units(g))
  <2>1. Cardinality(Units(f) \cap added) = 0
    BY <1>6, FS_EmptySet
  <2> HIDE DEF added
  <2>2. Cardinality(Units(f) \cup added) = Cardinality(Units(f)) + Cardinality(added)
    <3>1. Cardinality(Units(f) \cup added)
            = Cardinality(Units(f)) + Cardinality(added) - Cardinality(Units(f) \cap added)
      BY <1>3, <1>4, FS_Union
    <3> QED
      BY <3>1, <2>1, <1>3, <1>4
  <2> QED
    BY <2>2, <1>4, <1>5
<1> QED
  BY <1>7 DEF TotalOf, Units, h

(* One value grown by one, and sums of one value or of none.               *)
LEMMA TotalOfNone == TotalOf(<<>>) = 0
<1>1. DOMAIN <<>> = {}
  OBVIOUS
<1>2. Units(<<>>) = {}
  BY <1>1 DEF Units
<1> QED
  BY <1>2, FS_EmptySet DEF TotalOf, Units

LEMMA TotalOfOne ==
  ASSUME NEW x, NEW n \in Nat
  PROVE  TotalOf([y \in {x} |-> n]) = n
<1>1. Units([y \in {x} |-> n]) = {x} \X (1..n)
  BY DEF Units
<1>2. IsFiniteSet({x}) /\ Cardinality({x}) = 1
  BY FS_Singleton
<1>3. IsFiniteSet(1..n) /\ Cardinality(1..n) = n
  BY FS_Interval
<1>4. Cardinality({x} \X (1..n)) = Cardinality({x}) * Cardinality(1..n)
  BY <1>2, <1>3, FS_Product
<1>5. Cardinality({x} \X (1..n)) = n
  BY <1>2, <1>3, <1>4
<1> QED
  BY <1>1, <1>5 DEF TotalOf, Units

LEMMA TotalStepsUp ==
  ASSUME NEW D, IsFiniteSet(D), NEW f \in [D -> Nat], NEW x \in D
  PROVE  TotalOf([f EXCEPT ![x] = @ + 1]) = TotalOf(f) + 1
<1> DEFINE one == [y \in D |-> IF y = x THEN 1 ELSE 0]
<1>1. one \in [D -> Nat]
  OBVIOUS
<1>4. [f EXCEPT ![x] = @ + 1] = [y \in D |-> f[y] + one[y]]
  <2>1. \A y \in D : [f EXCEPT ![x] = @ + 1][y] = f[y] + one[y]
    OBVIOUS
  <2> HIDE DEF one
  <2> QED
    BY <2>1
<1>2. Units(one) = {x} \X (1..1)
  <2>1. ASSUME NEW u \in Units(one) PROVE u \in {x} \X (1..1)
    <3>1. u = <<u[1], u[2]>> /\ u[1] \in D /\ u[2] \in 1..one[u[1]]
      BY <1>1, UnitsAre
    <3>2. u[1] = x /\ u[2] = 1
      BY <3>1
    <3> QED
      BY <3>1, <3>2
  <2>2. <<x, 1>> \in Units(one)
    BY <1>1, UnitsAre
  <2> QED
    BY <2>1, <2>2
<1>3. TotalOf(one) = 1
  <2>1. Units([y \in {x} |-> 1]) = {x} \X (1..1)
    BY DEF Units
  <2>2. TotalOf([y \in {x} |-> 1]) = 1
    BY TotalOfOne
  <2> QED
    BY <2>1, <2>2, <1>2 DEF TotalOf, Units
<1> HIDE DEF one
<1> QED
  BY <1>1, <1>3, <1>4, TotalAdds

-----------------------------------------------------------------------------
(* The accounts.                                                           *)

Sent(b) == TotalOf(sends[b])

(* The calls that a saved or shared state holds of a branch, and those of  *)
(* its thread: a request in flight will be one more.                       *)
KeptOf(m, b) ==
  IF m.status[b] \in Terminal THEN m.used[b]
  ELSE IF b \in m.held THEN m.snap[b].calls ELSE 0
InHand(b) == ctx[b].calls + (IF pc[b] = "sent" THEN 1 ELSE 0)

(* The budget m was charged is f's total, and no branch's part of it is    *)
(* more than it sent. When a group can be resumed from m's snapshots, not  *)
(* even with what m holds of the branch besides.                           *)
Charged(f, m) == m.spent = TotalOf(f) /\ \A b \in Branches : f[b] <= Sent(b)
Covered(f, m) ==
  /\ Charged(f, m)
  /\ m.held # {} => \A b \in Branches : f[b] + KeptOf(m, b) <= Sent(b)

(* The same of everything a result may still be made of.                   *)
Owes(f, b) ==
  /\ Running =>
       /\ f[b] + KeptOf(mem, b) <= Sent(b)
       /\ pc[b] \notin {"idle", "restore"} => f[b] + InHand(b) <= Sent(b)
       /\ future[b] = "done" => f[b] + ret[b].calls <= Sent(b)
  /\ phase = "collecting" =>
       /\ results[b] # <<>> => f[b] + results[b][1].calls <= Sent(b)
       /\ b \in mem.held => future[b] # "none"
  /\ pc[b] \in {"idle", "restore"} => ctx[b].calls = 0

Accounted(f) == Charged(f, mem) /\ \A b \in Branches : Owes(f, b)

Parts == [Branches -> Nat]
AccountInv == \E f, g \in Parts : Accounted(f) /\ Covered(g, disk)

(* Sent and held calls are numbers.                                        *)
LEMMA SentIsNat ==
  ASSUME Typed, NEW b \in Branches
  PROVE  Sent(b) \in Nat
<1>1. sends[b] \in [1..Steps -> Nat] /\ Steps \in Nat
  BY StepsPositive DEF Typed, StepsAreNat
<1>2. IsFiniteSet(1..Steps)
  BY <1>1, FS_Interval
<1> QED
  BY <1>1, <1>2, TotalIsNat DEF Sent

LEMMA SentStaysNat ==
  ASSUME Typed', NEW b \in Branches
  PROVE  Sent(b)' \in Nat
<1>1. sends'[b] \in [1..Steps -> Nat] /\ Steps \in Nat
  BY StepsPositive DEF Typed, StepsAreNat
<1>2. IsFiniteSet(1..Steps)
  BY <1>1, FS_Interval
<1> QED
  BY <1>1, <1>2, TotalIsNat DEF Sent

LEMMA ResultCalls ==
  ASSUME Typed, NEW b \in Branches
  PROVE  /\ results[b] # <<>> => results[b][1].calls \in 0..Steps
         /\ ret[b].calls \in 0..Steps /\ ctx[b].calls \in 0..Steps
<1>1. results[b] \in Seq(Result) /\ ret[b] \in Result /\ ctx[b] \in Progress
  BY DEF Typed
<1>2. results[b] # <<>> => results[b][1] \in Result
  BY <1>1
<1> QED
  BY <1>1, <1>2 DEF Result, Progress

LEMMA KeptIsNat ==
  ASSUME NEW s, NEW m \in SharedFor(s), NEW b \in Branches
  PROVE  KeptOf(m, b) \in 0..Steps
BY StepsPositive DEF KeptOf, SharedFor, Progress, StepsAreNat

(* A step of one branch's thread charges nothing.                          *)
Advances(f, b) ==
  /\ Running /\ phase' = phase /\ results' = results
  /\ mem'.spent = mem.spent
  /\ disk' = disk \/ disk' = mem'
  /\ mem'.held \subseteq mem.held \cup {b}
  /\ Sent(b) <= Sent(b)'
  /\ \A x \in Branches \ {b} :
       /\ sends'[x] = sends[x] /\ KeptOf(mem', x) = KeptOf(mem, x)
       /\ pc'[x] = pc[x] /\ ctx'[x] = ctx[x] /\ future'[x] = future[x] /\ ret'[x] = ret[x]
  /\ f[b] + KeptOf(mem', b) <= Sent(b)'
  /\ pc'[b] \notin {"idle", "restore"} => f[b] + InHand(b)' <= Sent(b)'
  /\ pc'[b] \in {"idle", "restore"} => ctx'[b].calls = 0
  /\ future'[b] = "done" => f[b] + ret'[b].calls <= Sent(b)'
  /\ future'[b] # "none"

LEMMA CoveredStays ==
  ASSUME Typed, Typed', NEW g \in Parts, NEW m, NEW s, m \in SharedFor(s), Covered(g, m),
         \A b \in Branches : Sent(b) <= Sent(b)'
  PROVE  /\ m.spent = TotalOf(g)
         /\ \A b \in Branches : g[b] <= Sent(b)'
         /\ m.held # {} => \A b \in Branches : g[b] + KeptOf(m, b) <= Sent(b)'
<1>1. \A b \in Branches : Sent(b) \in Nat
  BY SentIsNat
<1>2. \A b \in Branches : Sent(b)' \in Nat
  BY SentStaysNat
<1>3. \A b \in Branches : KeptOf(m, b) \in 0..Steps /\ g[b] \in Nat
  BY KeptIsNat DEF Parts
<1>4. Steps \in Nat
  BY StepsPositive DEF StepsAreNat
<1> QED
  BY <1>1, <1>2, <1>3, <1>4 DEF Charged, Covered

LEMMA AdvanceKeepsAccounts ==
  ASSUME Typed, Typed', NEW f \in Parts, NEW g \in Parts, Accounted(f), Covered(g, disk),
         NEW b \in Branches, Advances(f, b)
  PROVE  AccountInv'
<1>1. \A x \in Branches : Sent(x) \in Nat /\ f[x] \in Nat
  BY SentIsNat DEF Parts
<1>4. \A x \in Branches : Sent(x)' \in Nat
  BY SentStaysNat
<1>2. \A x \in Branches : Sent(x) <= Sent(x)'
  <2>1. \A x \in Branches \ {b} : Sent(x)' = Sent(x)
    BY DEF Advances, Sent
  <2> QED
    BY <2>1, <1>1 DEF Advances
<1>3. \A x \in Branches : Owes(f, x)'
  <2> SUFFICES ASSUME NEW x \in Branches PROVE Owes(f, x)'
    OBVIOUS
  <2>1. CASE x = b
    <3>1. phase' = "collecting" /\ results'[b] # <<>> => f[b] + results'[b][1].calls <= Sent(b)'
      <4>1. results[b] # <<>> => results[b][1].calls \in 0..Steps
        BY ResultCalls
      <4>2. phase = "collecting" /\ results[b] # <<>> => f[b] + results[b][1].calls <= Sent(b)
        BY DEF Accounted, Owes
      <4>3. results' = results /\ phase' = phase
        BY DEF Advances
      <4> QED
        BY <4>1, <4>2, <4>3, <1>1, <1>2, <1>4, StepsPositive DEF StepsAreNat
    <3> QED
      BY <2>1, <3>1 DEF Advances, Owes
  <2>2. CASE x # b
    <3>1. Sent(x)' = Sent(x) /\ InHand(x)' = InHand(x)
      BY <2>2 DEF Advances, Sent, InHand
    <3> QED
      BY <2>2, <3>1 DEF Advances, Owes, Accounted, Running
  <2> QED
    BY <2>1, <2>2
<1>5. Covered(f, mem)'
  <2>1. mem'.spent = TotalOf(f) /\ Running'
    BY DEF Advances, Accounted, Charged, Covered, Running
  <2>2. \A x \in Branches : f[x] <= Sent(x)'
    BY <1>1, <1>2, <1>4 DEF Accounted, Charged, Covered
  <2> QED
    BY <2>1, <2>2, <1>3 DEF Charged, Covered, Owes
<1>6. Accounted(f)'
  BY <1>3, <1>5 DEF Accounted, Covered
<1>7. CASE disk' = mem'
  BY <1>5, <1>6, <1>7 DEF AccountInv, Charged, Covered
<1>8. CASE disk' = disk
  <2>1. disk \in SharedFor(disk.spent)
    BY DEF Typed
  <2>2. Covered(g, disk)'
    BY <2>1, <1>2, <1>8, CoveredStays DEF Charged, Covered
  <2> QED
    BY <2>2, <1>6 DEF AccountInv
<1> QED
  BY <1>7, <1>8 DEF Advances

LEMMA PersistKeeps ==
  ASSUME Typed, NEW b \in Branches, NEW p \in Progress, Persist(b, p)
  PROVE  /\ mem'.used = mem.used
         /\ mem'.spent = mem.spent
         /\ disk' = disk \/ disk' = mem'
BY DEF Persist, Publish, Typed, SharedFor

LEMMA StoreAdvances ==
  ASSUME GroupInv, NEW f \in Parts, Accounted(f), NEW b \in Branches, NEW to, NEW p \in Progress,
         Stores(b, to, p), p.calls <= InHand(b), pc[b] \in {"next"} \cup NodePc,
         to \in {"launched", "armed", "answered", "kept", "next"}
  PROVE  Advances(f, b)
<1>1. Typed /\ PoolInv /\ Persist(b, p)
  BY DEF GroupInv, Stores
<1>2. /\ mem'.status = [mem.status EXCEPT ![b] = "running"]
      /\ mem'.held = mem.held \cup {b}
      /\ mem'.snap = [mem.snap EXCEPT ![b] = p]
      /\ mem'.used = mem.used /\ mem'.spent = mem.spent
      /\ disk' = disk \/ disk' = mem'
  BY <1>1, PersistShape, PersistKeeps
<1>3. /\ mem.status \in [Branches -> Terminal \cup {"none", "pending", "running"}]
      /\ mem.snap \in [Branches -> Progress]
      /\ pc \in [Branches -> Pcs] /\ ctx \in [Branches -> Progress]
  BY <1>1, SharedFields DEF Typed
<1>4. /\ pc' = [pc EXCEPT ![b] = to] /\ ctx' = [ctx EXCEPT ![b] = p]
      /\ UNCHANGED <<phase, results, future, ret, sends>>
  BY DEF Stores, groupVars, sendVars
<1>5. pc[b] \notin {"idle", "restore"} /\ future[b] = "running" /\ Running
  BY <1>1 DEF NodePc, PoolInv
<1>6. KeptOf(mem', b) = p.calls /\ \A x \in Branches \ {b} : KeptOf(mem', x) = KeptOf(mem, x)
  BY <1>2, <1>3 DEF KeptOf, Terminal
<1>7. Sent(b)' = Sent(b) /\ InHand(b)' = p.calls
  <2>1. pc'[b] = to /\ ctx'[b] = p /\ p.calls \in 0..Steps
    BY <1>3, <1>4 DEF Progress
  <2> QED
    BY <2>1, <1>4, StepsPositive DEF Sent, InHand, StepsAreNat
<1>8. /\ f[b] \in Nat /\ Sent(b) \in Nat /\ p.calls \in 0..Steps /\ Steps \in Nat
      /\ ctx[b].calls \in 0..Steps
  BY <1>1, SentIsNat, StepsPositive, ResultCalls DEF Parts, Progress, StepsAreNat
<1>9. f[b] + p.calls <= Sent(b)
  <2>1. f[b] + InHand(b) <= Sent(b) /\ InHand(b) \in Nat
    BY <1>5, <1>8 DEF Accounted, Owes, InHand
  <2> QED
    BY <2>1, <1>8
<1>10. \A x \in Branches \ {b} :
         /\ sends'[x] = sends[x] /\ pc'[x] = pc[x] /\ ctx'[x] = ctx[x]
         /\ future'[x] = future[x] /\ ret'[x] = ret[x]
  BY <1>3, <1>4
<1>11. pc'[b] \notin {"idle", "restore"} /\ future'[b] = "running"
  BY <1>3, <1>4, <1>5
<1> QED
  BY <1>2, <1>4, <1>5, <1>6, <1>7, <1>8, <1>9, <1>10, <1>11 DEF Advances

LEMMA MoveAdvances ==
  ASSUME GroupInv, NEW f \in Parts, Accounted(f), NEW b \in Branches, NEW to, NEW p \in Progress,
         Moves(b, to, p), f[b] + p.calls <= Sent(b), pc[b] # "idle",
         to \in {"begin", "next", "cleared", "closed", "withheld", "published"}
  PROVE  Advances(f, b)
<1>1. Typed /\ PoolInv
  BY DEF GroupInv
<1>2. /\ pc' = [pc EXCEPT ![b] = to] /\ ctx' = [ctx EXCEPT ![b] = p]
      /\ UNCHANGED <<mem, disk, phase, results, future, ret, sends>>
      /\ pc \in [Branches -> Pcs] /\ ctx \in [Branches -> Progress]
  BY <1>1 DEF Moves, sharedVars, groupVars, sendVars, Typed
<1>3. future[b] = "running" /\ Running
  BY <1>1 DEF PoolInv
<1>4. f[b] \in Nat /\ Sent(b) \in Nat /\ p.calls \in 0..Steps /\ Steps \in Nat
  BY <1>1, SentIsNat, StepsPositive DEF Parts, Progress, StepsAreNat
<1>5. Sent(b)' = Sent(b) /\ InHand(b)' = p.calls
  BY <1>2, <1>4 DEF Sent, InHand
<1>6. f[b] + KeptOf(mem, b) <= Sent(b)
  BY <1>3 DEF Accounted, Owes
<1>7. pc'[b] \notin {"idle", "restore"} /\ future'[b] = "running"
  BY <1>2, <1>3
<1>8. \A x \in Branches \ {b} :
         /\ sends'[x] = sends[x] /\ pc'[x] = pc[x] /\ ctx'[x] = ctx[x]
         /\ future'[x] = future[x] /\ ret'[x] = ret[x] /\ KeptOf(mem', x) = KeptOf(mem, x)
  BY <1>2
<1> QED
  BY <1>2, <1>3, <1>4, <1>5, <1>6, <1>7, <1>8 DEF Advances

LEMMA FinishAdvances ==
  ASSUME GroupInv, NEW f \in Parts, Accounted(f), NEW b \in Branches, NEW status, NEW own,
         Finishes(b, status, own), pc[b] # "restore"
  PROVE  Advances(f, b)
<1>1. Typed /\ PoolInv /\ status \in Terminal /\ pc[b] # "idle"
  BY DEF GroupInv, Finishes
<1>2. /\ mem'.status = [mem.status EXCEPT ![b] = status]
      /\ mem'.held = mem.held \ {b}
      /\ mem'.snap = [mem.snap EXCEPT ![b] = Fresh]
      /\ future' = [future EXCEPT ![b] = "done"]
      /\ pc' = [pc EXCEPT ![b] = "idle"]
      /\ ctx' = [ctx EXCEPT ![b] = Fresh]
      /\ \A c \in Branches : c # b => ret'[c] = ret[c]
      /\ UNCHANGED <<phase, results, sends>>
  BY <1>1, FinishShape DEF groupVars, sendVars
<1>3. /\ mem'.used = [mem.used EXCEPT ![b] = ctx[b].calls] /\ mem'.spent = mem.spent
      /\ disk' = disk \/ disk' = mem'
  BY <1>1 DEF Finishes, Finalize, Publish, Typed, SharedFor
<1>4. /\ mem.status \in [Branches -> Terminal \cup {"none", "pending", "running"}]
      /\ mem.used \in [Branches -> 0..Steps] /\ mem.snap \in [Branches -> Progress]
      /\ ret \in [Branches -> Result]
      /\ pc \in [Branches -> Pcs] /\ ctx \in [Branches -> Progress]
      /\ future \in [Branches -> {"none", "pending", "running", "done", "cancelled"}]
  BY <1>1 DEF Typed, SharedFor
<1>5. ret'[b].calls \in {0, ctx[b].calls}
  BY <1>1, <1>4 DEF Finishes, Finalize, Ends, Without
<1>6. f[b] \in Nat /\ Sent(b) \in Nat /\ ctx[b].calls \in 0..Steps /\ Steps \in Nat
  BY <1>1, SentIsNat, StepsPositive, ResultCalls DEF Parts, StepsAreNat
<1>7. future[b] = "running" /\ Running
  BY <1>1 DEF PoolInv
<1>8. f[b] + ctx[b].calls <= Sent(b)
  BY <1>1, <1>6, <1>7 DEF Accounted, Owes, InHand
<1>9. KeptOf(mem', b) = ctx[b].calls /\ \A x \in Branches \ {b} : KeptOf(mem', x) = KeptOf(mem, x)
  BY <1>1, <1>2, <1>3, <1>4 DEF KeptOf
<1>10. Sent(b)' = Sent(b)
  BY <1>2 DEF Sent
<1>11. pc'[b] = "idle" /\ ctx'[b].calls = 0 /\ future'[b] = "done"
  BY <1>2, <1>4, FreshIsProgress
<1>12. \A x \in Branches \ {b} :
         /\ sends'[x] = sends[x] /\ pc'[x] = pc[x] /\ ctx'[x] = ctx[x]
         /\ future'[x] = future[x] /\ ret'[x] = ret[x]
  BY <1>2, <1>4
<1>13. f[b] + ret'[b].calls <= Sent(b)
  BY <1>5, <1>6, <1>8
<1> QED
  BY <1>2, <1>3, <1>6, <1>7, <1>8, <1>9, <1>10, <1>11, <1>12, <1>13 DEF Advances

(* Each step of a thread is one of these.                                  *)
LEMMA InHandCovered ==
  ASSUME GroupInv, NEW f \in Parts, Accounted(f), NEW b \in Branches, pc[b] \notin {"idle", "restore"}
  PROVE  /\ f[b] + InHand(b) <= Sent(b)
         /\ f[b] + ctx[b].calls <= Sent(b)
         /\ ctx[b].calls <= InHand(b)
<1>1. Typed /\ PoolInv
  BY DEF GroupInv
<1>2. Running
  BY <1>1 DEF PoolInv
<1>3. f[b] \in Nat /\ Sent(b) \in Nat /\ ctx[b].calls \in 0..Steps /\ Steps \in Nat
  BY <1>1, SentIsNat, StepsPositive, ResultCalls DEF Parts, StepsAreNat
<1> QED
  BY <1>2, <1>3 DEF Accounted, Owes, InHand

LEMMA StoringStepsAdvance ==
  ASSUME GroupInv, NEW f \in Parts, Accounted(f), NEW b \in Branches,
         Launch(b) \/ LaunchBoundary(b) \/ Answer(b) \/ CompletionBoundary(b) \/ CompleteNode(b)
  PROVE  Advances(f, b)
<1>1. Typed /\ ThreadInv
  BY DEF GroupInv
<1>2. /\ ctx \in [Branches -> Progress] /\ ctx[b] \in Progress
      /\ ctx[b].done \in 0..Steps /\ ctx[b].calls \in 0..Steps /\ ctx[b].open \in BOOLEAN
      /\ ctx = [ctx EXCEPT ![b] = ctx[b]]
      /\ Steps \in Nat
  BY <1>1, StepsPositive DEF Typed, Progress, StepsAreNat
<1>3. pc[b] \notin {"idle", "restore"} => ctx[b].calls <= InHand(b)
  BY InHandCovered
<1>4. CASE Launch(b)
  <2> DEFINE p == [ctx[b] EXCEPT !.open = TRUE]
  <2>1. p \in Progress /\ p.calls = ctx[b].calls
    BY <1>2 DEF Progress
  <2>2. pc[b] = "next" /\ Stores(b, "launched", p)
    BY <1>4 DEF Launch, Goto, Stores
  <2> HIDE DEF p
  <2> QED
    BY <2>1, <2>2, <1>3, StoreAdvances
<1>5. CASE LaunchBoundary(b)
  <2>1. pc[b] = "launched" /\ Stores(b, "armed", ctx[b])
    BY <1>5, <1>2 DEF LaunchBoundary, Goto, Stores
  <2> QED
    BY <2>1, <1>2, <1>3, StoreAdvances DEF NodePc
<1>6. CASE Answer(b)
  <2> DEFINE p == [done |-> ctx[b].done + 1, calls |-> ctx[b].calls + 1, open |-> FALSE]
  <2>1. pc[b] = "sent" /\ Stores(b, "answered", p)
    BY <1>6 DEF Answer, Goto, Stores
  <2>2. ctx[b].done < Steps /\ ctx[b].calls <= ctx[b].done
    BY <2>1, <1>1 DEF ThreadInv, OpenPc, WellFormed
  <2>3. p \in Progress /\ p.calls = ctx[b].calls + 1
    BY <2>2, <1>2 DEF Progress
  <2>4. InHand(b) = ctx[b].calls + 1
    BY <2>1, <1>2 DEF InHand
  <2> HIDE DEF p
  <2>5. p.calls <= InHand(b)
    BY <2>3, <2>4, <1>2
  <2> QED
    BY <2>1, <2>3, <2>5, StoreAdvances DEF NodePc
<1>7. CASE CompletionBoundary(b)
  <2>1. pc[b] = "answered" /\ Stores(b, "kept", ctx[b])
    BY <1>7, <1>2 DEF CompletionBoundary, Goto, Stores
  <2> QED
    BY <2>1, <1>2, <1>3, StoreAdvances DEF NodePc
<1>8. CASE CompleteNode(b)
  <2>1. pc[b] = "kept" /\ Stores(b, "next", ctx[b])
    BY <1>8, <1>2 DEF CompleteNode, Goto, Stores
  <2> QED
    BY <2>1, <1>2, <1>3, StoreAdvances DEF NodePc
<1> QED
  BY <1>4, <1>5, <1>6, <1>7, <1>8

LEMMA MovingStepsAdvance ==
  ASSUME GroupInv, NEW f \in Parts, Accounted(f), NEW b \in Branches,
         Restore(b) \/ Begin(b) \/ Clear(b) \/ CloseNodes(b) \/ Emit(b)
  PROVE  Advances(f, b)
<1>1. Typed /\ ThreadInv /\ PoolInv /\ SharedInv
  BY DEF GroupInv
<1>2. /\ ctx \in [Branches -> Progress] /\ ctx[b] \in Progress
      /\ ctx = [ctx EXCEPT ![b] = ctx[b]]
  BY <1>1 DEF Typed
<1>3. pc[b] \notin {"idle", "restore"} => f[b] + ctx[b].calls <= Sent(b)
  BY InHandCovered
<1>4. CASE Restore(b)
  <2> DEFINE saved == mem.snap[b]
             p == IF saved.open THEN [saved EXCEPT !.open = FALSE, !.done = @ + 1] ELSE saved
  <2>1. Moves(b, "begin", p) /\ pc[b] = "restore"
    BY <1>4 DEF Restore, Goto, Moves
  <2>2. /\ saved \in Progress /\ saved.done \in 0..Steps /\ saved.open \in BOOLEAN
        /\ saved.open => saved.done < Steps
        /\ Steps \in Nat
    BY <1>1, SharedFields, StepsPositive DEF Typed, Progress, ThreadInv, WellFormed, StepsAreNat
  <2>3. p \in Progress /\ p.calls = saved.calls
    <3> HIDE DEF saved
    <3>1. CASE saved.open
      <4>1. p = [saved EXCEPT !.open = FALSE, !.done = saved.done + 1]
        BY <3>1
      <4> HIDE DEF p
      <4>2. saved.done + 1 \in 0..Steps
        BY <2>2, <3>1
      <4> QED
        BY <2>2, <4>1, <4>2 DEF Progress
    <3>2. CASE ~saved.open
      BY <2>2, <3>2
    <3> QED
      BY <3>1, <3>2
  <2>4. b \in mem.held /\ Running
    BY <2>1, <1>1 DEF ThreadInv, PoolInv
  <2>5. KeptOf(mem, b) = saved.calls
    BY <2>4, <1>1 DEF KeptOf, SharedInv, Terminal
  <2>6. f[b] + saved.calls <= Sent(b)
    BY <2>4, <2>5 DEF Accounted, Owes
  <2> HIDE DEF p, saved
  <2> QED
    BY <2>1, <2>3, <2>6, MoveAdvances
<1>5. CASE Begin(b)
  <2>1. pc[b] = "begin" /\ Moves(b, "next", ctx[b])
    BY <1>5, <1>2 DEF Begin, Unless, Goto, Moves
  <2> QED
    BY <2>1, <1>2, <1>3, MoveAdvances
<1>6. CASE Clear(b)
  <2>1. pc[b] = "armed" /\ Moves(b, "cleared", ctx[b])
    BY <1>6, <1>2 DEF Clear, Unless, Goto, Moves
  <2> QED
    BY <2>1, <1>2, <1>3, MoveAdvances
<1>7. CASE CloseNodes(b)
  <2>1. pc[b] = "next" /\ Moves(b, "closed", ctx[b])
    BY <1>7, <1>2 DEF CloseNodes, Unless, Goto, Moves
  <2> QED
    BY <2>1, <1>2, <1>3, MoveAdvances
<1>8. CASE Emit(b)
  <2>1. pc[b] = "closed" /\ Moves(b, IF event THEN "withheld" ELSE "published", ctx[b])
    BY <1>8, <1>2 DEF Emit, Goto, Moves
  <2> QED
    BY <2>1, <1>2, <1>3, MoveAdvances
<1> QED
  BY <1>4, <1>5, <1>6, <1>7, <1>8

LEMMA FinishingStepsAdvance ==
  ASSUME GroupInv, NEW f \in Parts, Accounted(f), NEW b \in Branches,
         Complete(b) \/ Cancelled(b) \/ Fail(b)
  PROVE  Advances(f, b)
<1>1. CASE pc[b] = "published" /\ Finalize(b, "completed", "emitted")
  BY <1>1, FinishAdvances DEF Finishes, Terminal, Publication
<1>2. CASE pc[b] = "withheld" /\ Finalize(b, "completed", "none")
  BY <1>2, FinishAdvances DEF Finishes, Terminal, Publication
<1>3. CASE Cancelled(b)
  BY <1>3, FinishAdvances DEF Cancelled, Finishes, Terminal, Publication
<1>4. CASE Fail(b)
  BY <1>4, FinishAdvances DEF Fail, Finishes, Terminal, Publication
<1> QED
  BY <1>1, <1>2, <1>3, <1>4 DEF Complete

LEMMA StartAdvances ==
  ASSUME GroupInv, NEW f \in Parts, Accounted(f), NEW b \in Branches, StartBranch(b)
  PROVE  Advances(f, b)
<1>1. Typed /\ PoolInv
  BY DEF GroupInv
<1>2. /\ future[b] = "pending" /\ Running /\ pc[b] = "idle"
      /\ future' = [future EXCEPT ![b] = "running"]
      /\ pc' = [pc EXCEPT ![b] = IF b \in mem.held THEN "restore" ELSE "begin"]
      /\ UNCHANGED <<mem, disk, phase, results, ret, ctx, sends>>
      /\ pc \in [Branches -> Pcs]
      /\ future \in [Branches -> {"none", "pending", "running", "done", "cancelled"}]
  BY <1>1 DEF StartBranch, PoolInv, Typed, sharedVars, groupVars, sendVars
<1>3. ctx[b].calls = 0 /\ f[b] + KeptOf(mem, b) <= Sent(b) /\ f[b] <= Sent(b)
  BY <1>2 DEF Accounted, Owes, Charged, Covered
<1>4. pc'[b] \in {"restore", "begin"} /\ future'[b] = "running"
  BY <1>2
<1>5. f[b] \in Nat /\ Sent(b) \in Nat
  BY <1>1, SentIsNat DEF Parts
<1>6. Sent(b)' = Sent(b) /\ InHand(b)' = 0
  BY <1>2, <1>3, <1>4 DEF Sent, InHand
<1>7. \A x \in Branches \ {b} :
         /\ sends'[x] = sends[x] /\ pc'[x] = pc[x] /\ ctx'[x] = ctx[x]
         /\ future'[x] = future[x] /\ ret'[x] = ret[x] /\ KeptOf(mem', x) = KeptOf(mem, x)
  BY <1>2
<1> QED
  BY <1>2, <1>3, <1>4, <1>5, <1>6, <1>7 DEF Advances

LEMMA RestoreFailsAdvances ==
  ASSUME GroupInv, NEW f \in Parts, Accounted(f), NEW b \in Branches, RestoreFails(b)
  PROVE  Advances(f, b)
<1>1. Typed /\ PoolInv
  BY DEF GroupInv
<1>2. /\ pc[b] = "restore" /\ Running
      /\ future' = [future EXCEPT ![b] = "done"]
      /\ ret' = [ret EXCEPT ![b] = Without("unrecovered")]
      /\ pc' = [pc EXCEPT ![b] = "idle"]
      /\ ctx' = [ctx EXCEPT ![b] = Fresh]
      /\ UNCHANGED <<mem, disk, phase, results, sends>>
      /\ pc \in [Branches -> Pcs] /\ ctx \in [Branches -> Progress] /\ ret \in [Branches -> Result]
      /\ future \in [Branches -> {"none", "pending", "running", "done", "cancelled"}]
  BY <1>1 DEF RestoreFails, Ends, PoolInv, Typed, sharedVars, groupVars, sendVars
<1>3. f[b] + KeptOf(mem, b) <= Sent(b) /\ f[b] <= Sent(b)
  BY <1>2 DEF Accounted, Owes, Charged, Covered
<1>4. pc'[b] = "idle" /\ future'[b] = "done" /\ ctx'[b].calls = 0 /\ ret'[b].calls = 0
  BY <1>2, FreshIsProgress DEF Without
<1>5. f[b] \in Nat /\ Sent(b) \in Nat /\ Sent(b)' = Sent(b)
  BY <1>1, <1>2, SentIsNat DEF Parts, Sent
<1>6. \A x \in Branches \ {b} :
         /\ sends'[x] = sends[x] /\ pc'[x] = pc[x] /\ ctx'[x] = ctx[x]
         /\ future'[x] = future[x] /\ ret'[x] = ret[x] /\ KeptOf(mem', x) = KeptOf(mem, x)
  BY <1>2
<1> QED
  BY <1>2, <1>3, <1>4, <1>5, <1>6 DEF Advances

(* A request is counted when it goes out, and is in hand from then on.     *)
LEMMA SendAdvances ==
  ASSUME GroupInv, NEW f \in Parts, Accounted(f), NEW b \in Branches, Send(b)
  PROVE  Advances(f, b)
<1> DEFINE n == ctx[b].done + 1
<1>1. Typed /\ PoolInv /\ ThreadInv
  BY DEF GroupInv
<1>2. /\ pc[b] = "cleared" /\ Running
      /\ pc' = [pc EXCEPT ![b] = "sent"]
      /\ sends' = [sends EXCEPT ![b][n] = @ + 1]
      /\ UNCHANGED <<mem, disk, phase, results, future, ret, ctx>>
      /\ pc \in [Branches -> Pcs] /\ sends \in [Branches -> [1..Steps -> Nat]]
      /\ future[b] = "running"
  BY <1>1 DEF Send, Goto, PoolInv, Typed, sharedVars, groupVars
<1>3. n \in 1..Steps /\ Steps \in Nat /\ ctx[b].calls \in 0..Steps
  BY <1>1, <1>2, StepsPositive
  DEF ThreadInv, OpenPc, WellFormed, Typed, Progress, StepsAreNat
<1> HIDE DEF n
<1>4. Sent(b)' = Sent(b) + 1
  <2>1. sends'[b] = [sends[b] EXCEPT ![n] = @ + 1] /\ sends[b] \in [1..Steps -> Nat]
    BY <1>2, <1>3
  <2>2. IsFiniteSet(1..Steps)
    BY <1>3, FS_Interval
  <2> QED
    BY <2>1, <2>2, <1>3, TotalStepsUp DEF Sent
<1>5. f[b] \in Nat /\ Sent(b) \in Nat
  BY <1>1, SentIsNat DEF Parts
<1>6. f[b] + ctx[b].calls <= Sent(b)
  BY <1>2, InHandCovered
<1>7. pc'[b] = "sent" /\ InHand(b)' = ctx[b].calls + 1
  BY <1>2, <1>3 DEF InHand
<1>8. f[b] + KeptOf(mem, b) <= Sent(b) /\ KeptOf(mem, b) \in 0..Steps
  BY <1>1, <1>2, KeptIsNat DEF Accounted, Owes, Typed
<1>9. \A x \in Branches \ {b} :
         /\ sends'[x] = sends[x] /\ pc'[x] = pc[x] /\ ctx'[x] = ctx[x]
         /\ future'[x] = future[x] /\ ret'[x] = ret[x] /\ KeptOf(mem', x) = KeptOf(mem, x)
  BY <1>2
<1> QED
  BY <1>2, <1>3, <1>4, <1>5, <1>6, <1>7, <1>8, <1>9 DEF Advances

LEMMA ThreadKeepsAccounts ==
  ASSUME GroupInv, GroupInv', AccountInv, NEW b \in Branches, BranchStep(b)
  PROVE  AccountInv'
<1>1. PICK f \in Parts, g \in Parts : Accounted(f) /\ Covered(g, disk)
  BY DEF AccountInv
<1>2. Advances(f, b)
  BY <1>1, StoringStepsAdvance, MovingStepsAdvance, FinishingStepsAdvance, StartAdvances,
     RestoreFailsAdvances, SendAdvances DEF BranchStep
<1>3. Typed /\ Typed'
  BY DEF GroupInv
<1> QED
  BY <1>1, <1>2, <1>3, AdvanceKeepsAccounts

(* Taking a future makes its calls a result's; what is cancelled has none. *)
LEMMA TakeKeepsAccounts ==
  ASSUME GroupInv, GroupInv', AccountInv, NEW b \in Branches, NEW added, NEW stop,
         TakesSoundly(b, added, stop), Took(b, added, stop)
  PROVE  AccountInv'
<1>1. PICK f \in Parts, g \in Parts : Accounted(f) /\ Covered(g, disk)
  BY DEF AccountInv
<1>2. /\ b \in pending /\ future[b] = "done" /\ phase = "collecting" /\ Typed /\ PoolInv
      /\ added \in Seq(Result) /\ stop \in BOOLEAN /\ added \in {<<>>, <<ret[b]>>}
  BY DEF TakesSoundly, Done, GroupInv, Typed
<1>3. /\ future' = [c \in Branches |-> IF c \in Unstarted(b, stop) THEN "cancelled" ELSE future[c]]
      /\ results' = [c \in Branches |-> IF c = b THEN added
                                        ELSE IF c \in Unstarted(b, stop) THEN <<Without("cancelled")>>
                                        ELSE results[c]]
      /\ UNCHANGED <<mem, disk, phase, ret, pc, ctx, sends>>
  BY <1>2, TookShape DEF sharedVars, sendVars
<1>4. \A x \in Branches : Sent(x)' = Sent(x) /\ InHand(x)' = InHand(x)
  BY <1>3 DEF Sent, InHand
<1>5. ASSUME NEW x \in Branches PROVE Owes(f, x)'
  <2>1. Owes(f, x) /\ f[x] <= Sent(x) /\ f[x] \in Nat /\ Sent(x) \in Nat
    BY <1>1, <1>2, SentIsNat DEF Accounted, Charged, Covered, Parts
  <2>2. future'[x] \in {future[x], "cancelled"}
    BY <1>3
  <2>3. results'[x] # <<>> => f[x] + results'[x][1].calls <= Sent(x)
    <3>1. CASE x = b
      <4>1. results'[x] = added
        BY <1>3, <3>1
      <4>2. f[x] + ret[x].calls <= Sent(x)
        BY <1>2, <2>1, <3>1 DEF Owes, Running
      <4>3. added = <<>> \/ added[1] = ret[b]
        BY <1>2
      <4> QED
        BY <3>1, <4>1, <4>2, <4>3
    <3>2. CASE x # b /\ x \in Unstarted(b, stop)
      <4>1. results'[x] = <<Without("cancelled")>>
        BY <1>3, <3>2
      <4>2. results'[x][1].calls = 0
        BY <4>1 DEF Without
      <4> QED
        BY <2>1, <4>2
    <3>3. CASE x # b /\ x \notin Unstarted(b, stop)
      <4>1. results'[x] = results[x]
        BY <1>3, <3>3
      <4> QED
        BY <1>2, <2>1, <4>1 DEF Owes
    <3> QED
      BY <3>1, <3>2, <3>3
  <2> QED
    BY <1>2, <1>3, <1>4, <2>1, <2>2, <2>3 DEF Owes, Running
<1>6. Charged(f, mem)' /\ Covered(g, disk)'
  BY <1>1, <1>3, <1>4 DEF Accounted, Charged, Covered
<1> QED
  BY <1>5, <1>6 DEF AccountInv, Accounted

LEMMA TakingKeepsAccounts ==
  ASSUME GroupInv, GroupInv', AccountInv, NEW b \in Branches, TakeResult(b) \/ TakeUnrecovered(b)
  PROVE  AccountInv'
<1>1. ret[b] \in Result
  BY DEF GroupInv, Typed
<1>2. CASE TakeResult(b)
  <2>1. /\ Took(b, <<ret[b]>>, ret[b].status = "failed" /\ ~event)
        /\ TakesSoundly(b, <<ret[b]>>, ret[b].status = "failed" /\ ~event)
    BY <1>1, <1>2 DEF TakeResult, TakesSoundly
  <2> QED
    BY <2>1, TakeKeepsAccounts
<1>3. CASE TakeUnrecovered(b)
  <2>1. Took(b, <<>>, ~erred) /\ TakesSoundly(b, <<>>, ~erred)
    BY <1>3 DEF TakeUnrecovered, TakesSoundly
  <2> QED
    BY <2>1, TakeKeepsAccounts
<1> QED
  BY <1>2, <1>3

(* Leaving the loop, and the wait behind it, change no account.            *)
LEMMA LeavingKeepsAccounts ==
  ASSUME GroupInv, AccountInv, Drained \/ \E b \in Branches : TakeRaised(b)
  PROVE  AccountInv'
<1>1. PICK f \in Parts, g \in Parts : Accounted(f) /\ Covered(g, disk)
  BY DEF AccountInv
<1>2. /\ Running /\ phase' \in {"failed", "draining"}
      /\ \A x \in Branches : future'[x] \in {future[x], "cancelled"}
      /\ UNCHANGED <<mem, disk, ret, pc, ctx, sends>>
  BY DEF Drained, TakeRaised, Done, Running, sharedVars, threadVars, sendVars
<1>3. \A x \in Branches : Sent(x)' = Sent(x) /\ InHand(x)' = InHand(x)
  BY <1>2 DEF Sent, InHand
<1>4. \A x \in Branches : Owes(f, x)'
  BY <1>1, <1>2, <1>3 DEF Accounted, Owes, Running
<1>5. Charged(f, mem)' /\ Covered(g, disk)'
  BY <1>1, <1>2, <1>3 DEF Accounted, Charged, Covered
<1> QED
  BY <1>4, <1>5 DEF AccountInv, Accounted

(* A kill takes the account back to the checkpoint's.                      *)
LEMMA CrashKeepsAccounts ==
  ASSUME GroupInv, AccountInv, Crash
  PROVE  AccountInv'
<1>1. PICK f \in Parts, g \in Parts : Accounted(f) /\ Covered(g, disk)
  BY DEF AccountInv
<1>2. /\ phase' = "killed" /\ mem' = disk
      /\ pc' = [b \in Branches |-> "idle"]
      /\ ctx' = [b \in Branches |-> Fresh]
      /\ UNCHANGED <<disk, sends>>
  BY DEF Crash, sendVars
<1>3. \A x \in Branches : Sent(x)' = Sent(x)
  BY <1>2 DEF Sent
<1>4. \A x \in Branches : Owes(g, x)'
  BY <1>2, FreshIsProgress DEF Owes, Running
<1>5. Charged(g, mem)' /\ Covered(g, disk)'
  BY <1>1, <1>2, <1>3 DEF Charged, Covered
<1> QED
  BY <1>4, <1>5 DEF AccountInv, Accounted

(* An attempt starts from the checkpoint's account, and what it takes over *)
(* as a result the checkpoint still held.                                  *)
LEMMA AttemptKeepsAccounts ==
  ASSUME GroupInv, AccountInv, NEW to, NEW submitted, NEW taken, Attempt(to, submitted, taken),
         ~Running, mem' = disk', disk'.spent = disk.spent, disk'.held = disk.held,
         disk.held \subseteq submitted, submitted \subseteq Branches,
         disk.held # {} => disk' = disk,
         to \in {"collecting", "returned"},
         \A b \in Branches :
           /\ disk.held = {} /\ to = "collecting" => disk'.status[b] = "pending"
           /\ to = "collecting" /\ taken[b] # <<>> =>
                disk.held # {} /\ taken[b][1].calls = KeptOf(disk, b)
  PROVE  AccountInv'
<1>1. PICK g \in Parts : Covered(g, disk) /\ \A x \in Branches : pc[x] \in {"idle", "restore"} => ctx[x].calls = 0
  BY DEF AccountInv, Accounted, Owes
<1>2. /\ phase' = to /\ results' = taken
      /\ future' = [b \in Branches |-> IF b \in submitted THEN "pending" ELSE "none"]
      /\ UNCHANGED <<pc, ctx, sends>>
  BY DEF Attempt
<1>3. Typed /\ PoolInv
  BY DEF GroupInv
<1>4. \A x \in Branches : pc[x] = "idle" /\ future'[x] # "done" /\ (x \in submitted => future'[x] # "none")
  BY <1>2, <1>3 DEF PoolInv
<1>5. \A x \in Branches : Sent(x)' = Sent(x) /\ Sent(x) \in Nat /\ g[x] \in Nat /\ g[x] <= Sent(x)
  BY <1>1, <1>2, <1>3, SentIsNat DEF Sent, Charged, Covered, Parts
<1>6. Covered(g, disk)'
  BY <1>1, <1>5 DEF Charged, Covered
<1>7. ASSUME NEW x \in Branches, to = "collecting"
      PROVE  g[x] + KeptOf(disk', x) <= Sent(x)
  <2>1. CASE disk.held = {}
    <3>1. KeptOf(disk', x) = 0
      BY <1>7, <2>1 DEF KeptOf, Terminal
    <3> QED
      BY <3>1, <1>5
  <2>2. CASE disk.held # {}
    BY <2>2, <1>1 DEF Charged, Covered
  <2> QED
    BY <2>1, <2>2
<1>8. ASSUME NEW x \in Branches, to = "collecting", taken[x] # <<>>
      PROVE  g[x] + taken[x][1].calls <= Sent(x)
  BY <1>1, <1>8 DEF Charged, Covered
<1>9. ASSUME NEW x \in Branches PROVE Owes(g, x)'
  <2>1. CASE to = "returned"
    BY <2>1, <1>1, <1>2, <1>4 DEF Owes, Running
  <2>2. CASE to = "collecting"
    BY <2>2, <1>1, <1>2, <1>4, <1>5, <1>7, <1>8 DEF Owes
  <2> QED
    BY <2>1, <2>2
<1>10. Charged(g, mem)'
  BY <1>6 DEF Charged, Covered
<1> QED
  BY <1>6, <1>9, <1>10 DEF AccountInv, Accounted

LEMMA BeginningKeepsAccounts ==
  ASSUME GroupInv, AccountInv, RestoreFrontier \/ ResumeGroup \/ ExecuteGroup
  PROVE  AccountInv'
<1>1. Typed /\ PoolInv /\ SharedInv /\ disk.held \subseteq Branches
  BY SharedFields DEF GroupInv, Typed
<1>2. \A b \in Branches : disk.status[b] = "running" <=> b \in disk.held
  BY <1>1 DEF SharedInv
<1>3. CASE RestoreFrontier
  <2> DEFINE taken == [b \in Branches |-> IF disk.listed[b] = "accepted"
                                            THEN <<[Without("completed") EXCEPT !.artifact = TRUE]>>
                                            ELSE <<>>]
  <2>1. /\ Attempt("returned", {}, taken) /\ ~Running
        /\ mem' = disk /\ disk' = disk
        /\ \A b \in Branches : disk.status[b] \in {"completed", "cancelled"}
    BY <1>3 DEF RestoreFrontier, Stopped, Running, Restorable
  <2>2. disk.held = {}
    BY <2>1, <1>1, <1>2
  <2> HIDE DEF taken
  <2> QED
    BY <2>1, <2>2, AttemptKeepsAccounts
<1>4. CASE ResumeGroup
  <2> DEFINE taken == [b \in Branches |-> IF disk.status[b] \in Terminal
                                            THEN <<Recorded(disk, b)>> ELSE <<>>]
  <2>1. /\ Attempt("collecting", disk.held, taken) /\ ~Running
        /\ mem' = disk /\ disk' = disk /\ disk.held # {}
    BY <1>4 DEF ResumeGroup, Stopped, Running
  <2>2. \A b \in Branches : taken[b] # <<>> => taken[b][1].calls = KeptOf(disk, b)
    BY DEF Recorded, KeptOf
  <2> HIDE DEF taken
  <2> QED
    BY <2>1, <2>2, <1>1, AttemptKeepsAccounts
<1>5. CASE ExecuteGroup
  <2> DEFINE m == [disk EXCEPT !.status = [b \in Branches |-> "pending"],
                               !.used = [b \in Branches |-> 0],
                               !.own = [b \in Branches |-> "none"]]
             taken == [b \in Branches |-> <<>>]
  <2>1. /\ Attempt("collecting", Branches, taken) /\ mem' = m /\ disk' = m
        /\ phase = "ready" \/ (Stopped /\ disk.held = {})
    BY <1>5 DEF ExecuteGroup
  <2>2. disk.held = {} /\ ~Running
    BY <2>1, <1>1 DEF PoolInv, Stopped, Running
  <2>3. m.spent = disk.spent /\ m.held = disk.held /\ \A b \in Branches : m.status[b] = "pending"
    BY <1>1 DEF Typed, SharedFor
  <2>4. \A b \in Branches : taken[b] = <<>>
    OBVIOUS
  <2> HIDE DEF m, taken
  <2> QED
    BY <2>1, <2>2, <2>3, <2>4, AttemptKeepsAccounts
<1> QED
  BY <1>3, <1>4, <1>5

LEMMA CallsInOne ==
  ASSUME NEW s \in Seq(Result), Len(s) <= 1
  PROVE  CallsIn(s) = IF s = <<>> THEN 0 ELSE s[1].calls
<1>1. CASE s = <<>>
  <2>1. [i \in DOMAIN s |-> s[i].calls] = <<>>
    BY <1>1
  <2> QED
    BY <2>1, <1>1, TotalOfNone DEF CallsIn
<1>2. CASE s # <<>>
  <2>1. DOMAIN s = {1} /\ s[1] \in Result
    <3>1. Len(s) \in Nat /\ Len(s) # 0 /\ DOMAIN s = 1..Len(s)
      BY <1>2
    <3>2. Len(s) = 1
      BY <3>1
    <3> QED
      BY <3>1, <3>2
  <2>2. s[1].calls \in Nat
    BY <2>1, StepsPositive DEF Result, StepsAreNat
  <2>3. [i \in DOMAIN s |-> s[i].calls] = [i \in {1} |-> s[1].calls]
    BY <2>1
  <2> QED
    BY <2>2, <2>3, <1>2, TotalOfOne DEF CallsIn
<1> QED
  BY <1>1, <1>2

(* Applying the results charges what they hold. A checkpoint that follows  *)
(* has no snapshots left: a branch that has one has a result only when a   *)
(* sibling told the group to stop.                                         *)
LEMMA ApplyKeepsAccounts ==
  ASSUME GroupInv, GroupInv', AccountInv, Apply
  PROVE  AccountInv'
<1> DEFINE taken == [b \in Branches |-> CallsIn(results[b])]
<1>1. PICK f \in Parts, g \in Parts : Accounted(f) /\ Covered(g, disk)
  BY DEF AccountInv
<1>2. Typed /\ PoolInv /\ ResultsInv
  BY DEF GroupInv
<1>3. /\ phase = "collecting" /\ pending = {} /\ phase' \in {"returned", "failed"}
      /\ mem'.spent = mem.spent + TotalOf(taken)
      /\ mem'.held \subseteq mem.held
      /\ disk' = disk \/ (disk' = mem' /\ ~erred /\ ~ \E b \in Branches :
                            results[b] # <<>> /\ \E r \in ToSet(results[b]) : r.status = "failed")
      /\ UNCHANGED <<results, future, pc, ctx, sends>>
  BY <1>2 DEF Apply, CallsTaken, Typed, SharedFor, threadVars, sendVars
<1>4. ASSUME NEW b \in Branches
      PROVE  /\ taken[b] = (IF results[b] = <<>> THEN 0 ELSE results[b][1].calls)
             /\ taken[b] \in Nat
             /\ f[b] \in Nat
             /\ Sent(b)' = Sent(b)
             /\ f[b] + taken[b] <= Sent(b)
  <2>1. results[b] \in Seq(Result) /\ Len(results[b]) <= 1
    BY <1>2 DEF Typed, ResultsInv, OneResultEach
  <2>2. taken[b] = (IF results[b] = <<>> THEN 0 ELSE results[b][1].calls)
    BY <2>1, CallsInOne
  <2> HIDE DEF taken
  <2>3. taken[b] \in Nat
    BY <2>2, <1>2, ResultCalls, StepsPositive DEF StepsAreNat
  <2>4. f[b] \in Nat /\ Sent(b)' = Sent(b) /\ Sent(b) \in Nat
    BY <1>2, <1>3, SentIsNat DEF Parts, Sent
  <2>5. f[b] + taken[b] <= Sent(b)
    BY <1>1, <1>3, <2>2, <2>4 DEF Accounted, Owes, Charged, Covered
  <2> QED
    BY <2>2, <2>3, <2>4, <2>5
<1>5. taken \in Parts
  <2>1. taken = [b \in Branches |-> taken[b]]
    OBVIOUS
  <2> HIDE DEF taken
  <2> QED
    BY <2>1, <1>4 DEF Parts
<1> HIDE DEF taken
<1>6. PICK h \in Parts : h = [b \in Branches |-> f[b] + taken[b]]
  <2>1. \A b \in Branches : f[b] + taken[b] \in Nat
    BY <1>4
  <2>2. [b \in Branches |-> f[b] + taken[b]] \in Parts
    BY <2>1 DEF Parts
  <2> QED
    BY <2>2
<1>7. \A b \in Branches : h[b] <= Sent(b)'
  BY <1>4, <1>6
<1>8. mem'.spent = TotalOf(h)
  <2>1. TotalOf(h) = TotalOf(f) + TotalOf(taken)
    BY <1>5, <1>6, TotalAdds, GroupAssumption DEF Parts
  <2> QED
    BY <1>1, <1>3, <2>1 DEF Accounted, Charged, Covered
<1>9. \A b \in Branches : Owes(h, b)'
  <2>1. \A b \in Branches : pc[b] \in {"idle", "restore"} => ctx[b].calls = 0
    BY <1>1 DEF Accounted, Owes
  <2> QED
    BY <2>1, <1>3 DEF Owes, Running
<1>10. ASSUME disk' = mem', disk' # disk PROVE mem'.held = {}
  <2>1. ~Halted
    <3>1. \A b \in Branches : results[b] # <<>> => results[b][1] \in ToSet(results[b])
      BY <1>2 DEF Typed, ToSet
    <3> QED
      BY <3>1, <1>3, <1>10 DEF Halted
  <2>2. ASSUME NEW b \in Branches, b \in mem.held PROVE FALSE
    <3>1. future[b] # "none"
      BY <1>1, <1>3, <2>2 DEF Accounted, Owes
    <3>2. results[b] # <<>>
      BY <2>1, <3>1, <1>2, <1>3 DEF ResultsInv, OneResultEach, Halted
    <3> QED
      BY <2>1, <2>2, <3>2, <1>2, <1>3 DEF ResultsInv
  <2>3. mem.held \subseteq Branches
    BY <1>2, SharedFields DEF Typed
  <2> QED
    BY <2>2, <2>3, <1>3
<1>11. Charged(h, mem)'
  BY <1>7, <1>8 DEF Charged
<1>12. Accounted(h)'
  BY <1>9, <1>11 DEF Accounted
<1>13. CASE disk' = disk
  <2>1. \A b \in Branches : Sent(b)' = Sent(b)
    BY <1>4
  <2>2. Covered(g, disk)'
    BY <1>1, <1>13, <2>1 DEF Charged, Covered
  <2> QED
    BY <1>6, <1>12, <2>2 DEF AccountInv
<1>14. CASE disk' = mem' /\ disk' # disk
  <2>1. Covered(h, disk)'
    BY <1>10, <1>11, <1>14 DEF Charged, Covered
  <2> QED
    BY <1>6, <1>12, <2>1 DEF AccountInv
<1> QED
  BY <1>3, <1>13, <1>14

(* Nothing is charged, sent or held to begin with.                         *)
LEMMA InitKeepsAccounts ==
  ASSUME Init
  PROVE  AccountInv
<1> DEFINE none == [b \in Branches |-> 0]
<1>1. none \in Parts /\ \A b \in Branches : none[b] = 0
  BY DEF Parts
<1>2. TotalOf(none) = 0
  <2>1. none \in [Branches -> Nat]
    BY <1>1 DEF Parts
  <2> HIDE DEF none
  <2>2. \A u \in Units(none) : u[1] \in Branches /\ u[2] \in 1..none[u[1]]
    BY <2>1, UnitsAre
  <2>3. Units(none) = {}
    BY <2>2, <1>1
  <2> QED
    BY <2>3, FS_EmptySet DEF TotalOf, Units
<1> HIDE DEF none
<1>3. /\ phase = "ready" /\ mem = NoGroup /\ disk = NoGroup
      /\ NoGroup.spent = 0 /\ NoGroup.held = {}
      /\ \A b \in Branches : ctx[b].calls = 0
  BY DEF Init, NoGroup, Fresh
<1>4. \A b \in Branches : Sent(b) \in Nat
  BY InitIsSafe, SentIsNat DEF GroupInv
<1>5. \A b \in Branches : Owes(none, b)
  BY <1>3 DEF Owes, Running
<1>6. Charged(none, mem)
  BY <1>1, <1>2, <1>3, <1>4 DEF Charged
<1>7. Covered(none, disk)
  BY <1>3, <1>6 DEF Charged, Covered
<1> QED
  BY <1>1, <1>5, <1>6, <1>7 DEF AccountInv, Accounted

LEMMA StepKeepsAccounts ==
  ASSUME GroupInv, AccountInv, [Next]_vars
  PROVE  AccountInv'
<1>1. GroupInv'
  BY StepIsSafe
<1>2. CASE \E b \in Branches : BranchStep(b)
  BY <1>1, <1>2, ThreadKeepsAccounts
<1>3. CASE Coordinate
  <2>1. CASE Drained \/ \E b \in Branches : TakeRaised(b)
    BY <2>1, LeavingKeepsAccounts
  <2>2. CASE Apply
    BY <2>2, <1>1, ApplyKeepsAccounts
  <2>3. CASE \E b \in Branches : TakeResult(b) \/ TakeUnrecovered(b)
    BY <2>3, <1>1, TakingKeepsAccounts
  <2> QED
    BY <1>3, <2>1, <2>2, <2>3 DEF Coordinate
<1>4. CASE Crash
  BY <1>4, CrashKeepsAccounts
<1>5. CASE RestoreFrontier \/ ResumeGroup \/ ExecuteGroup
  BY <1>5, BeginningKeepsAccounts
<1>6. CASE UNCHANGED vars
  <2>1. UNCHANGED <<mem, disk, phase, results, future, ret, pc, ctx, sends>>
    BY <1>6 DEF vars, sharedVars, groupVars, threadVars, sendVars
  <2>2. PICK f \in Parts, g \in Parts : Accounted(f) /\ Covered(g, disk)
    BY DEF AccountInv
  <2>3. \A b \in Branches : Sent(b)' = Sent(b) /\ InHand(b)' = InHand(b)
    BY <2>1 DEF Sent, InHand
  <2>4. \A b \in Branches : Owes(f, b)'
    BY <2>1, <2>2, <2>3 DEF Accounted, Owes, Running
  <2>5. Charged(f, mem)' /\ Covered(g, disk)'
    BY <2>1, <2>2, <2>3 DEF Accounted, Charged, Covered
  <2> QED
    BY <2>2, <2>4, <2>5 DEF AccountInv, Accounted
<1> QED
  BY <1>1, <1>2, <1>3, <1>4, <1>5, <1>6 DEF Next

(* The model's bounds on faults and attempts.                              *)
BoundsInv == faults \in 0..MaxFaults /\ runs \in 0..MaxRuns

LEMMA BoundsHold ==
  ASSUME BoundsInv, [Next]_vars
  PROVE  BoundsInv'
<1>1. /\ faults' = faults \/ (faults < MaxFaults /\ faults' = faults + 1)
      /\ runs' = runs \/ (runs < MaxRuns /\ runs' = runs + 1)
  <2>1. CASE \E b \in Branches : BranchStep(b)
    <3> SUFFICES ASSUME NEW b \in Branches, BranchStep(b)
                 PROVE  /\ faults' = faults \/ (faults < MaxFaults /\ faults' = faults + 1)
                        /\ runs' = runs
      BY <2>1
    <3>1. CASE Complete(b) \/ Cancelled(b) \/ Fail(b)
      BY <3>1 DEF Complete, Cancelled, Fail, Finalize
    <3>2. CASE Launch(b) \/ LaunchBoundary(b) \/ Answer(b) \/ CompletionBoundary(b)
                 \/ CompleteNode(b) \/ Send(b)
      BY <3>2
      DEF Launch, LaunchBoundary, Answer, CompletionBoundary, CompleteNode, Send, boundVars
    <3>3. CASE Restore(b) \/ Begin(b) \/ Clear(b) \/ CloseNodes(b) \/ Emit(b) \/ StartBranch(b)
                 \/ RestoreFails(b)
      BY <3>3
      DEF Restore, Begin, Clear, CloseNodes, Emit, StartBranch, RestoreFails, Unless, boundVars
    <3> QED
      BY <3>1, <3>2, <3>3 DEF BranchStep
  <2>2. CASE Coordinate
    BY <2>2
    DEF Coordinate, Drained, Apply, TakeResult, TakeUnrecovered, TakeRaised, Took, boundVars
  <2>3. CASE Crash
    BY <2>3 DEF Crash
  <2>4. CASE RestoreFrontier \/ ResumeGroup \/ ExecuteGroup
    BY <2>4 DEF RestoreFrontier, ResumeGroup, ExecuteGroup, Attempt
  <2>5. CASE UNCHANGED vars
    BY <2>5 DEF vars, boundVars
  <2> QED
    BY <2>1, <2>2, <2>3, <2>4, <2>5 DEF Next
<1> QED
  BY <1>1, GroupAssumption DEF BoundsInv

-----------------------------------------------------------------------------
(* The theorems.                                                           *)

(* The parts of the group, its threads and its checkpoints always agree in *)
(* the way the sections above spell out (branches/parallel.py, resume.py). *)
THEOREM GroupInvariant == Spec => []GroupInv
<1>1. Init => GroupInv
  BY InitIsSafe
<1>2. GroupInv /\ [Next]_vars => GroupInv'
  BY StepIsSafe
<1> QED
  BY <1>1, <1>2, PTL DEF Spec

(* What was charged, what is still held and what was sent agree throughout *)
(* (branches/accounting.py, checkpointing/).                               *)
THEOREM AccountInvariant == Spec => [](GroupInv /\ AccountInv)
<1>1. Init => GroupInv /\ AccountInv
  BY InitIsSafe, InitKeepsAccounts
<1>2. GroupInv /\ AccountInv /\ [Next]_vars => (GroupInv /\ AccountInv)'
  BY StepKeepsAccounts, StepIsSafe
<1> QED
  BY <1>1, <1>2, PTL DEF Spec

(* However many branches there are, and in whatever order they end, fail   *)
(* and are cancelled, none contributes two results to the group and none   *)
(* that was submitted is missing when the results are applied              *)
(* (branches/parallel.py).                                                 *)
THEOREM OneResultHolds == Spec => []OneResultEach
<1>1. GroupInv => OneResultEach
  BY DEF GroupInv, ResultsInv
<1> QED
  BY <1>1, GroupInvariant, PTL

(* Each branch's charged part is within what it sent, so the sum is.       *)
LEMMA AccountsAreCharged ==
  ASSUME GroupInv, AccountInv
  PROVE  mem.spent \in Nat /\ disk.spent \in Nat /\ ChargedOnce
<1>1. PICK f \in Parts, g \in Parts : Charged(f, mem) /\ Charged(g, disk)
  BY DEF AccountInv, Accounted, Covered
<1> DEFINE sent == [b \in Branches |-> Sent(b)]
<1>2. sent \in Parts /\ \A b \in Branches : f[b] <= sent[b]
  BY <1>1, SentIsNat DEF GroupInv, Parts, Charged
<1>3. TotalOf(sent) = TotalSends
  BY DEF TotalSends, Sent
<1> HIDE DEF sent
<1>4. TotalOf(f) \in Nat /\ TotalOf(g) \in Nat
  BY TotalIsNat, GroupAssumption DEF Parts
<1>5. TotalOf(f) <= TotalOf(sent)
  BY <1>2, TotalGrows, GroupAssumption DEF Parts
<1> QED
  BY <1>1, <1>3, <1>4, <1>5 DEF Charged, ChargedOnce

(* After the cancellation event is set a branch hands over at most the one *)
(* request it had already cleared; until a branch fails the checkpoint a   *)
(* kill would leave knows of every request in flight; and across kills,    *)
(* resumptions and relaunches the run's budget is never charged more calls *)
(* than went out (runtime/api/context.py, kernel/checkpointing/,           *)
(* branches/resume.py, accounting.py).                                     *)
THEOREM SendsHold == Spec => []SendsAreAccounted
<1>1. GroupInv /\ AccountInv => SendsAreAccounted
  <2>1. GroupInv => AtMostOneLateSend
    BY DEF GroupInv, LateInv, AtMostOneLateSend
  <2>2. GroupInv => SentIsRecorded
    BY DEF GroupInv, ThreadInv, NodePc, SentIsRecorded, NoFailure
  <2> QED
    BY <2>1, <2>2, AccountsAreCharged DEF SendsAreAccounted
<1> QED
  BY <1>1, AccountInvariant, PTL

(* A resumption starts from a checkpoint without failed branches, with the *)
(* snapshot of every running one, that claims no request that never went   *)
(* out; and a request goes out again only after a failed branch or a       *)
(* relaunch of the whole group (branches/resume.py).                       *)
THEOREM ResumeHolds == Spec => []ResumeIsSound
<1>1. GroupInv => ReissueHasCause
  <2> SUFFICES ASSUME GroupInv, NEW b \in Branches, NEW i \in 1..Steps, sends[b][i] > 1
      PROVE  cause # {}
    BY DEF ReissueHasCause
  <2>1. sends[b][i] \in Nat
    BY DEF GroupInv, Typed
  <2> QED
    BY <2>1 DEF GroupInv, CauseInv
<1>2. GroupInv => ResumePointIsSound
  <2> SUFFICES ASSUME GroupInv, NEW b \in Branches
      PROVE  /\ disk.status[b] # "failed"
             /\ disk.status[b] = "running" => b \in disk.held
             /\ \A i \in 1..disk.snap[b].done : sends[b][i] > 0
    BY DEF ResumePointIsSound
  <2>1. disk.snap[b].done \in 0..Steps
    BY DEF GroupInv, Typed, SharedFor, Progress
  <2> QED
    BY <2>1, StepsPositive DEF StepsAreNat, GroupInv, SharedInv, SentInv
<1> QED
  BY <1>1, <1>2, GroupInvariant, PTL DEF ResumeIsSound

(* Every variable keeps its type, the budget's sum among them.             *)
THEOREM TypeCorrect == Spec => []TypeOK
<1>1. Init => BoundsInv
  BY GroupAssumption DEF Init, BoundsInv
<1>2. BoundsInv /\ [Next]_vars => BoundsInv'
  BY BoundsHold
<1>3. GroupInv /\ AccountInv /\ BoundsInv => TypeOK
  <2> SUFFICES ASSUME GroupInv, AccountInv, BoundsInv PROVE TypeOK
    OBVIOUS
  <2>1. {mem, disk} \subseteq Shared
    BY AccountsAreCharged DEF GroupInv, Typed, SharedFor, Shared
  <2> QED
    BY <2>1 DEF GroupInv, Typed, BoundsInv, TypeOK, Pcs, NodePc
<1> QED
  BY <1>1, <1>2, <1>3, AccountInvariant, PTL DEF Spec
=============================================================================
