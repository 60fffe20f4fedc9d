---------------------- MODULE FactoryTransactionProofs ----------------------
(***************************************************************************)
(* Proofs that the factory's transaction store holds one linear history,   *)
(* for any number of processes, releases, messages, exceptions, kills and  *)
(* interrupted recoveries, and that it implements an append-only log.      *)
(***************************************************************************)
EXTENDS FactoryTransaction, FiniteSetTheorems, WellFoundedInduction,
        SequenceTheorems, TLAPS

(* The transactions whose prepare file stands without a commit intent.     *)
Prepared == {m \in Message : m \in prepares \/ <<"prepare", m>> \in torn}
Uncommitted == Prepared \ intents

(* What the calls carry: the parent a caller read, and the release it asks *)
(* to publish, without an index until the head is checked.                 *)
CallsOK ==
  /\ parent \in [Procs -> Message \cup {None}]
  /\ msg \in [Procs -> [index : {-1} \cup Nat, release : Releases \cup {NoRelease}]]
  /\ \A p \in Procs :
       /\ pc[p] \in {"materialize", "place"} => op[p] = "publish"
       /\ op[p] = "publish" => msg[p].release \in Releases

(* What the disk holds whoever writes or died writing: the intents are a   *)
(* chain, what is prepared beyond them would be its next entry, only the   *)
(* newest of them may still be hidden, and what a reader can follow is     *)
(* committed.                                                              *)
LogInv ==
  /\ IsFiniteSet(intents) /\ ChainIsLinear
  /\ intents \subseteq prepares
  /\ \A m \in Uncommitted : m.index = Cardinality(intents)
  /\ \A m \in prepares : <<"prepare", m>> \notin torn
  /\ messages \subseteq intents
  /\ \A m \in intents \ messages : \A n \in intents : n.index <= m.index
  /\ committed \subseteq messages /\ acked \subseteq committed
  /\ pointer \in intents \cup {None} /\ chat \in messages \cup {None}

Committing == {"pointer", "message", "chat", "marker"}
Preparing == {"open_prepare", "write_prepare", "stage", "open_intent", "write_intent"}

(* The committed messages that the lock holder need not replay any more.   *)
Carried == intents \ todo

(* Between two transactions readers are shown exactly what is carried.     *)
Settled ==
  /\ Carried \subseteq messages
  /\ Carried # {} =>
       /\ pointer = chat /\ chat \in Carried
       /\ \A m \in Carried : m.index <= chat.index

(* The lock holder while it replays the log: what it has carried is older  *)
(* than what is left, and when nothing is left nothing is uncommitted.     *)
Replays(p) ==
  /\ todo \subseteq Prepared
  /\ \A m \in Carried, t \in todo : m.index < t.index
  /\ pc[p] \notin Preparing => Uncommitted \subseteq todo
  /\ pc[p] = "unlink" => todo # {} /\ Oldest(todo) \in prepares \ intents
  /\ pc[p] \in Preparing \cup {"check", "unlock"} => todo = {}
  /\ pc[p] \notin Committing => Settled

(* The lock holder in the four writes that follow an intent.               *)
Commits(p) ==
  pc[p] \in Committing =>
    /\ Current(p) \in intents
    /\ \A m \in Carried \ {Current(p)} : m \in messages /\ m.index < Current(p).index
    /\ pc[p] # "pointer" => pointer = Current(p)
    /\ pc[p] \in {"chat", "marker"} => Current(p) \in messages
    /\ pc[p] = "marker" => chat = Current(p)

(* The lock holder on its own behalf: its message comes next after the     *)
(* parent its caller named, and nothing else is being prepared.            *)
Publishes(p) ==
  /\ pc[p] \in Preparing \cup {"check"} => op[p] = "publish"
  /\ pc[p] \in Committing /\ todo = {} => op[p] = "publish"
  /\ pc[p] \in Preparing =>
       /\ msg[p] \in Message /\ msg[p].index = Cardinality(intents)
       /\ Uncommitted \subseteq {msg[p]}
       /\ pc[p] = "open_prepare" => Uncommitted = {}
       /\ pc[p] \in {"stage", "open_intent", "write_intent"} => msg[p] \in prepares
  /\ pc[p] = "unlock" /\ op[p] = "publish" =>
       /\ msg[p] \in committed
       /\ \A m \in intents : m.index <= msg[p].index
  /\ op[p] = "publish" /\ todo = {} /\ pc[p] \notin {"recover", "unlink", "check"} =>
       /\ msg[p].index = parent[p].index + 1
       /\ parent[p] \in intents \cup {None}

Holds(p) == Replays(p) /\ Commits(p) /\ Publishes(p)

StoreInv ==
  /\ TypeOK /\ CallsOK /\ LogInv
  /\ lock \notin Procs => todo = {}
  /\ \A p \in Procs : lock = p => Holds(p)

-----------------------------------------------------------------------------
(* The replay order is well defined: a set of messages has an oldest one.  *)
LEMMA OldestExists ==
  ASSUME NEW S \in SUBSET Message, S # {}
  PROVE  Oldest(S) \in S /\ \A n \in S : Oldest(S).index <= n.index
<1> DEFINE indices == {m.index : m \in S}
<1>1. indices \subseteq Nat /\ indices # {}
  BY DEF Message
<1>2. PICK i \in indices : \A j \in indices : <<j, i>> \notin OpToRel(<, Nat)
  BY <1>1, WFMin, NatLessThanWellFounded, Zenon
<1>3. \A j \in indices : ~ (j < i)
  BY <1>1, <1>2, Zenon DEF OpToRel
<1>4. PICK m \in S : m.index = i
  BY <1>2
<1>5. \A n \in S : m.index <= n.index
  BY <1>1, <1>3, <1>4
<1> QED
  BY <1>5 DEF Oldest

(* A set of messages whose indices are 0, 1, ... without a gap or a double, *)
(* with the next one added, is such a set again.                            *)
Linear(S) ==
  /\ \A m, n \in S : m.index = n.index => m = n
  /\ {m.index : m \in S} = 0 .. Cardinality(S) - 1

LEMMA LinearGrows ==
  ASSUME NEW S \in SUBSET Message, IsFiniteSet(S), Linear(S),
         NEW m \in Message, m.index = Cardinality(S)
  PROVE  /\ IsFiniteSet(S \cup {m}) /\ Linear(S \cup {m})
         /\ Cardinality(S \cup {m}) = Cardinality(S) + 1
         /\ m \notin S /\ \A n \in S : n.index < m.index
<1>1. Cardinality(S) \in Nat
  BY FS_CardinalityType
<1>2. \A n \in S : n.index \in 0 .. Cardinality(S) - 1
  BY DEF Linear
<1>3. \A n \in S : n.index < m.index
  BY <1>1, <1>2
<1>4. m \notin S
  BY <1>1, <1>3 DEF Message
<1>5. IsFiniteSet(S \cup {m}) /\ Cardinality(S \cup {m}) = Cardinality(S) + 1
  BY <1>4, FS_AddElement
<1>6. {n.index : n \in S \cup {m}} = {n.index : n \in S} \cup {m.index}
  OBVIOUS
<1>7. {n.index : n \in S \cup {m}} = 0 .. Cardinality(S \cup {m}) - 1
  BY <1>1, <1>5, <1>6 DEF Linear
<1>8. \A k, n \in S \cup {m} : k.index = n.index => k = n
  BY <1>1, <1>3 DEF Linear, Message
<1> QED
  BY <1>3, <1>4, <1>5, <1>7, <1>8 DEF Linear

(* The newest message of such a set carries the last index.                *)
LEMMA LinearNewest ==
  ASSUME NEW S \in SUBSET Message, IsFiniteSet(S), Linear(S),
         NEW m \in S, \A n \in S : n.index <= m.index
  PROVE  m.index = Cardinality(S) - 1
<1>1. Cardinality(S) \in Nat /\ Cardinality(S) # 0
  BY FS_CardinalityType, FS_EmptySet
<1>2. Cardinality(S) - 1 \in {n.index : n \in S}
  BY <1>1 DEF Linear
<1>3. PICK n \in S : n.index = Cardinality(S) - 1
  BY <1>2
<1>4. m.index \in 0 .. Cardinality(S) - 1
  BY DEF Linear
<1> QED
  BY <1>1, <1>3, <1>4 DEF Message
-----------------------------------------------------------------------------
(* What the type invariant and the log invariant say in a usable form.     *)
LEMMA Facts ==
  ASSUME StoreInv
  PROVE  /\ intents \subseteq Message /\ prepares \subseteq Message
         /\ messages \subseteq Message /\ todo \subseteq Message
         /\ IsFiniteSet(intents) /\ Linear(intents)
         /\ Cardinality(intents) \in Nat
         /\ \A m \in intents : m.index \in Nat /\ m.index < Cardinality(intents)
         /\ \A p \in Procs : lock = p => Holds(p)
         /\ "free" \notin Procs /\ "orphan" \notin Procs
<1>1. /\ intents \subseteq Message /\ prepares \subseteq Message
      /\ messages \subseteq Message /\ todo \subseteq Message
  BY DEF StoreInv, TypeOK
<1>2. IsFiniteSet(intents) /\ Linear(intents)
  BY DEF StoreInv, LogInv, ChainIsLinear, Linear
<1>3. Cardinality(intents) \in Nat
  BY <1>2, FS_CardinalityType
<1>4. \A m \in intents : m.index \in 0 .. Cardinality(intents) - 1
  BY <1>2 DEF Linear
<1>5. \A m \in intents : m.index \in Nat /\ m.index < Cardinality(intents)
  BY <1>3, <1>4
<1>6. "free" \notin Procs /\ "orphan" \notin Procs
  BY FactoryAssumption
<1> QED
  BY <1>1, <1>2, <1>3, <1>5, <1>6 DEF StoreInv

LogFiles == <<pointer, chat, messages, prepares, intents, committed, torn>>

(* A step that leaves the log's files alone keeps what is said of them,    *)
LEMMA LogUnchanged ==
  ASSUME LogInv, UNCHANGED LogFiles, acked' \subseteq committed
  PROVE  LogInv'
BY DEF LogInv, LogFiles, ChainIsLinear, Uncommitted, Prepared

(* and what is said of a lock holder that does not move.                   *)
LEMMA HoldsUnchanged ==
  ASSUME NEW p, Holds(p), UNCHANGED LogFiles, todo' = todo,
         UNCHANGED <<pc[p], op[p], parent[p], msg[p]>>
  PROVE  Holds(p)'
<1> USE DEF LogFiles
<1>1. Carried' = Carried /\ Uncommitted' = Uncommitted /\ Prepared' = Prepared
  BY DEF Carried, Uncommitted, Prepared
<1>2. Current(p)' = Current(p) /\ (Oldest(todo))' = Oldest(todo)
  BY DEF Current, Replaying, Oldest
<1>3. Settled' = Settled
  BY <1>1 DEF Settled
<1>4. Replays(p)'
  BY <1>1, <1>2, <1>3 DEF Holds, Replays
<1>5. Commits(p)'
  BY <1>1, <1>2 DEF Holds, Commits
<1>6. Publishes(p)'
  BY <1>1 DEF Holds, Publishes
<1> QED
  BY <1>4, <1>5, <1>6 DEF Holds

(* A step of a process without the lock is no concern of the holder's.     *)
LEMMA Outside ==
  ASSUME StoreInv, NEW p \in Procs, lock # p,
         UNCHANGED LogFiles, UNCHANGED <<lock, todo, acked>>,
         \A q \in Procs \ {p} : UNCHANGED <<pc[q], op[q], parent[q], msg[q]>>,
         TypeOK', CallsOK'
  PROVE  StoreInv'
<1>1. LogInv'
  BY LogUnchanged DEF StoreInv, LogInv
<1>2. ASSUME NEW q \in Procs, lock' = q PROVE Holds(q)'
  <2>1. lock = q /\ q # p
    BY <1>2
  <2>2. Holds(q)
    BY <2>1 DEF StoreInv
  <2> QED
    BY <2>1, <2>2, HoldsUnchanged
<1> QED
  BY <1>1, <1>2 DEF StoreInv

(* A step of the holder keeps the lock and its promises, or gives it up.   *)
LEMMA Inside ==
  ASSUME TypeOK', CallsOK', LogInv', NEW p \in Procs,
         \/ lock' = p /\ Holds(p)'
         \/ lock' \notin Procs /\ todo' = {}
  PROVE  StoreInv'
BY DEF StoreInv
-----------------------------------------------------------------------------
(* A new store, without a file and with nobody at work.                    *)
LEMMA InitEstablishes == Init => StoreInv
<1> SUFFICES ASSUME Init PROVE StoreInv
  OBVIOUS
<1> USE DEF Init
<1>1. TypeOK
  BY FactoryAssumption DEF TypeOK, PCs, Unlocked
<1>2. CallsOK
  BY DEF CallsOK, None
<1>3. LogInv
  <2>1. IsFiniteSet(intents) /\ Cardinality(intents) = 0
    BY FS_EmptySet
  <2>2. ChainIsLinear
    BY <2>1 DEF ChainIsLinear
  <2> QED
    BY <2>1, <2>2 DEF LogInv, Uncommitted, Prepared
<1>4. lock \notin Procs
  BY FactoryAssumption
<1> QED
  BY <1>1, <1>2, <1>3, <1>4 DEF StoreInv

(* The steps of processes that do not hold the lock.                       *)
LEMMA CallPublishStep ==
  ASSUME StoreInv, NEW p \in Procs, CallPublish(p)
  PROVE  StoreInv'
<1> USE DEF CallPublish, At, Go, disk
<1>1. lock # p
  BY DEF StoreInv, TypeOK, Unlocked
<1>2. TypeOK'
  BY <1>1 DEF StoreInv, TypeOK, PCs, Unlocked
<1>3. CallsOK'
  BY DEF StoreInv, TypeOK, CallsOK
<1> QED
  BY <1>1, <1>2, <1>3, Outside DEF LogFiles, StoreInv, TypeOK, CallsOK

LEMMA CallRecoverStep ==
  ASSUME StoreInv, NEW p \in Procs, CallRecover(p)
  PROVE  StoreInv'
<1> USE DEF CallRecover, At, Go, disk
<1>1. lock # p
  BY DEF StoreInv, TypeOK, Unlocked
<1>2. TypeOK'
  BY <1>1 DEF StoreInv, TypeOK, PCs, Unlocked
<1>3. CallsOK'
  BY DEF StoreInv, TypeOK, CallsOK
<1> QED
  BY <1>1, <1>2, <1>3, Outside DEF LogFiles, StoreInv, TypeOK, CallsOK

LEMMA BuildStep ==
  ASSUME StoreInv, NEW p \in Procs, Materialize(p) \/ Place(p) \/ RefuseBusy(p)
  PROVE  StoreInv'
<1> USE DEF At, Go, disk
<1>1. lock # p
  BY DEF Materialize, Place, RefuseBusy, StoreInv, TypeOK, Unlocked
<1>2. TypeOK'
  <2>1. CASE Materialize(p)
    BY <1>1, <2>1 DEF Materialize, StoreInv, TypeOK, PCs, Unlocked
  <2>2. CASE Place(p)
    <3>1. msg[p].release \in Releases
      BY <2>2 DEF Place, StoreInv, CallsOK
    <3> QED
      BY <1>1, <2>2, <3>1 DEF Place, StoreInv, TypeOK, PCs, Unlocked
  <2>3. CASE RefuseBusy(p)
    BY <1>1, <2>3 DEF RefuseBusy, StoreInv, TypeOK, PCs, Unlocked
  <2> QED
    BY <2>1, <2>2, <2>3
<1>3. CallsOK'
  BY DEF Materialize, Place, RefuseBusy, StoreInv, TypeOK, CallsOK
<1>4. /\ UNCHANGED LogFiles /\ UNCHANGED <<lock, todo, acked, op, parent, msg>>
      /\ \A q \in Procs \ {p} : pc'[q] = pc[q]
  BY DEF Materialize, Place, RefuseBusy, LogFiles, StoreInv, TypeOK
<1> QED
  BY <1>1, <1>2, <1>3, <1>4, Outside

(* Taking the lock lists the whole log for replay.                         *)
LEMMA AcquireLockStep ==
  ASSUME StoreInv, NEW p \in Procs, AcquireLock(p)
  PROVE  StoreInv'
<1> USE DEF AcquireLock, At, Go, disk
<1>1. todo' = Prepared
  BY DEF StoreInv, TypeOK, Prepared
<1>2. TypeOK'
  BY <1>1, FactoryAssumption DEF StoreInv, TypeOK, PCs, Unlocked, Prepared
<1>3. CallsOK'
  BY DEF StoreInv, TypeOK, CallsOK
<1>4. LogInv'
  BY LogUnchanged DEF StoreInv, LogInv, LogFiles
<1>5. Carried' = {}
  BY <1>1, Facts DEF Carried, Prepared, StoreInv, LogInv
<1>6. Prepared' = Prepared /\ Uncommitted' = Uncommitted /\ pc'[p] = "recover"
  BY DEF Prepared, Uncommitted, StoreInv, TypeOK
<1>7. Replays(p)'
  BY <1>1, <1>5, <1>6 DEF Replays, Settled, Uncommitted, Committing, Preparing
<1>8. Commits(p)' /\ Publishes(p)'
  BY <1>6 DEF Commits, Publishes, Committing, Preparing
<1> QED
  BY <1>2, <1>3, <1>4, <1>7, <1>8, Inside DEF Holds
-----------------------------------------------------------------------------
(* The replay of the log.  A prepare without an intent is undone,          *)
LEMMA ReplayUnstageStep ==
  ASSUME StoreInv, NEW p \in Procs, ReplayUnstage(p)
  PROVE  StoreInv'
<1> USE DEF ReplayUnstage, At, Go
<1>1. lock = p /\ lock' = p /\ pc'[p] = "unlink" /\ todo' = todo
  BY DEF StoreInv, TypeOK, Unlocked
<1>2. TypeOK'
  BY <1>1 DEF StoreInv, TypeOK, PCs, Unlocked
<1>3. CallsOK'
  BY DEF StoreInv, TypeOK, CallsOK
<1>4. LogInv'
  BY LogUnchanged DEF StoreInv, LogInv, LogFiles
<1>5. Oldest(todo) \in prepares \ intents
  BY DEF HasIntentFile
<1>6. Holds(p)
  BY <1>1 DEF StoreInv
<1>7. /\ Prepared' = Prepared /\ Uncommitted' = Uncommitted /\ Carried' = Carried
      /\ Oldest(todo)' = Oldest(todo)
  BY DEF Prepared, Uncommitted, Carried, Oldest
<1>8. Replays(p)'
  BY <1>1, <1>5, <1>6, <1>7 DEF Holds, Replays, Settled, Committing, Preparing
<1>9. Commits(p)' /\ Publishes(p)'
  BY <1>1 DEF Commits, Publishes, Committing, Preparing
<1> QED
  BY <1>1, <1>2, <1>3, <1>4, <1>8, <1>9, Inside DEF Holds

LEMMA ReplayUnlinkStep ==
  ASSUME StoreInv, NEW p \in Procs, ReplayUnlink(p)
  PROVE  StoreInv'
<1> DEFINE m == Oldest(todo)
<1>1. /\ pc[p] = "unlink" /\ prepares' = prepares \ {m} /\ todo' = todo \ {m}
      /\ UNCHANGED <<generations, pointer, chat, messages, intents, committed, torn, staged,
                     lock, op, parent, msg, acked, faults>>
      /\ pc' = [pc EXCEPT ![p] = "recover"]
  BY DEF ReplayUnlink, At, Go
<1>2. lock = p /\ lock' = p /\ pc'[p] = "recover"
  BY <1>1 DEF StoreInv, TypeOK, Unlocked
<1>3. Holds(p)
  BY <1>2 DEF StoreInv
<1>4. m \in prepares \ intents /\ <<"prepare", m>> \notin torn
  BY <1>1, <1>3 DEF Holds, Replays, StoreInv, LogInv
<1> HIDE DEF m
<1>5. TypeOK'
  BY <1>1, <1>2 DEF StoreInv, TypeOK, PCs, Unlocked
<1>6. CallsOK'
  BY <1>1 DEF StoreInv, TypeOK, CallsOK
<1>7. Prepared' = Prepared \ {m} /\ Uncommitted' = Uncommitted \ {m} /\ Carried' = Carried
  BY <1>1, <1>4 DEF Prepared, Uncommitted, Carried
<1>8. LogInv'
  BY <1>1, <1>4, <1>7 DEF StoreInv, LogInv, ChainIsLinear
<1>9. Replays(p)'
  BY <1>1, <1>2, <1>3, <1>7 DEF Holds, Replays, Settled, Committing, Preparing
<1>10. Commits(p)' /\ Publishes(p)'
  BY <1>2 DEF Commits, Publishes, Committing, Preparing
<1> QED
  BY <1>2, <1>5, <1>6, <1>8, <1>9, <1>10, Inside DEF Holds

(* one with an intent is carried out again,                                *)
LEMMA ReplayRedoStep ==
  ASSUME StoreInv, NEW p \in Procs, ReplayRedo(p)
  PROVE  StoreInv'
<1> USE DEF ReplayRedo, At, Go, disk
<1>1. lock = p /\ lock' = p /\ pc'[p] = "pointer" /\ todo' = todo
  BY DEF StoreInv, TypeOK, Unlocked
<1>2. TypeOK'
  BY <1>1 DEF StoreInv, TypeOK, PCs, Unlocked
<1>3. CallsOK'
  BY DEF StoreInv, TypeOK, CallsOK
<1>4. LogInv'
  BY LogUnchanged DEF StoreInv, LogInv, LogFiles
<1>5. Holds(p)
  BY <1>1 DEF StoreInv
<1>6. Oldest(todo) \in todo
  BY Facts, OldestExists
<1>7. /\ Prepared' = Prepared /\ Uncommitted' = Uncommitted /\ Carried' = Carried
      /\ Current(p)' = Oldest(todo)
  BY DEF Prepared, Uncommitted, Carried, Current, Replaying, Oldest
<1>8. Replays(p)'
  BY <1>1, <1>5, <1>7 DEF Holds, Replays, Settled, Committing, Preparing
<1>9. Commits(p)'
  BY <1>1, <1>5, <1>6, <1>7 DEF Holds, Replays, Settled, Commits, Committing
<1>10. Publishes(p)'
  BY <1>1 DEF Publishes, Committing, Preparing
<1> QED
  BY <1>1, <1>2, <1>3, <1>4, <1>8, <1>9, <1>10, Inside DEF Holds

(* a torn file ends the recovery with an error,                            *)
LEMMA ReplayTornStep ==
  ASSUME StoreInv, NEW p \in Procs, ReplayTorn(p)
  PROVE  StoreInv'
<1> USE DEF ReplayTorn, At, Go, disk
<1>1. lock = p
  BY DEF StoreInv, TypeOK, Unlocked
<1>2. TypeOK'
  BY <1>1, FactoryAssumption DEF StoreInv, TypeOK, PCs, Unlocked
<1>3. CallsOK'
  BY DEF StoreInv, TypeOK, CallsOK
<1>4. LogInv'
  BY LogUnchanged DEF StoreInv, LogInv, LogFiles
<1>5. lock' \notin Procs /\ todo' = {}
  BY FactoryAssumption
<1> QED
  BY <1>2, <1>3, <1>4, <1>5, Inside

(* and with the whole log replayed the holder goes on to what it came for. *)
LEMMA ReplayDoneStep ==
  ASSUME StoreInv, NEW p \in Procs, ReplayDone(p)
  PROVE  StoreInv'
<1> USE DEF ReplayDone, At, Go, disk
<1>1. /\ lock = p /\ lock' = p /\ todo = {} /\ todo' = todo
      /\ pc'[p] = IF op[p] = "publish" THEN "check" ELSE "unlock"
      /\ op'[p] = op[p]
  BY DEF StoreInv, TypeOK, Unlocked
<1>2. TypeOK'
  BY <1>1 DEF StoreInv, TypeOK, PCs, Unlocked
<1>3. CallsOK'
  BY DEF StoreInv, TypeOK, CallsOK
<1>4. LogInv'
  BY LogUnchanged DEF StoreInv, LogInv, LogFiles
<1>5. Holds(p) /\ pc[p] = "recover"
  BY <1>1 DEF StoreInv
<1>6. Prepared' = Prepared /\ Uncommitted' = Uncommitted /\ Carried' = Carried
  BY DEF Prepared, Uncommitted, Carried
<1>7. Replays(p)'
  BY <1>1, <1>5, <1>6 DEF Holds, Replays, Settled, Committing, Preparing
<1>8. Commits(p)' /\ Publishes(p)'
  BY <1>1 DEF Commits, Publishes, Committing, Preparing
<1> QED
  BY <1>1, <1>2, <1>3, <1>4, <1>7, <1>8, Inside DEF Holds
-----------------------------------------------------------------------------
(* The publication.  A message that passes the head check is the next one  *)
(* of the chain.                                                           *)
LEMMA CheckHeadStep ==
  ASSUME StoreInv, NEW p \in Procs, CheckHead(p)
  PROVE  StoreInv'
<1> USE DEF At, Go, disk
<1>1. /\ pc[p] = "check" /\ HeadMatches(p) /\ pc' = [pc EXCEPT ![p] = "open_prepare"]
      /\ msg' = [msg EXCEPT ![p].index = chat.index + 1]
      /\ UNCHANGED <<disk, lock, op, parent, todo, acked, faults>>
  BY DEF CheckHead
<1>2. lock = p /\ lock' = p /\ pc'[p] = "open_prepare"
  BY <1>1 DEF StoreInv, TypeOK, Unlocked
<1>3. Holds(p) /\ todo = {} /\ todo' = {} /\ op[p] = "publish" /\ op'[p] = "publish"
  BY <1>1, <1>2 DEF StoreInv, Holds, Replays, Publishes
<1>4. Settled /\ Carried = intents /\ Uncommitted = {}
  BY <1>1, <1>3 DEF Holds, Replays, Carried, Committing, Preparing
<1>5. chat.index + 1 = Cardinality(intents)
  <2>1. CASE intents = {}
    <3>1. Cardinality(intents) = 0
      BY <2>1, FS_EmptySet
    <3>2. chat = None
      BY <2>1 DEF StoreInv, LogInv
    <3> QED
      BY <3>1, <3>2 DEF None
  <2>2. CASE intents # {}
    <3>1. chat \in intents /\ \A m \in intents : m.index <= chat.index
      BY <2>2, <1>4 DEF Settled
    <3>2. chat.index = Cardinality(intents) - 1
      BY <3>1, Facts, LinearNewest
    <3> QED
      BY <3>2, Facts
  <2> QED
    BY <2>1, <2>2
<1>6. msg'[p] = [index |-> Cardinality(intents), release |-> msg[p].release]
  BY <1>1, <1>5 DEF StoreInv, CallsOK
<1>7. msg'[p] \in Message /\ msg'[p].index = Cardinality(intents)
  BY <1>3, <1>6, Facts DEF StoreInv, CallsOK, Message
<1>8. parent'[p] = chat /\ chat \in intents \cup {None}
  BY <1>1 DEF HeadMatches, StoreInv, LogInv
<1>9. TypeOK'
  BY <1>1, <1>2 DEF StoreInv, TypeOK, PCs, Unlocked
<1>10. CallsOK'
  <2>1. msg'[p] \in [index : {-1} \cup Nat, release : Releases \cup {NoRelease}]
    BY <1>7 DEF Message
  <2>2. msg' \in [Procs -> [index : {-1} \cup Nat, release : Releases \cup {NoRelease}]]
    BY <1>1, <2>1 DEF StoreInv, CallsOK
  <2> QED
    BY <1>1, <1>2, <1>7, <2>2 DEF StoreInv, TypeOK, CallsOK, Message
<1>11. LogInv'
  BY <1>1, LogUnchanged DEF StoreInv, LogInv, LogFiles
<1>12. Prepared' = Prepared /\ Uncommitted' = Uncommitted /\ Carried' = Carried
  BY <1>1 DEF Prepared, Uncommitted, Carried
<1>13. Replays(p)'
  BY <1>1, <1>2, <1>3, <1>4, <1>12 DEF Replays, Settled, Committing, Preparing
<1>14. Commits(p)'
  BY <1>2 DEF Commits, Committing
<1>15. Publishes(p)'
  BY <1>1, <1>2, <1>3, <1>4, <1>5, <1>7, <1>8, <1>12 DEF Publishes, Committing, Preparing
<1> QED
  BY <1>2, <1>9, <1>10, <1>11, <1>13, <1>14, <1>15, Inside DEF Holds

LEMMA RefuseStaleStep ==
  ASSUME StoreInv, NEW p \in Procs, RefuseStale(p)
  PROVE  StoreInv'
<1> USE DEF RefuseStale, At, Go, disk
<1>1. lock = p
  BY DEF StoreInv, TypeOK, Unlocked
<1>2. TypeOK'
  BY <1>1, FactoryAssumption DEF StoreInv, TypeOK, PCs, Unlocked
<1>3. CallsOK'
  BY DEF StoreInv, TypeOK, CallsOK
<1>4. LogInv'
  BY LogUnchanged DEF StoreInv, LogInv, LogFiles
<1>5. lock' \notin Procs /\ todo' = {}
  BY <1>1, FactoryAssumption DEF StoreInv, Holds, Replays
<1> QED
  BY <1>2, <1>3, <1>4, <1>5, Inside

(* What the five writes before and with the intent have in common.         *)
LEMMA WhilePreparing ==
  ASSUME StoreInv, NEW p \in Procs, pc[p] \in Preparing
  PROVE  /\ lock = p /\ todo = {} /\ op[p] = "publish"
         /\ msg[p] \in Message /\ msg[p].index = Cardinality(intents)
         /\ msg[p] \notin intents /\ Uncommitted \subseteq {msg[p]}
         /\ Settled /\ Carried = intents
         /\ msg[p].index = parent[p].index + 1 /\ parent[p] \in intents \cup {None}
<1>1. lock = p
  BY DEF StoreInv, TypeOK, Unlocked, Preparing
<1>2. Replays(p) /\ Publishes(p)
  BY <1>1 DEF StoreInv, Holds
<1>3. todo = {} /\ op[p] = "publish" /\ Settled /\ Carried = intents
  BY <1>2 DEF Replays, Publishes, Committing, Preparing, Carried
<1>4. msg[p] \in Message /\ msg[p].index = Cardinality(intents)
  BY <1>2 DEF Publishes
<1>5. msg[p] \notin intents
  BY <1>4, Facts
<1> QED
  BY <1>1, <1>2, <1>3, <1>4, <1>5 DEF Publishes, Preparing

LEMMA OpenPrepareStep ==
  ASSUME StoreInv, NEW p \in Procs, OpenPrepare(p)
  PROVE  StoreInv'
<1>1. /\ pc[p] = "open_prepare" /\ torn' = torn \cup {<<"prepare", msg[p]>>}
      /\ pc' = [pc EXCEPT ![p] = "write_prepare"]
      /\ UNCHANGED <<generations, pointer, chat, messages, prepares, intents, committed,
                     staged, lock, op, parent, msg, todo, acked, faults>>
  BY DEF OpenPrepare, At, Go
<1>2. pc[p] \in Preparing
  BY <1>1 DEF Preparing
<1>3. /\ lock = p /\ lock' = p /\ pc'[p] = "write_prepare"
  BY <1>1, <1>2, WhilePreparing DEF StoreInv, TypeOK
<1>4. Uncommitted = {}
  BY <1>1, <1>3 DEF StoreInv, Holds, Publishes, Preparing
<1>5. msg[p] \notin prepares
  BY <1>2, <1>4, WhilePreparing DEF Uncommitted, Prepared
<1>6. TypeOK'
  BY <1>1, <1>2, <1>3, WhilePreparing DEF StoreInv, TypeOK, PCs, Unlocked
<1>7. CallsOK'
  BY <1>1 DEF StoreInv, TypeOK, CallsOK
<1>8. Uncommitted' = {msg[p]} /\ Carried' = Carried
  BY <1>1, <1>2, <1>4, WhilePreparing DEF Uncommitted, Prepared, Carried
<1>9. LogInv'
  BY <1>1, <1>2, <1>5, <1>8, WhilePreparing DEF StoreInv, LogInv, ChainIsLinear
<1>10. Replays(p)'
  BY <1>1, <1>2, <1>3, <1>8, WhilePreparing DEF Replays, Settled, Committing, Preparing
<1>11. Commits(p)'
  BY <1>3 DEF Commits, Committing
<1>12. Publishes(p)'
  BY <1>1, <1>2, <1>3, <1>8, WhilePreparing DEF Publishes, Committing, Preparing
<1> QED
  BY <1>3, <1>6, <1>7, <1>9, <1>10, <1>11, <1>12, Inside DEF Holds

LEMMA WritePrepareStep ==
  ASSUME StoreInv, NEW p \in Procs, WritePrepare(p)
  PROVE  StoreInv'
<1>1. /\ pc[p] = "write_prepare" /\ torn' = torn \ {<<"prepare", msg[p]>>}
      /\ prepares' = prepares \cup {msg[p]} /\ pc' = [pc EXCEPT ![p] = "stage"]
      /\ UNCHANGED <<generations, pointer, chat, messages, intents, committed,
                     staged, lock, op, parent, msg, todo, acked, faults>>
  BY DEF WritePrepare, At, Go
<1>2. pc[p] \in Preparing
  BY <1>1 DEF Preparing
<1>3. /\ lock = p /\ lock' = p /\ pc'[p] = "stage"
  BY <1>1, <1>2, WhilePreparing DEF StoreInv, TypeOK
<1>4. TypeOK'
  BY <1>1, <1>2, <1>3, WhilePreparing DEF StoreInv, TypeOK, PCs, Unlocked
<1>5. CallsOK'
  BY <1>1 DEF StoreInv, TypeOK, CallsOK
<1>6. Uncommitted' \subseteq {msg[p]} /\ Carried' = Carried
  BY <1>1, <1>2, WhilePreparing DEF Uncommitted, Prepared, Carried
<1>7. LogInv'
  BY <1>1, <1>2, <1>6, WhilePreparing DEF StoreInv, LogInv, ChainIsLinear
<1>8. Replays(p)'
  BY <1>1, <1>2, <1>3, <1>6, WhilePreparing DEF Replays, Settled, Committing, Preparing
<1>9. Commits(p)'
  BY <1>3 DEF Commits, Committing
<1>10. Publishes(p)'
  BY <1>1, <1>2, <1>3, <1>6, WhilePreparing DEF Publishes, Committing, Preparing
<1> QED
  BY <1>3, <1>4, <1>5, <1>7, <1>8, <1>9, <1>10, Inside DEF Holds
LEMMA StageStep ==
  ASSUME StoreInv, NEW p \in Procs, StageMessage(p) \/ OpenIntent(p)
  PROVE  StoreInv'
<1>1. /\ pc[p] \in {"stage", "open_intent"}
      /\ torn' = torn \/ torn' = torn \cup {<<"intent", msg[p]>>}
      /\ staged' = staged \/ staged' = staged \cup {msg[p]}
      /\ \/ pc' = [pc EXCEPT ![p] = "open_intent"]
         \/ pc' = [pc EXCEPT ![p] = "write_intent"]
      /\ UNCHANGED <<generations, pointer, chat, messages, prepares, intents, committed,
                     lock, op, parent, msg, todo, acked, faults>>
  BY DEF StageMessage, OpenIntent, At, Go
<1>2. pc[p] \in Preparing
  BY <1>1 DEF Preparing
<1>3. /\ lock = p /\ lock' = p /\ pc'[p] \in {"open_intent", "write_intent"}
  BY <1>1, <1>2, WhilePreparing DEF StoreInv, TypeOK
<1>4. TypeOK'
  BY <1>1, <1>2, <1>3, WhilePreparing DEF StoreInv, TypeOK, PCs, Unlocked
<1>5. CallsOK'
  BY <1>1 DEF StoreInv, TypeOK, CallsOK
<1>6. Prepared' = Prepared /\ Uncommitted' = Uncommitted /\ Carried' = Carried
  BY <1>1 DEF Uncommitted, Prepared, Carried
<1>7. LogInv'
  BY <1>1, <1>6 DEF StoreInv, LogInv, ChainIsLinear
<1>8. msg[p] \in prepares
  BY <1>1, <1>3 DEF StoreInv, Holds, Publishes, Preparing
<1>9. Replays(p)'
  BY <1>1, <1>2, <1>3, <1>6, WhilePreparing DEF Replays, Settled, Committing, Preparing
<1>10. Commits(p)'
  BY <1>3 DEF Commits, Committing
<1>11. Publishes(p)'
  BY <1>1, <1>2, <1>3, <1>6, <1>8, WhilePreparing DEF Publishes, Committing, Preparing
<1> QED
  BY <1>3, <1>4, <1>5, <1>7, <1>9, <1>10, <1>11, Inside DEF Holds

(* The intent is the commit: the chain grows by the message.               *)
LEMMA WriteIntentStep ==
  ASSUME StoreInv, NEW p \in Procs, WriteIntent(p)
  PROVE  StoreInv'
<1>1. /\ pc[p] = "write_intent" /\ torn' = torn \ {<<"intent", msg[p]>>}
      /\ intents' = intents \cup {msg[p]} /\ pc' = [pc EXCEPT ![p] = "pointer"]
      /\ UNCHANGED <<generations, pointer, chat, messages, prepares, committed, staged,
                     lock, op, parent, msg, todo, acked, faults>>
  BY DEF WriteIntent, At, Go
<1>2. pc[p] \in Preparing
  BY <1>1 DEF Preparing
<1>3. lock = p /\ lock' = p /\ pc'[p] = "pointer"
  BY <1>1, <1>2, WhilePreparing DEF StoreInv, TypeOK
<1>4. msg[p] \in prepares
  BY <1>1, <1>3 DEF StoreInv, Holds, Publishes, Preparing
<1>5. /\ IsFiniteSet(intents') /\ Linear(intents')
      /\ Cardinality(intents') = Cardinality(intents) + 1
      /\ \A n \in intents : n.index < msg[p].index
  BY <1>1, <1>2, WhilePreparing, LinearGrows, Facts
<1>6. intents \subseteq messages
  BY <1>2, WhilePreparing DEF Settled
<1>7. TypeOK'
  BY <1>1, <1>2, <1>3, WhilePreparing DEF StoreInv, TypeOK, PCs, Unlocked
<1>8. CallsOK'
  BY <1>1 DEF StoreInv, TypeOK, CallsOK
<1>9. Prepared' = Prepared /\ Uncommitted' = {} /\ Carried' = intents \cup {msg[p]}
  BY <1>1, <1>2, WhilePreparing DEF Uncommitted, Prepared, Carried
<1>10. LogInv'
  <2>1. ChainIsLinear'
    BY <1>5 DEF ChainIsLinear, Linear
  <2>2. \A m \in intents' \ messages' : \A n \in intents' : n.index <= m.index
    BY <1>1, <1>2, <1>5, <1>6, Facts, WhilePreparing DEF Message
  <2>3. intents' \subseteq prepares' /\ messages' \subseteq intents'
    BY <1>1, <1>4 DEF StoreInv, LogInv
  <2> QED
    BY <1>1, <1>5, <1>9, <2>1, <2>2, <2>3 DEF StoreInv, LogInv
<1>11. Current(p)' = msg[p]
  BY <1>1, <1>2, WhilePreparing DEF Current, Replaying
<1>12. Replays(p)'
  BY <1>1, <1>2, <1>3, <1>9, WhilePreparing DEF Replays, Committing, Preparing
<1>13. Commits(p)'
  BY <1>1, <1>3, <1>5, <1>6, <1>9, <1>11 DEF Commits
<1>14. Publishes(p)'
  BY <1>1, <1>2, <1>3, WhilePreparing DEF Publishes, Committing, Preparing
<1> QED
  BY <1>3, <1>7, <1>8, <1>10, <1>12, <1>13, <1>14, Inside DEF Holds

-----------------------------------------------------------------------------
(* What the four writes after the intent have in common, whether they      *)
(* carry out a message or replay one.                                      *)
LEMMA WhileCommitting ==
  ASSUME StoreInv, NEW p \in Procs, pc[p] \in Committing
  PROVE  /\ lock = p /\ Replays(p) /\ Commits(p) /\ Publishes(p)
         /\ Current(p) \in intents /\ Current(p) \in Message
         /\ Uncommitted \subseteq todo
         /\ todo # {} => /\ Current(p) \in todo
                         /\ \A t \in todo : Current(p).index <= t.index
         /\ todo = {} => Current(p) = msg[p]
<1>1. lock = p
  BY DEF StoreInv, TypeOK, Unlocked, Committing
<1>2. Replays(p) /\ Commits(p) /\ Publishes(p)
  BY <1>1 DEF StoreInv, Holds
<1>3. Current(p) \in intents
  BY <1>2 DEF Commits
<1>4. Uncommitted \subseteq todo
  BY <1>2 DEF Replays, Committing, Preparing
<1>5. ASSUME todo # {}
      PROVE  Current(p) \in todo /\ \A t \in todo : Current(p).index <= t.index
  BY <1>5, Facts, OldestExists DEF Current, Replaying
<1>6. todo = {} => Current(p) = msg[p]
  BY DEF Current, Replaying
<1> QED
  BY <1>1, <1>2, <1>3, <1>4, <1>5, <1>6, Facts

LEMMA AdvancePointerStep ==
  ASSUME StoreInv, NEW p \in Procs, AdvancePointer(p)
  PROVE  StoreInv'
<1>1. /\ pc[p] = "pointer" /\ pointer' = Current(p) /\ pc' = [pc EXCEPT ![p] = "message"]
      /\ UNCHANGED <<generations, chat, messages, prepares, intents, committed, torn, staged,
                     lock, op, parent, msg, todo, acked, faults>>
  BY DEF AdvancePointer, At, Go
<1>2. pc[p] \in Committing
  BY <1>1 DEF Committing
<1>3. lock = p /\ lock' = p /\ pc'[p] = "message"
  BY <1>1, <1>2, WhileCommitting DEF StoreInv, TypeOK
<1>4. TypeOK'
  BY <1>1, <1>2, <1>3, WhileCommitting DEF StoreInv, TypeOK, PCs, Unlocked
<1>5. CallsOK'
  BY <1>1 DEF StoreInv, TypeOK, CallsOK
<1>6. /\ Prepared' = Prepared /\ Uncommitted' = Uncommitted /\ Carried' = Carried
      /\ Current(p)' = Current(p)
  BY <1>1 DEF Prepared, Uncommitted, Carried, Current, Replaying, Oldest
<1>7. LogInv'
  BY <1>1, <1>2, <1>6, WhileCommitting DEF StoreInv, LogInv, ChainIsLinear
<1>8. Replays(p)'
  BY <1>1, <1>2, <1>3, <1>6, WhileCommitting DEF Replays, Committing, Preparing
<1>9. Commits(p)'
  BY <1>1, <1>2, <1>3, <1>6, WhileCommitting DEF Commits, Committing
<1>10. Publishes(p)'
  BY <1>1, <1>2, <1>3, <1>6, WhileCommitting DEF Publishes, Committing, Preparing
<1> QED
  BY <1>3, <1>4, <1>5, <1>7, <1>8, <1>9, <1>10, Inside DEF Holds

LEMMA PublishMessageStep ==
  ASSUME StoreInv, NEW p \in Procs, PublishMessage(p)
  PROVE  StoreInv'
<1>1. /\ pc[p] = "message" /\ messages' = messages \cup {Current(p)}
      /\ staged' \subseteq staged \cup {Current(p)} /\ pc' = [pc EXCEPT ![p] = "chat"]
      /\ UNCHANGED <<generations, pointer, chat, prepares, intents, committed, torn,
                     lock, op, parent, msg, todo, acked, faults>>
  BY DEF PublishMessage, At, Go
<1>2. pc[p] \in Committing
  BY <1>1 DEF Committing
<1>3. lock = p /\ lock' = p /\ pc'[p] = "chat"
  BY <1>1, <1>2, WhileCommitting DEF StoreInv, TypeOK
<1>4. TypeOK'
  BY <1>1, <1>2, <1>3, WhileCommitting DEF StoreInv, TypeOK, PCs, Unlocked
<1>5. CallsOK'
  BY <1>1 DEF StoreInv, TypeOK, CallsOK
<1>6. /\ Prepared' = Prepared /\ Uncommitted' = Uncommitted /\ Carried' = Carried
      /\ Current(p)' = Current(p)
  BY <1>1 DEF Prepared, Uncommitted, Carried, Current, Replaying, Oldest
<1>7. LogInv'
  BY <1>1, <1>2, <1>6, WhileCommitting DEF StoreInv, LogInv, ChainIsLinear
<1>8. Replays(p)'
  BY <1>1, <1>2, <1>3, <1>6, WhileCommitting DEF Replays, Committing, Preparing
<1>9. Commits(p)'
  BY <1>1, <1>2, <1>3, <1>6, WhileCommitting DEF Commits, Committing
<1>10. Publishes(p)'
  BY <1>1, <1>2, <1>3, <1>6, WhileCommitting DEF Publishes, Committing, Preparing
<1> QED
  BY <1>3, <1>4, <1>5, <1>7, <1>8, <1>9, <1>10, Inside DEF Holds

LEMMA WriteChatStep ==
  ASSUME StoreInv, NEW p \in Procs, WriteChat(p)
  PROVE  StoreInv'
<1>1. /\ pc[p] = "chat" /\ chat' = Current(p) /\ pc' = [pc EXCEPT ![p] = "marker"]
      /\ UNCHANGED <<generations, pointer, messages, prepares, intents, committed, torn,
                     staged, lock, op, parent, msg, todo, acked, faults>>
  BY DEF WriteChat, At, Go
<1>2. pc[p] \in Committing
  BY <1>1 DEF Committing
<1>3. lock = p /\ lock' = p /\ pc'[p] = "marker"
  BY <1>1, <1>2, WhileCommitting DEF StoreInv, TypeOK
<1>4. TypeOK'
  BY <1>1, <1>2, <1>3, WhileCommitting DEF StoreInv, TypeOK, PCs, Unlocked
<1>5. CallsOK'
  BY <1>1 DEF StoreInv, TypeOK, CallsOK
<1>6. /\ Prepared' = Prepared /\ Uncommitted' = Uncommitted /\ Carried' = Carried
      /\ Current(p)' = Current(p)
  BY <1>1 DEF Prepared, Uncommitted, Carried, Current, Replaying, Oldest
<1>7. Current(p) \in messages
  BY <1>1, <1>2, WhileCommitting DEF Commits
<1>8. LogInv'
  BY <1>1, <1>6, <1>7 DEF StoreInv, LogInv, ChainIsLinear
<1>9. Replays(p)'
  BY <1>1, <1>2, <1>3, <1>6, WhileCommitting DEF Replays, Committing, Preparing
<1>10. Commits(p)'
  BY <1>1, <1>2, <1>3, <1>6, WhileCommitting DEF Commits, Committing
<1>11. Publishes(p)'
  BY <1>1, <1>2, <1>3, <1>6, WhileCommitting DEF Publishes, Committing, Preparing
<1> QED
  BY <1>3, <1>4, <1>5, <1>8, <1>9, <1>10, <1>11, Inside DEF Holds
(* The marker: what was carried out is settled, and older than what is     *)
(* left of the log.                                                        *)
LEMMA WriteCommittedStep ==
  ASSUME StoreInv, NEW p \in Procs, WriteCommitted(p)
  PROVE  StoreInv'
<1> DEFINE m == Current(p)
<1>1. /\ pc[p] = "marker" /\ committed' = committed \cup {m} /\ todo' = todo \ {m}
      /\ pc' = [pc EXCEPT ![p] = IF todo # {} THEN "recover" ELSE "unlock"]
      /\ UNCHANGED <<generations, pointer, chat, messages, prepares, intents, torn, staged,
                     lock, op, parent, msg, acked, faults>>
  BY DEF WriteCommitted, At, Go, Replaying
<1>2. pc[p] \in Committing
  BY <1>1 DEF Committing
<1>3. /\ lock = p /\ lock' = p
      /\ pc'[p] = IF todo # {} THEN "recover" ELSE "unlock"
  BY <1>1, <1>2, WhileCommitting DEF StoreInv, TypeOK
<1>4. /\ pointer = m /\ chat = m /\ m \in messages /\ m \in intents /\ m \in Message
      /\ \A n \in Carried \ {m} : n \in messages /\ n.index < m.index
  BY <1>1, <1>2, WhileCommitting DEF Commits
<1>5. todo # {} => m \in todo /\ \A t \in todo : m.index <= t.index
  BY <1>2, WhileCommitting
<1>6. todo = {} => m = msg[p] /\ op[p] = "publish"
  BY <1>2, WhileCommitting DEF Publishes
<1> HIDE DEF m
<1>7. TypeOK'
  BY <1>1, <1>3, <1>4 DEF StoreInv, TypeOK, PCs, Unlocked
<1>8. CallsOK'
  BY <1>1, <1>3 DEF StoreInv, TypeOK, CallsOK
<1>9. Prepared' = Prepared /\ Uncommitted' = Uncommitted /\ Carried' = Carried \cup {m}
  BY <1>1, <1>4 DEF Prepared, Uncommitted, Carried
<1>10. LogInv'
  BY <1>1, <1>4, <1>9 DEF StoreInv, LogInv, ChainIsLinear
<1>11. Settled'
  <2>1. \A n \in Carried' : n \in messages' /\ n.index <= chat'.index
    BY <1>1, <1>4, <1>9, Facts DEF Carried
  <2> QED
    BY <1>1, <1>4, <1>9, <2>1 DEF Settled
<1>12. \A t \in todo' : m.index < t.index
  <2> SUFFICES ASSUME NEW t \in todo, t # m PROVE m.index < t.index
    BY <1>1
  <2>1. m.index <= t.index /\ t \in Message
    BY <1>5, Facts
  <2>2. CASE t \in intents
    BY <1>4, <2>1, <2>2, Facts DEF Linear, Message
  <2>3. CASE t \notin intents
    <3>1. t \in Uncommitted
      BY <1>2, <2>3, WhileCommitting DEF Replays, Uncommitted
    <3>2. t.index = Cardinality(intents)
      BY <3>1 DEF StoreInv, LogInv
    <3> QED
      BY <1>4, <3>2, Facts
  <2> QED
    BY <2>2, <2>3
<1>13. Replays(p)'
  <2>1. \A k \in Carried', t \in todo' : k.index < t.index
    BY <1>1, <1>2, <1>9, <1>12, WhileCommitting DEF Replays
  <2>2. Uncommitted' \subseteq todo'
    BY <1>1, <1>2, <1>4, <1>9, WhileCommitting DEF Uncommitted
  <2>3. pc'[p] = "unlock" => todo' = {}
    BY <1>1, <1>3
  <2>4. todo' \subseteq Prepared'
    BY <1>1, <1>2, <1>9, WhileCommitting DEF Replays
  <2> QED
    BY <1>3, <1>11, <2>1, <2>2, <2>3, <2>4 DEF Replays, Committing, Preparing
<1>14. Commits(p)'
  BY <1>3 DEF Commits, Committing
<1>15. Publishes(p)'
  <2>1. CASE todo # {}
    BY <1>3, <2>1 DEF Publishes, Committing, Preparing
  <2>2. CASE todo = {}
    <3>1. \A n \in intents : n.index <= m.index
      BY <1>4, <2>2, Facts DEF Carried
    <3> QED
      BY <1>1, <1>2, <1>3, <1>6, <2>2, <3>1, WhileCommitting
         DEF Publishes, Committing, Preparing
  <2> QED
    BY <2>1, <2>2
<1> QED
  BY <1>3, <1>7, <1>8, <1>10, <1>13, <1>14, <1>15, Inside DEF Holds

LEMMA ReleaseLockStep ==
  ASSUME StoreInv, NEW p \in Procs, ReleaseLock(p)
  PROVE  StoreInv'
<1> USE DEF ReleaseLock, At, Go, disk
<1>1. lock = p
  BY DEF StoreInv, TypeOK, Unlocked
<1>2. todo = {} /\ (op[p] = "publish" => msg[p] \in committed)
  BY <1>1 DEF StoreInv, Holds, Replays, Publishes
<1>3. acked' \subseteq committed
  BY <1>2 DEF StoreInv, LogInv
<1>4. LogInv'
  BY <1>3, LogUnchanged DEF StoreInv, LogFiles
<1>5. TypeOK'
  <2>1. acked' \subseteq Message
    BY <1>3 DEF StoreInv, TypeOK
  <2>2. \A q \in Procs : pc'[q] \notin Unlocked <=> lock' = q
    BY <1>1, FactoryAssumption DEF StoreInv, TypeOK, Unlocked
  <2> QED
    BY <1>1, <2>1, <2>2 DEF StoreInv, TypeOK, PCs, Unlocked
<1>6. CallsOK'
  BY DEF StoreInv, TypeOK, CallsOK
<1>7. lock' \notin Procs /\ todo' = {}
  BY <1>2, FactoryAssumption
<1> QED
  BY <1>4, <1>5, <1>6, <1>7, Inside

(* An exception or a kill anywhere leaves the disk as it stands, and with  *)
(* it everything that is said of the log.                                  *)
LEMMA InterruptStep ==
  ASSUME StoreInv, NEW p \in Procs, Raise(p) \/ Kill(p)
  PROVE  StoreInv'
<1>1. /\ pc' = [pc EXCEPT ![p] = "idle"] /\ UNCHANGED <<disk, op, parent, msg, acked>>
      /\ faults' \in 0 .. MaxFaults
      /\ IF lock = p THEN lock' \in {"free", "orphan"} /\ todo' = {}
                     ELSE lock' = lock /\ todo' = todo
  <2>1. faults + 1 \in 0 .. MaxFaults
    BY FactoryAssumption DEF Raise, Kill, StoreInv, TypeOK
  <2> QED
    BY <2>1 DEF Raise, Kill, Go
<1>2. TypeOK'
  <2>1. \A q \in Procs : pc'[q] \notin Unlocked <=> lock' = q
    BY <1>1, Facts DEF StoreInv, TypeOK, Unlocked
  <2> QED
    BY <1>1, <2>1 DEF disk, StoreInv, TypeOK, PCs, Unlocked
<1>3. CallsOK'
  BY <1>1 DEF StoreInv, TypeOK, CallsOK
<1>4. UNCHANGED LogFiles
  BY <1>1 DEF LogFiles, disk
<1>5. CASE lock = p
  <2>1. LogInv'
    BY <1>1, <1>4, LogUnchanged DEF StoreInv, LogInv
  <2>2. lock' \notin Procs /\ todo' = {}
    BY <1>1, <1>5, Facts
  <2> QED
    BY <1>2, <1>3, <2>1, <2>2, Inside
<1>6. CASE lock # p
  BY <1>1, <1>2, <1>3, <1>4, <1>6, Outside DEF StoreInv, TypeOK, CallsOK
<1> QED
  BY <1>5, <1>6

LEMMA OperatorStep ==
  ASSUME StoreInv, OperatorUnlocks
  PROVE  StoreInv'
<1> USE DEF OperatorUnlocks, disk, procs
<1>1. LogInv'
  BY LogUnchanged DEF StoreInv, LogInv, LogFiles
<1>2. TypeOK'
  BY Facts DEF StoreInv, TypeOK, PCs, Unlocked
<1>3. CallsOK'
  BY DEF StoreInv, CallsOK
<1>4. lock' \notin Procs /\ todo' = {}
  BY Facts DEF StoreInv
<1> QED
  BY <1>1, <1>2, <1>3, <1>4 DEF StoreInv

LEMMA StoreStep ==
  ASSUME StoreInv, [Next]_vars
  PROVE  StoreInv'
<1>1. CASE UNCHANGED vars
  <2>1. UNCHANGED LogFiles /\ LogInv'
    BY <1>1, LogUnchanged DEF vars, disk, StoreInv, LogInv, LogFiles
  <2>2. \A q \in Procs : lock' = q => Holds(q)'
    BY <1>1, <2>1, HoldsUnchanged DEF vars, procs, StoreInv
  <2>3. TypeOK' /\ CallsOK'
    BY <1>1 DEF vars, disk, procs, StoreInv, TypeOK, CallsOK
  <2> QED
    BY <1>1, <2>1, <2>2, <2>3 DEF vars, StoreInv
<1>2. CASE OperatorUnlocks
  BY <1>2, OperatorStep
<1>3. ASSUME NEW p \in Procs,
             \/ CallPublish(p) \/ CallRecover(p) \/ Materialize(p) \/ Place(p)
             \/ AcquireLock(p) \/ RefuseBusy(p) \/ ReleaseLock(p)
             \/ Replay(p) \/ CheckHead(p) \/ RefuseStale(p) \/ Write(p)
             \/ Raise(p) \/ Kill(p)
      PROVE  StoreInv'
  <2>1. CASE CallPublish(p) \/ CallRecover(p)
    BY <2>1, CallPublishStep, CallRecoverStep
  <2>2. CASE Materialize(p) \/ Place(p) \/ RefuseBusy(p)
    BY <2>2, BuildStep
  <2>3. CASE AcquireLock(p) \/ ReleaseLock(p)
    BY <2>3, AcquireLockStep, ReleaseLockStep
  <2>4. CASE Replay(p)
    BY <2>4, ReplayUnstageStep, ReplayUnlinkStep, ReplayRedoStep, ReplayTornStep,
       ReplayDoneStep DEF Replay
  <2>5. CASE CheckHead(p) \/ RefuseStale(p)
    BY <2>5, CheckHeadStep, RefuseStaleStep
  <2>6. CASE Write(p)
    BY <2>6, OpenPrepareStep, WritePrepareStep, StageStep, WriteIntentStep,
       AdvancePointerStep, PublishMessageStep, WriteChatStep, WriteCommittedStep DEF Write
  <2>7. CASE Raise(p) \/ Kill(p)
    BY <2>7, InterruptStep
  <2> QED
    BY <1>3, <2>1, <2>2, <2>3, <2>4, <2>5, <2>6, <2>7
<1> QED
  BY <1>1, <1>2, <1>3 DEF Next

-----------------------------------------------------------------------------
(* Whatever is interrupted and retried, the invariant of the store holds.  *)
THEOREM StoreInvariant == Spec => []StoreInv
<1>1. Init => StoreInv
  BY InitEstablishes
<1>2. StoreInv /\ [Next]_vars => StoreInv'
  BY StoreStep
<1> QED
  BY <1>1, <1>2, PTL DEF Spec

(* Files and processes keep their types, and the lock file belongs to the  *)
(* one process that is past it (_acquire_lock).                            *)
THEOREM TypeCorrect == Spec => []TypeOK
<1>1. StoreInv => TypeOK
  BY DEF StoreInv
<1> QED
  BY <1>1, StoreInvariant, PTL

(* One linear history: no message index is committed twice or skipped,     *)
(* readers see committed messages only, an acknowledged one stays, and the *)
(* chat counts messages that are there (recover, publish).                 *)
THEOREM HistoryHolds == Spec => []HistoryIsSound
<1>1. StoreInv => HistoryIsSound
  <2> SUFFICES ASSUME StoreInv PROVE HistoryIsSound
    OBVIOUS
  <2>1. ChainIsLinear
    BY DEF StoreInv, LogInv
  <2>2. OnlyCommittedIsVisible
    BY DEF StoreInv, LogInv, OnlyCommittedIsVisible
  <2>3. ASSUME NEW i \in 0 .. chat.index
        PROVE  \E m \in messages : m.index = i
    <3>1. chat \in messages /\ chat \in intents /\ chat.index \in Nat
      <4>1. chat # None
        BY <2>3 DEF None
      <4> QED
        BY <4>1, Facts DEF StoreInv, LogInv
    <3>2. i \in 0 .. Cardinality(intents) - 1
      BY <2>3, <3>1, Facts
    <3>3. PICK m \in intents : m.index = i
      BY <3>2, Facts DEF Linear
    <3>4. CASE m \in messages
      BY <3>3, <3>4
    <3>5. CASE m \notin messages
      <4>1. chat.index <= m.index
        BY <3>1, <3>5 DEF StoreInv, LogInv
      <4>2. chat.index = i
        BY <2>3, <3>1, <3>3, <4>1
      <4> QED
        BY <3>1, <4>2
    <3> QED
      BY <3>4, <3>5
  <2> QED
    BY <2>1, <2>2, <2>3 DEF HistoryIsSound, ChatCountsVisibleMessages
<1> QED
  BY <1>1, StoreInvariant, PTL

(* What a writer decided about the head holds when it commits, and a call  *)
(* returns with pointer, chat and messages at the newest commit (_publish, *)
(* _recover_unlocked).                                                     *)
THEOREM WritersHold == Spec => []WritersAreCurrent
<1>1. StoreInv => WritersAreCurrent
  <2> SUFFICES ASSUME StoreInv PROVE WritersAreCurrent
    OBVIOUS
  <2>1. FollowsTheNamedHead
    BY DEF FollowsTheNamedHead, StoreInv, Holds, Publishes
  <2>2. ASSUME NEW p \in Procs, pc[p] = "unlock"
        PROVE  /\ messages = intents /\ pointer = chat
               /\ intents # {} => chat \in intents /\ \A m \in intents : m.index <= chat.index
    <3>1. lock = p
      BY <2>2 DEF StoreInv, TypeOK, Unlocked
    <3>2. Settled /\ Carried = intents
      BY <2>2, <3>1 DEF StoreInv, Holds, Replays, Carried, Committing, Preparing
    <3>3. messages = intents
      BY <3>2 DEF Settled, StoreInv, LogInv
    <3> QED
      BY <3>2, <3>3 DEF Settled, StoreInv, LogInv
  <2>3. ReturnsSettled
    BY <2>2 DEF ReturnsSettled, At
  <2> QED
    BY <2>1, <2>3 DEF WritersAreCurrent
<1> QED
  BY <1>1, StoreInvariant, PTL
-----------------------------------------------------------------------------
(* The refinement.  The log a reader is promised is the chain of intents,  *)
(* of which as many are shown as there are messages, and acknowledged as   *)
(* many as lead up to an acknowledged one.                                 *)
EntryOf(S, i) == CHOOSE m \in S : m.index = i - 1
ReleasesOf(S) == [i \in 1 .. Cardinality(S) |-> EntryOf(S, i).release]
History == [i \in 1 .. Cardinality(intents) |-> LogEntry(i)]
Acknowledged == {m \in intents : \E a \in acked : m.index <= a.index}

(* Each place of a linear set holds one message.                           *)
LEMMA EntryExists ==
  ASSUME NEW S \in SUBSET Message, IsFiniteSet(S), Linear(S),
         NEW i \in 1 .. Cardinality(S)
  PROVE  EntryOf(S, i) \in S /\ EntryOf(S, i).index = i - 1
<1>1. Cardinality(S) \in Nat
  BY FS_CardinalityType
<1>2. i - 1 \in 0 .. Cardinality(S) - 1
  BY <1>1
<1>3. i - 1 \in {m.index : m \in S}
  BY <1>2 DEF Linear
<1> QED
  BY <1>3 DEF EntryOf

LEMMA ReleasesOfType ==
  ASSUME NEW S \in SUBSET Message, IsFiniteSet(S), Linear(S)
  PROVE  ReleasesOf(S) \in Seq(Releases) /\ Len(ReleasesOf(S)) = Cardinality(S)
<1>1. Cardinality(S) \in Nat
  BY FS_CardinalityType
<1>2. \A i \in 1 .. Cardinality(S) : EntryOf(S, i).release \in Releases
  BY EntryExists DEF Message
<1> QED
  BY <1>1, <1>2 DEF ReleasesOf

(* The next message adds its release at the end, and moves nothing.        *)
LEMMA ReleasesOfGrow ==
  ASSUME NEW S \in SUBSET Message, IsFiniteSet(S), Linear(S),
         NEW m \in Message, m.index = Cardinality(S)
  PROVE  ReleasesOf(S \cup {m}) = Append(ReleasesOf(S), m.release)
<1> DEFINE T == S \cup {m}
           old == ReleasesOf(S)
           new == ReleasesOf(T)
           longer == Append(old, m.release)
<1>1. /\ IsFiniteSet(T) /\ Linear(T) /\ Cardinality(T) = Cardinality(S) + 1
      /\ \A n \in S : n.index < m.index
  BY LinearGrows
<1>2. Cardinality(S) \in Nat /\ m.release \in Releases
  BY FS_CardinalityType DEF Message
<1>3. old \in Seq(Releases) /\ Len(old) = Cardinality(S)
  BY ReleasesOfType
<1>4. new \in Seq(Releases) /\ Len(new) = Cardinality(S) + 1
  BY <1>1, ReleasesOfType
<1>5. /\ longer \in Seq(Releases) /\ Len(longer) = Cardinality(S) + 1
      /\ \A i \in 1 .. Cardinality(S) : longer[i] = old[i]
      /\ longer[Cardinality(S) + 1] = m.release
  BY <1>2, <1>3, AppendProperties
<1>6. ASSUME NEW i \in 1 .. Cardinality(S) + 1
      PROVE  new[i] = longer[i]
  <2>1. EntryOf(T, i) \in T /\ EntryOf(T, i).index = i - 1
    BY <1>1, EntryExists
  <2>2. new[i] = EntryOf(T, i).release
    BY <1>1, <1>2 DEF ReleasesOf
  <2>3. CASE i = Cardinality(S) + 1
    <3>1. EntryOf(T, i) = m
      BY <1>1, <1>2, <2>1, <2>3 DEF Linear
    <3> QED
      BY <1>5, <2>2, <2>3, <3>1
  <2>4. CASE i \in 1 .. Cardinality(S)
    <3>1. EntryOf(S, i) \in S /\ EntryOf(S, i).index = i - 1
      BY <2>4, EntryExists
    <3>2. EntryOf(T, i) = EntryOf(S, i)
      BY <1>1, <2>1, <3>1 DEF Linear
    <3>3. old[i] = EntryOf(S, i).release
      BY <2>4 DEF ReleasesOf
    <3> QED
      BY <1>5, <2>2, <2>4, <3>2, <3>3
  <2>5. i = Cardinality(S) + 1 \/ i \in 1 .. Cardinality(S)
    BY <1>2
  <2> QED
    BY <2>3, <2>4, <2>5
<1> HIDE DEF longer, old, new
<1>7. Len(new) = Len(longer) /\ \A i \in 1 .. Len(new) : new[i] = longer[i]
  BY <1>4, <1>5, <1>6
<1>8. new = longer
  BY <1>4, <1>5, <1>7, SeqEqual
<1> QED
  BY <1>8 DEF longer, old, new, T

(* What the mapping reads: nothing else on disk matters to the log.        *)
LEMMA SameLog ==
  ASSUME UNCHANGED <<intents, messages, acked>>
  PROVE  UNCHANGED Log!logVars
BY DEF Log!logVars, LogEntry

(* The commit intent is the step at which an entry becomes durable; it     *)
(* comes when all the entries before it are shown.                         *)
LEMMA IntentCommits ==
  ASSUME StoreInv, NEW p \in Procs, WriteIntent(p)
  PROVE  Log!Commit(msg[p].release)
<1> DEFINE m == msg[p]
<1>1. /\ pc[p] \in Preparing /\ intents' = intents \cup {m}
      /\ UNCHANGED <<messages, acked>>
  BY DEF WriteIntent, At, Preparing
<1>2. /\ m \in Message /\ m.index = Cardinality(intents)
      /\ Settled /\ Carried = intents
  BY <1>1, WhilePreparing
<1>3. messages = intents
  BY <1>2 DEF Settled, StoreInv, LogInv
<1>4. /\ ReleasesOf(intents') = Append(ReleasesOf(intents), m.release)
      /\ Len(ReleasesOf(intents)) = Cardinality(intents)
      /\ \A n \in intents : n.index < m.index
  BY <1>1, <1>2, Facts, ReleasesOfGrow, ReleasesOfType
<1>5. \A a \in acked : ~ (m.index <= a.index)
  BY <1>2, <1>4, Facts DEF StoreInv, LogInv
<1>6. Acknowledged' = Acknowledged
  BY <1>1, <1>5 DEF Acknowledged
<1> QED
  BY <1>1, <1>3, <1>4, <1>6
     DEF Log!Commit, ReleasesOf, EntryOf, LogEntry, Acknowledged

(* A message that becomes visible is the next one of the log.              *)
LEMMA MessageShows ==
  ASSUME StoreInv, NEW p \in Procs, PublishMessage(p)
  PROVE  Log!Show \/ UNCHANGED Log!logVars
<1> DEFINE m == Current(p)
<1>1. /\ pc[p] \in Committing /\ messages' = messages \cup {m}
      /\ UNCHANGED <<intents, acked>>
  BY DEF PublishMessage, At, Committing
<1>2. m \in intents
  BY <1>1, WhileCommitting
<1>3. CASE m \in messages
  <2>1. messages' = messages
    BY <1>1, <1>3
  <2> QED
    BY <1>1, <2>1, SameLog
<1>4. CASE m \notin messages
  <2>1. messages \subseteq intents /\ IsFiniteSet(intents)
    BY DEF StoreInv, LogInv
  <2>2. IsFiniteSet(messages) /\ Cardinality(messages) <= Cardinality(intents)
    BY <2>1, FS_Subset
  <2>3. messages # intents
    BY <1>2, <1>4
  <2>4. Cardinality(messages) # Cardinality(intents)
    BY <2>1, <2>3, FS_Subset
  <2>5. Cardinality(messages) < Cardinality(intents)
    BY <2>1, <2>2, <2>4, FS_CardinalityType
  <2>6. Cardinality(messages') = Cardinality(messages) + 1
    BY <1>1, <1>4, <2>2, FS_AddElement
  <2>7. Len(ReleasesOf(intents)) = Cardinality(intents)
    BY Facts, ReleasesOfType
  <2>8. Cardinality(messages) < Len(History)
    BY <2>5, <2>7 DEF History, ReleasesOf, EntryOf, LogEntry
  <2>9. UNCHANGED <<History, Acknowledged>>
    BY <1>1 DEF History, LogEntry, Acknowledged
  <2>10. Log!Show
    BY <2>6, <2>8, <2>9 DEF Log!Show, History, Acknowledged
  <2> QED
    BY <2>10
<1> QED
  BY <1>3, <1>4

(* A publication returns when everything that is durable is shown.         *)
LEMMA ReturnAcknowledges ==
  ASSUME StoreInv, NEW p \in Procs, ReleaseLock(p)
  PROVE  Log!Acknowledge \/ UNCHANGED Log!logVars
<1>1. pc[p] = "unlock" /\ UNCHANGED <<intents, messages>>
  BY DEF ReleaseLock, At, disk
<1>2. lock = p
  BY <1>1 DEF StoreInv, TypeOK, Unlocked
<1>3. CASE op[p] = "publish"
  <2>1. acked' = acked \cup {msg[p]}
    BY <1>3 DEF ReleaseLock
  <2>2. /\ \A n \in intents : n.index <= msg[p].index
        /\ Settled /\ Carried = intents
    BY <1>1, <1>2, <1>3
       DEF StoreInv, Holds, Replays, Publishes, Carried, Committing, Preparing
  <2>3. messages = intents
    BY <2>2 DEF Settled, StoreInv, LogInv
  <2>4. Acknowledged' = intents
    BY <1>1, <2>1, <2>2 DEF Acknowledged
  <2>5. Len(ReleasesOf(intents)) = Cardinality(intents)
    BY Facts, ReleasesOfType
  <2>6. Len(History) = Cardinality(intents)
    BY <2>5 DEF History, ReleasesOf, EntryOf, LogEntry
  <2>7. UNCHANGED <<History, messages>>
    BY <1>1 DEF History, LogEntry
  <2>8. Cardinality(Acknowledged)' = Cardinality(intents)
    BY <2>4
  <2>9. Log!Acknowledge
    BY <2>3, <2>6, <2>7, <2>8 DEF Log!Acknowledge, History, Acknowledged
  <2> QED
    BY <2>9
<1>4. CASE op[p] # "publish"
  BY <1>1, <1>4, SameLog DEF ReleaseLock
<1> QED
  BY <1>3, <1>4

LEMMA LogStep ==
  ASSUME StoreInv, [Next]_vars
  PROVE  [Log!Next]_(Log!logVars)
<1>1. CASE UNCHANGED vars \/ OperatorUnlocks
  <2>1. UNCHANGED <<intents, messages, acked>>
    BY <1>1 DEF vars, disk, OperatorUnlocks
  <2> QED
    BY <2>1, SameLog
<1>2. ASSUME NEW p \in Procs, WriteIntent(p)
      PROVE  Log!Next
  <2>1. msg[p].release \in Releases
    BY <1>2, WhilePreparing DEF WriteIntent, At, Preparing, Message
  <2> QED
    BY <1>2, <2>1, IntentCommits DEF Log!Next
<1>3. ASSUME NEW p \in Procs, PublishMessage(p)
      PROVE  [Log!Next]_(Log!logVars)
  BY <1>3, MessageShows DEF Log!Next
<1>4. ASSUME NEW p \in Procs, ReleaseLock(p)
      PROVE  [Log!Next]_(Log!logVars)
  BY <1>4, ReturnAcknowledges DEF Log!Next
<1>5. ASSUME NEW p \in Procs,
             \/ CallPublish(p) \/ CallRecover(p) \/ Materialize(p) \/ Place(p)
             \/ AcquireLock(p) \/ RefuseBusy(p) \/ Replay(p)
             \/ CheckHead(p) \/ RefuseStale(p)
             \/ OpenPrepare(p) \/ WritePrepare(p) \/ StageMessage(p) \/ OpenIntent(p)
             \/ AdvancePointer(p) \/ WriteChat(p) \/ WriteCommitted(p)
             \/ Raise(p) \/ Kill(p)
      PROVE  UNCHANGED Log!logVars
  <2>1. UNCHANGED <<intents, messages, acked>>
    BY <1>5
       DEF CallPublish, CallRecover, Materialize, Place, AcquireLock, RefuseBusy, Replay,
           ReplayUnstage, ReplayUnlink, ReplayRedo, ReplayTorn, ReplayDone, CheckHead,
           RefuseStale, OpenPrepare, WritePrepare, StageMessage, OpenIntent,
           AdvancePointer, WriteChat, WriteCommitted, Raise, Kill, disk
  <2> QED
    BY <2>1, SameLog
<1> QED
  BY <1>1, <1>2, <1>3, <1>4, <1>5 DEF Next, Write

(* The files of the transaction store implement one append-only log        *)
(* (_publish, _recover_unlocked): its entries are the releases of the      *)
(* commit intents in the order of their index, shown as their messages     *)
(* become visible, in order, and acknowledged when a publication returns.  *)
THEOREM ImplementsLog == Spec => RefinesAppendLog
<1>1. Init => Log!Init
  <2> SUFFICES ASSUME Init PROVE Log!Init
    OBVIOUS
  <2>1. intents = {} /\ messages = {} /\ Acknowledged = {}
    BY DEF Init, Acknowledged
  <2>2. Cardinality({}) = 0
    BY FS_EmptySet
  <2>3. [i \in 1 .. 0 |-> LogEntry(i)] = <<>>
    OBVIOUS
  <2> QED
    BY <2>1, <2>2, <2>3 DEF Log!Init, Acknowledged
<1>2. StoreInv /\ [Next]_vars => [Log!Next]_(Log!logVars)
  BY LogStep
<1> QED
  BY <1>1, <1>2, StoreInvariant, PTL DEF Spec, RefinesAppendLog, Log!Spec
=============================================================================
