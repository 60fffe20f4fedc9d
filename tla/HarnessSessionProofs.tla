----------------------- MODULE HarnessSessionProofs ------------------------
(***************************************************************************)
(* Proofs that a session's log is one linear history that every replay can *)
(* read, for any number of processes, releases, messages, exceptions,      *)
(* kills and interrupted replays; that a result is appended directly       *)
(* behind its context; that the manifest never goes back; and that the     *)
(* session implements an append-only log.                                  *)
(***************************************************************************)
EXTENDS HarnessSession, FiniteSetTheorems, WellFoundedInduction,
        SequenceTheorems, TLAPS

(* The messages whose prepare file stands without a commit record.         *)
Prepared == {m \in Message : m \in prepares \/ <<"prepare", m>> \in torn}
Uncommitted == Prepared \ commits
Version == manifest.version

CallsOK == msg \in [Procs -> Message \cup {NoMessage}]

(* Until the manifest is filled the directory is empty, and only one       *)
(* process can fill it.                                                    *)
CreationInv ==
  /\ session # "created" =>
       /\ Version = 0 /\ todo = {} /\ acked = {}
       /\ prepares = {} /\ messages = {} /\ commits = {} /\ torn = {}
       /\ \A p \in Procs : lock = p => pc[p] = "load"
  /\ \A p \in Procs :
       /\ pc[p] = "open_manifest" => session = "directory"
       /\ pc[p] = "fill_manifest" => session = "torn"
  /\ \A p, q \in Procs :
       {pc[p], pc[q]} \subseteq {"open_manifest", "fill_manifest"} => p = q

(* What the files hold whoever writes or died writing: the commits are a   *)
(* chain, the manifest stands at its end or one message behind, and what   *)
(* is prepared beyond it would be its next message.                        *)
LogInv ==
  /\ IsFiniteSet(commits) /\ ChainIsLinear
  /\ commits \subseteq messages \cap prepares
  /\ acked \subseteq commits
  /\ Version > 0 => manifest.last.base = Version - 1
  /\ \A m \in Uncommitted :
       m.base = Cardinality(commits) /\ Version = Cardinality(commits)

Replaying == {"replay", "undo_prepare"}
Preparing ==
  {"open_prepare", "write_prepare", "open_message", "write_message", "open_commit",
   "write_commit"}

(* The lock holder while it replays: it has still before it what is not    *)
(* committed, and the newest commit if the manifest is behind.             *)
Replays(p) ==
  /\ pc[p] = "load" => todo = {}
  /\ pc[p] \in Replaying =>
       /\ todo \subseteq Prepared /\ Uncommitted \subseteq todo
       /\ Version = Cardinality(commits) \/ \E m \in todo \cap commits : m.base = Version
  /\ pc[p] = "undo_prepare" =>
       /\ todo # {} /\ Oldest(todo) \notin commits
       /\ <<"prepare", Oldest(todo)>> \notin torn

(* The lock holder while it appends: its message comes next after the      *)
(* version its context had, and nothing else is being prepared.            *)
Appends(p) ==
  /\ pc[p] \in Writing =>
       /\ op[p] = "append" /\ todo = {} /\ msg[p] \in Message
       /\ msg[p].base = seen[p] /\ manifest.release = release[p]
  /\ pc[p] \in Preparing =>
       /\ Version = Cardinality(commits) /\ msg[p].base = Version
       /\ Uncommitted \subseteq {msg[p]}
       /\ pc[p] = "open_prepare" => Uncommitted = {}
       /\ pc[p] \notin {"open_prepare", "write_prepare"} => msg[p] \in prepares
       /\ pc[p] \in {"open_commit", "write_commit"} => msg[p] \in messages
  /\ pc[p] \in {"manifest", "unlock"} =>
       /\ msg[p] \in commits /\ msg[p].base = Cardinality(commits) - 1
       /\ Uncommitted = {}
       /\ Version = IF pc[p] = "manifest" THEN msg[p].base ELSE msg[p].base + 1

Holds(p) == Replays(p) /\ Appends(p)

StoreInv ==
  /\ SessionAssumption /\ TypeOK /\ CallsOK /\ CreationInv /\ LogInv
  /\ lock \notin Procs => todo = {}
  /\ \A p \in Procs : lock = p => Holds(p)

-----------------------------------------------------------------------------
(* The replay order is well defined: a set of messages has an oldest one.  *)
LEMMA OldestExists ==
  ASSUME NEW S \in SUBSET Message, S # {}
  PROVE  Oldest(S) \in S /\ \A n \in S : Oldest(S).base <= n.base
<1> DEFINE bases == {m.base : m \in S}
<1>1. bases \subseteq Nat /\ bases # {}
  BY DEF Message
<1>2. PICK i \in bases : \A j \in bases : <<j, i>> \notin OpToRel(<, Nat)
  BY <1>1, WFMin, NatLessThanWellFounded, Zenon
<1>3. \A j \in bases : ~ (j < i)
  BY <1>1, <1>2, Zenon DEF OpToRel
<1>4. PICK m \in S : m.base = i
  BY <1>2
<1>5. \A n \in S : m.base <= n.base
  BY <1>1, <1>3, <1>4
<1> QED
  BY <1>5 DEF Oldest

(* A set of messages with bases 0, 1, ... without a gap or a double, and   *)
(* the next one added, is such a set again.                                *)
Linear(S) ==
  /\ \A m, n \in S : m.base = n.base => m = n
  /\ {m.base : m \in S} = 0 .. Cardinality(S) - 1

LEMMA LinearGrows ==
  ASSUME NEW S \in SUBSET Message, IsFiniteSet(S), Linear(S),
         NEW m \in Message, m.base = Cardinality(S)
  PROVE  /\ IsFiniteSet(S \cup {m}) /\ Linear(S \cup {m})
         /\ Cardinality(S \cup {m}) = Cardinality(S) + 1
         /\ m \notin S /\ \A n \in S : n.base < m.base
<1>1. Cardinality(S) \in Nat
  BY FS_CardinalityType
<1>2. \A n \in S : n.base \in 0 .. Cardinality(S) - 1
  BY DEF Linear
<1>3. \A n \in S : n.base < m.base
  BY <1>1, <1>2
<1>4. m \notin S
  BY <1>1, <1>3 DEF Message
<1>5. IsFiniteSet(S \cup {m}) /\ Cardinality(S \cup {m}) = Cardinality(S) + 1
  BY <1>4, FS_AddElement
<1>6. {n.base : n \in S \cup {m}} = {n.base : n \in S} \cup {m.base}
  OBVIOUS
<1>7. {n.base : n \in S \cup {m}} = 0 .. Cardinality(S \cup {m}) - 1
  BY <1>1, <1>5, <1>6 DEF Linear
<1>8. \A k, n \in S \cup {m} : k.base = n.base => k = n
  BY <1>1, <1>3 DEF Linear, Message
<1> QED
  BY <1>3, <1>4, <1>5, <1>7, <1>8 DEF Linear

(* Such a set that is not empty has a message with the last base.          *)
LEMMA LinearNewest ==
  ASSUME NEW S \in SUBSET Message, IsFiniteSet(S), Linear(S), S # {}
  PROVE  \E m \in S : m.base = Cardinality(S) - 1
<1>1. Cardinality(S) \in Nat /\ Cardinality(S) # 0
  BY FS_CardinalityType, FS_EmptySet
<1>2. Cardinality(S) - 1 \in {n.base : n \in S}
  BY <1>1 DEF Linear
<1> QED
  BY <1>2

Manifest == [version : Nat, last : Message \cup {NoMessage}, release : Releases]

(* Writing the manifest moves its version and its last message only.       *)
LEMMA ManifestMoves ==
  ASSUME manifest \in Manifest, NEW v \in Nat, NEW m \in Message,
         manifest' = [manifest EXCEPT !.version = v, !.last = m]
  PROVE  /\ manifest' \in Manifest
         /\ manifest'.version = v /\ manifest'.last = m
         /\ manifest'.release = manifest.release
<1>1. manifest' \in Manifest
  BY DEF Manifest
<1>2. manifest'.version = v
  BY DEF Manifest
<1>3. manifest'.last = m
  BY DEF Manifest
<1>4. manifest'.release = manifest.release
  BY DEF Manifest
<1> QED
  BY <1>1, <1>2, <1>3, <1>4

-----------------------------------------------------------------------------
(* What the type invariant and the log invariant say in a usable form.     *)
LEMMA Facts ==
  ASSUME StoreInv
  PROVE  /\ commits \subseteq Message /\ prepares \subseteq Message
         /\ messages \subseteq Message /\ todo \subseteq Message
         /\ IsFiniteSet(commits) /\ Linear(commits)
         /\ Cardinality(commits) \in Nat /\ Version \in Nat
         /\ Version \in {Cardinality(commits), Cardinality(commits) - 1}
         /\ \A m \in commits : m.base \in Nat /\ m.base < Cardinality(commits)
         /\ \A p \in Procs : lock = p => Holds(p)
         /\ "free" \notin Procs /\ "orphan" \notin Procs
<1>1. /\ commits \subseteq Message /\ prepares \subseteq Message
      /\ messages \subseteq Message /\ todo \subseteq Message /\ Version \in Nat
  BY DEF StoreInv, TypeOK, Version
<1>2. /\ IsFiniteSet(commits) /\ Linear(commits)
      /\ Version \in {Cardinality(commits), Cardinality(commits) - 1}
  BY DEF StoreInv, LogInv, ChainIsLinear, Linear, Version
<1>3. Cardinality(commits) \in Nat
  BY <1>2, FS_CardinalityType
<1>4. \A m \in commits : m.base \in 0 .. Cardinality(commits) - 1
  BY <1>2 DEF Linear
<1>5. \A m \in commits : m.base \in Nat /\ m.base < Cardinality(commits)
  BY <1>3, <1>4
<1>6. "free" \notin Procs /\ "orphan" \notin Procs
  BY DEF StoreInv, SessionAssumption
<1> QED
  BY <1>1, <1>2, <1>3, <1>5, <1>6 DEF StoreInv

(* A step that leaves the files and the manifest's version alone keeps     *)
(* what is said of them,                                                   *)
LogState == <<prepares, messages, commits, torn, manifest>>

LEMMA LogUnchanged ==
  ASSUME LogInv, UNCHANGED LogState, acked' \subseteq commits
  PROVE  LogInv'
BY DEF LogInv, LogState, ChainIsLinear, Uncommitted, Prepared, Version

(* and what is said of a lock holder that does not move.                   *)
LEMMA HoldsUnchanged ==
  ASSUME NEW p, Holds(p), UNCHANGED LogState, todo' = todo,
         UNCHANGED <<pc[p], op[p], release[p], seen[p], msg[p]>>
  PROVE  Holds(p)'
<1> USE DEF LogState
<1>1. Uncommitted' = Uncommitted /\ Prepared' = Prepared /\ Version' = Version
  BY DEF Uncommitted, Prepared, Version
<1>2. (Oldest(todo))' = Oldest(todo)
  BY DEF Oldest
<1>3. Replays(p)'
  BY <1>1, <1>2 DEF Holds, Replays
<1>4. Appends(p)'
  BY <1>1 DEF Holds, Appends
<1> QED
  BY <1>3, <1>4 DEF Holds

(* A step of a process without the lock is no concern of the holder's.     *)
LEMMA Outside ==
  ASSUME StoreInv, NEW p \in Procs, lock # p,
         UNCHANGED LogState, UNCHANGED <<lock, todo, acked>>,
         \A q \in Procs \ {p} : UNCHANGED <<pc[q], op[q], release[q], seen[q], msg[q]>>,
         TypeOK', CallsOK', CreationInv'
  PROVE  StoreInv'
<1>1. LogInv'
  BY LogUnchanged DEF StoreInv, LogInv
<1>2. ASSUME NEW q \in Procs, lock' = q PROVE Holds(q)'
  <2>1. lock = q /\ q # p
    BY <1>2
  <2>2. Holds(q)
    BY <2>1 DEF StoreInv
  <2> QED
    BY <2>1, <2>2, HoldsUnchanged
<1> QED
  BY <1>1, <1>2 DEF StoreInv

(* A step of the holder keeps the lock and its promises, or gives it up.   *)
LEMMA Inside ==
  ASSUME SessionAssumption, TypeOK', CallsOK', CreationInv', LogInv', NEW p \in Procs,
         \/ lock' = p /\ Holds(p)'
         \/ lock' \notin Procs /\ todo' = {}
  PROVE  StoreInv'
BY DEF StoreInv

(* Past the check of the manifest there is one.                            *)
LEMMA HolderIsPastCreation ==
  ASSUME StoreInv, NEW p \in Procs, lock = p, pc[p] # "load"
  PROVE  session = "created"
BY DEF StoreInv, CreationInv

(* A step of the holder in a session that is created leaves it that way.   *)
LEMMA CreatedStays ==
  ASSUME CreationInv, session = "created", session' = "created", NEW p \in Procs,
         pc' = [pc EXCEPT ![p] = pc'[p]], pc \in [Procs -> PCs],
         pc'[p] \notin {"open_manifest", "fill_manifest"}
  PROVE  CreationInv'
<1>1. \A q \in Procs : pc'[q] \notin {"open_manifest", "fill_manifest"}
  BY DEF CreationInv
<1> QED
  BY <1>1 DEF CreationInv
-----------------------------------------------------------------------------
(* A new store: nothing on disk, and nobody at work.                       *)
LEMMA InitEstablishes ==
  ASSUME SessionAssumption, Init
  PROVE  StoreInv
<1> USE DEF Init
<1>1. TypeOK
  BY DEF SessionAssumption, TypeOK, PCs, Unlocked
<1>2. CallsOK
  BY DEF CallsOK
<1>3. LogInv
  <2>1. IsFiniteSet(commits) /\ Cardinality(commits) = 0
    BY FS_EmptySet
  <2>2. ChainIsLinear
    BY <2>1 DEF ChainIsLinear
  <2> QED
    BY <2>1, <2>2 DEF LogInv, Uncommitted, Prepared, Version
<1>4. lock \notin Procs
  BY DEF SessionAssumption
<1>5. CreationInv
  BY <1>4 DEF CreationInv, Version
<1> QED
  BY <1>1, <1>3, <1>2, <1>4, <1>5 DEF StoreInv

(* The steps of processes that do not hold the lock.                       *)
LEMMA CallStep ==
  ASSUME StoreInv, NEW p \in Procs, CallCreate(p) \/ CallContext(p) \/ CallAppend(p)
  PROVE  StoreInv'
<1> USE DEF CallCreate, CallContext, CallAppend, Call, At, Go, files
<1>1. lock # p
  BY DEF StoreInv, TypeOK, Unlocked
<1>2. TypeOK'
  BY <1>1 DEF StoreInv, TypeOK, PCs, Unlocked
<1>3. CallsOK'
  BY DEF StoreInv, TypeOK, CallsOK
<1>4. CreationInv'
  BY <1>1 DEF StoreInv, TypeOK, CreationInv, Version
<1> QED
  BY <1>1, <1>2, <1>3, <1>4, Outside DEF LogState, StoreInv, TypeOK

(* Of all processes only the one whose mkdir succeeds fills the manifest,  *)
(* and it does so before anything else is in the directory.                *)
LEMMA CreateStep ==
  ASSUME StoreInv, NEW p \in Procs, MakeDirectory(p) \/ RefuseExisting(p) \/ OpenManifest(p)
  PROVE  StoreInv'
<1> USE DEF MakeDirectory, RefuseExisting, OpenManifest, At, Go, files
<1>1. lock # p
  BY DEF StoreInv, TypeOK, Unlocked
<1>2. TypeOK'
  BY <1>1 DEF StoreInv, TypeOK, PCs, Unlocked
<1>3. CallsOK'
  BY DEF StoreInv, TypeOK, CallsOK
<1>4. CreationInv'
  <2>1. CASE MakeDirectory(p)
    BY <1>1, <2>1 DEF StoreInv, TypeOK, CreationInv, Version
  <2>2. CASE RefuseExisting(p)
    BY <1>1, <2>2 DEF StoreInv, TypeOK, CreationInv, Version
  <2>3. CASE OpenManifest(p)
    BY <1>1, <2>3 DEF StoreInv, TypeOK, CreationInv, Version
  <2> QED
    BY <2>1, <2>2, <2>3
<1> QED
  BY <1>1, <1>2, <1>3, <1>4, Outside DEF LogState, StoreInv, TypeOK

(* The manifest is filled when the log is empty; who waits for it with the *)
(* lock in hand has not looked at it yet.                                  *)
LEMMA FillManifestStep ==
  ASSUME StoreInv, NEW p \in Procs, FillManifest(p)
  PROVE  StoreInv'
<1> USE DEF FillManifest, At, Go, files
<1>1. lock # p /\ session = "torn"
  BY DEF StoreInv, TypeOK, CreationInv, Unlocked
<1>2. /\ Version = 0 /\ todo = {} /\ acked = {}
      /\ prepares = {} /\ messages = {} /\ commits = {} /\ torn = {}
      /\ \A q \in Procs : lock = q => pc[q] = "load"
  BY <1>1 DEF StoreInv, CreationInv
<1>3. TypeOK'
  BY <1>1 DEF StoreInv, TypeOK, PCs, Unlocked
<1>4. CallsOK'
  BY DEF StoreInv, CallsOK
<1>5. CreationInv'
  <2>1. \A q \in Procs : pc'[q] \notin {"open_manifest", "fill_manifest"}
    BY <1>1 DEF StoreInv, TypeOK, CreationInv
  <2> QED
    BY <2>1 DEF CreationInv
<1>6. LogInv'
  <2>1. Uncommitted' = {} /\ Version' = 0
    BY <1>2 DEF Uncommitted, Prepared, Version
  <2>2. IsFiniteSet(commits') /\ Cardinality(commits') = 0
    BY <1>2, FS_EmptySet
  <2>3. ChainIsLinear'
    BY <1>2, <2>2 DEF ChainIsLinear
  <2> QED
    BY <1>2, <2>1, <2>2, <2>3 DEF LogInv
<1>7. ASSUME NEW q \in Procs, lock' = q PROVE Holds(q)'
  <2>1. pc'[q] = "load" /\ todo' = {}
    BY <1>1, <1>2, <1>7 DEF StoreInv, TypeOK
  <2> QED
    BY <2>1 DEF Holds, Replays, Appends, Replaying, Writing, Preparing, Unlocked
<1> QED
  BY <1>2, <1>3, <1>4, <1>5, <1>6, <1>7 DEF StoreInv

LEMMA WaitStep ==
  ASSUME StoreInv, NEW p \in Procs, EnsureDirectory(p) \/ RefuseBusy(p)
  PROVE  StoreInv'
<1> USE DEF At, Go, files
<1>1. lock # p
  BY DEF EnsureDirectory, RefuseBusy, StoreInv, TypeOK, Unlocked
<1>2. TypeOK'
  <2>1. CASE EnsureDirectory(p)
    BY <1>1, <2>1 DEF EnsureDirectory, StoreInv, TypeOK, PCs, Unlocked
  <2>2. CASE RefuseBusy(p)
    BY <1>1, <2>2 DEF RefuseBusy, StoreInv, TypeOK, PCs, Unlocked
  <2> QED
    BY <2>1, <2>2
<1>3. CallsOK'
  BY DEF EnsureDirectory, RefuseBusy, StoreInv, CallsOK
<1>4. CreationInv'
  <2>1. CASE EnsureDirectory(p)
    BY <1>1, <2>1 DEF EnsureDirectory, StoreInv, TypeOK, CreationInv, Version
  <2>2. CASE RefuseBusy(p)
    BY <1>1, <2>2 DEF RefuseBusy, StoreInv, TypeOK, CreationInv, Version
  <2> QED
    BY <2>1, <2>2
<1>5. /\ UNCHANGED LogState /\ UNCHANGED <<lock, todo, acked, op, release, seen, msg>>
      /\ \A q \in Procs \ {p} : pc'[q] = pc[q]
  BY DEF EnsureDirectory, RefuseBusy, LogState, StoreInv, TypeOK
<1> QED
  BY <1>1, <1>2, <1>3, <1>4, <1>5, Outside

LEMMA AcquireLockStep ==
  ASSUME StoreInv, NEW p \in Procs, AcquireLock(p)
  PROVE  StoreInv'
<1> USE DEF AcquireLock, At, Go, files
<1>1. todo = {} /\ lock = "free" /\ pc'[p] = "load"
  BY Facts DEF StoreInv, TypeOK
<1>2. TypeOK'
  BY Facts DEF StoreInv, TypeOK, PCs, Unlocked
<1>3. CallsOK'
  BY DEF StoreInv, CallsOK
<1>4. CreationInv'
  BY DEF StoreInv, TypeOK, CreationInv, Version
<1>5. LogInv'
  BY LogUnchanged DEF StoreInv, LogInv, LogState
<1>6. Holds(p)'
  BY <1>1 DEF Holds, Replays, Appends, Replaying, Writing, Preparing, Unlocked
<1> QED
  BY <1>2, <1>3, <1>4, <1>5, <1>6, Inside DEF StoreInv

(* Loading lists the whole log for replay.                                 *)
LEMMA LoadLogStep ==
  ASSUME StoreInv, NEW p \in Procs, LoadLog(p)
  PROVE  StoreInv'
<1> USE DEF LoadLog, At, Go, files
<1>1. lock = p /\ lock' = p /\ pc' = [pc EXCEPT ![p] = "replay"] /\ pc'[p] = "replay"
  BY DEF StoreInv, TypeOK, Unlocked
<1>2. todo' = Prepared
  BY DEF StoreInv, TypeOK, Prepared
<1>3. TypeOK'
  BY <1>1, <1>2 DEF StoreInv, TypeOK, PCs, Unlocked, Prepared
<1>4. CallsOK'
  BY DEF StoreInv, CallsOK
<1>5. CreationInv'
  BY <1>1, CreatedStays DEF StoreInv, TypeOK
<1>6. LogInv'
  BY LogUnchanged DEF StoreInv, LogInv, LogState
<1>7. Version = Cardinality(commits) \/ \E m \in commits : m.base = Version
  BY Facts, LinearNewest, FS_EmptySet
<1>8. commits \subseteq Prepared
  BY Facts DEF StoreInv, LogInv, Prepared
<1>9. Prepared' = Prepared /\ Uncommitted' = Uncommitted /\ Version' = Version
  BY DEF Prepared, Uncommitted, Version
<1>10. Holds(p)'
  BY <1>1, <1>2, <1>7, <1>8, <1>9
     DEF Holds, Replays, Appends, Replaying, Writing, Preparing, Unlocked, Uncommitted
<1> QED
  BY <1>1, <1>3, <1>4, <1>5, <1>6, <1>10, Inside DEF StoreInv

(* A refusal, an error or the end of a call gives the lock back.           *)
LEMMA LeaveStep ==
  ASSUME StoreInv, NEW p \in Procs, lock = p, UNCHANGED <<session, LogState, faults>>,
         pc' = [pc EXCEPT ![p] = "idle"], lock' = "free", todo' = {},
         acked' \subseteq commits, UNCHANGED <<op, release, msg>>,
         seen' \in [Procs -> Nat \cup {-1}], session # "created" => acked' = {}
  PROVE  StoreInv'
<1> USE DEF LogState
<1>1. pc'[p] = "idle" /\ \A q \in Procs \ {p} : pc'[q] = pc[q] /\ lock # q
  BY DEF StoreInv, TypeOK
<1>2. TypeOK'
  <2>1. \A q \in Procs : pc'[q] \notin Unlocked <=> lock' = q
    BY <1>1, Facts DEF StoreInv, TypeOK, Unlocked
  <2>2. acked' \subseteq Message
    BY Facts
  <2>3. pc' \in [Procs -> PCs]
    BY DEF StoreInv, TypeOK, PCs, Unlocked
  <2> QED
    BY <2>1, <2>2, <2>3 DEF StoreInv, TypeOK
<1>3. CallsOK'
  BY DEF StoreInv, CallsOK
<1>4. CreationInv'
  BY <1>1, Facts DEF StoreInv, CreationInv, Version
<1>5. LogInv'
  BY LogUnchanged DEF StoreInv
<1>6. lock' \notin Procs
  BY Facts
<1> QED
  BY <1>2, <1>3, <1>4, <1>5, <1>6, Inside DEF StoreInv

LEMMA RefuseStep ==
  ASSUME StoreInv, NEW p \in Procs,
         RefuseUncreated(p) \/ ReplayFails(p) \/ RefuseAppend(p)
  PROVE  StoreInv'
<1> USE DEF RefuseUncreated, ReplayFails, RefuseAppend, Leave, At, Go, files
<1>1. lock = p
  BY DEF StoreInv, TypeOK, Unlocked
<1> QED
  BY <1>1, LeaveStep DEF LogState, StoreInv, LogInv, TypeOK, CreationInv

LEMMA ReturnContextStep ==
  ASSUME StoreInv, NEW p \in Procs, ReturnContext(p)
  PROVE  StoreInv'
<1> USE DEF ReturnContext, At, Go, files
<1>1. lock = p /\ todo' = {}
  BY DEF StoreInv, TypeOK, Unlocked
<1>2. seen' \in [Procs -> Nat \cup {-1}]
  BY DEF StoreInv, TypeOK
<1> QED
  BY <1>1, <1>2, LeaveStep DEF LogState, StoreInv, LogInv, CreationInv

LEMMA ReturnMessageStep ==
  ASSUME StoreInv, NEW p \in Procs, ReturnMessage(p)
  PROVE  StoreInv'
<1> USE DEF ReturnMessage, At, Go, files
<1>1. lock = p
  BY DEF StoreInv, TypeOK, Unlocked
<1>2. todo' = {} /\ msg[p] \in commits /\ session = "created"
  BY <1>1, HolderIsPastCreation DEF StoreInv, Holds, Appends, Writing, PCs, Unlocked
<1>3. seen' \in [Procs -> Nat \cup {-1}]
  BY DEF StoreInv, TypeOK
<1> QED
  BY <1>1, <1>2, <1>3, LeaveStep DEF LogState, StoreInv, LogInv

-----------------------------------------------------------------------------
(* Replay.  An append without a commit record is undone, its message first, *)
LEMMA UndoMessageStep ==
  ASSUME StoreInv, NEW p \in Procs, UndoMessage(p)
  PROVE  StoreInv'
<1> DEFINE m == Oldest(todo)
<1>1. /\ pc[p] = "replay" /\ todo # {} /\ <<"prepare", m>> \notin torn /\ m \notin commits
      /\ messages' = messages \ {m} /\ pc' = [pc EXCEPT ![p] = "undo_prepare"]
      /\ UNCHANGED <<session, manifest, prepares, commits, torn, lock, op, release, seen,
                     msg, todo, acked, faults>>
  BY DEF UndoMessage, Unreadable, IsTorn, HasCommitFile, At, Go
<1>2. (Oldest(todo))' = m
  BY <1>1 DEF Oldest
<1> HIDE DEF m
<1>3. lock = p /\ lock' = p /\ pc'[p] = "undo_prepare"
  BY <1>1 DEF StoreInv, TypeOK, Unlocked
<1>4. session = "created" /\ Holds(p)
  BY <1>1, <1>3, HolderIsPastCreation DEF StoreInv
<1>5. TypeOK'
  BY <1>1, <1>3 DEF StoreInv, TypeOK, PCs, Unlocked
<1>6. CallsOK'
  BY <1>1 DEF StoreInv, CallsOK
<1>7. CreationInv'
  BY <1>1, <1>3, <1>4, CreatedStays DEF StoreInv, TypeOK
<1>8. Prepared' = Prepared /\ Uncommitted' = Uncommitted /\ Version' = Version
  BY <1>1 DEF Prepared, Uncommitted, Version
<1>9. LogInv'
  BY <1>1, <1>8 DEF StoreInv, LogInv, ChainIsLinear
<1>10. Replays(p)'
  BY <1>1, <1>2, <1>3, <1>4, <1>8 DEF Holds, Replays, Replaying
<1>11. Appends(p)'
  BY <1>3 DEF Appends, Writing, Preparing
<1> QED
  BY <1>3, <1>5, <1>6, <1>7, <1>9, <1>10, <1>11, Inside DEF Holds, StoreInv

(* then its prepare file;                                                  *)
LEMMA UndoPrepareStep ==
  ASSUME StoreInv, NEW p \in Procs, UndoPrepare(p)
  PROVE  StoreInv'
<1> DEFINE m == Oldest(todo)
<1>1. /\ pc[p] = "undo_prepare" /\ prepares' = prepares \ {m} /\ todo' = todo \ {m}
      /\ pc' = [pc EXCEPT ![p] = "replay"]
      /\ UNCHANGED <<session, manifest, messages, commits, torn, lock, op, release, seen,
                     msg, acked, faults>>
  BY DEF UndoPrepare, At, Go
<1>2. lock = p /\ lock' = p /\ pc'[p] = "replay"
  BY <1>1 DEF StoreInv, TypeOK, Unlocked
<1>3. session = "created" /\ Holds(p)
  BY <1>1, <1>2, HolderIsPastCreation DEF StoreInv
<1>4. m \notin commits /\ <<"prepare", m>> \notin torn
  BY <1>1, <1>3 DEF Holds, Replays
<1> HIDE DEF m
<1>5. TypeOK'
  BY <1>1, <1>2 DEF StoreInv, TypeOK, PCs, Unlocked
<1>6. CallsOK'
  BY <1>1 DEF StoreInv, CallsOK
<1>7. CreationInv'
  BY <1>1, <1>2, <1>3, CreatedStays DEF StoreInv, TypeOK
<1>8. Prepared' = Prepared \ {m} /\ Uncommitted' = Uncommitted \ {m} /\ Version' = Version
  BY <1>1, <1>4 DEF Prepared, Uncommitted, Version
<1>9. LogInv'
  BY <1>1, <1>4, <1>8 DEF StoreInv, LogInv, ChainIsLinear
<1>10. Replays(p)'
  BY <1>1, <1>2, <1>3, <1>4, <1>8 DEF Holds, Replays, Replaying
<1>11. Appends(p)'
  BY <1>2 DEF Appends, Writing, Preparing
<1> QED
  BY <1>2, <1>5, <1>6, <1>7, <1>9, <1>10, <1>11, Inside DEF Holds, StoreInv

(* the replay of a commit moves the manifest only from just before it,     *)
(* which can only be the newest commit.                                    *)
LEMMA RedoMovesToTheEnd ==
  ASSUME StoreInv, NEW m \in commits, Version = m.base
  PROVE  Version = Cardinality(commits) - 1 /\ Uncommitted = {}
<1>1. Version # Cardinality(commits)
  BY Facts
<1>2. Uncommitted = {}
  BY <1>1 DEF StoreInv, LogInv
<1> QED
  BY <1>1, <1>2, Facts

LEMMA RedoStep ==
  ASSUME StoreInv, NEW p \in Procs, Redo(p)
  PROVE  StoreInv'
<1> DEFINE m == Oldest(todo)
<1>1. /\ pc[p] = "replay" /\ todo # {} /\ m \in commits /\ todo' = todo \ {m}
      /\ manifest' = IF manifest.version = m.base
                     THEN [manifest EXCEPT !.version = m.base + 1, !.last = m]
                     ELSE manifest
      /\ UNCHANGED <<session, prepares, messages, commits, torn, lock, pc, op, release,
                     seen, msg, acked, faults>>
  BY DEF Redo, At, files, procs
<1> HIDE DEF m
<1>2. lock = p /\ lock' = p /\ pc'[p] = "replay"
  BY <1>1 DEF StoreInv, TypeOK, Unlocked
<1>3. session = "created" /\ Holds(p)
  BY <1>1, <1>2, HolderIsPastCreation DEF StoreInv
<1>4. m \in Message /\ m.base \in Nat /\ m.base + 1 \in Nat
  BY <1>1, Facts
<1>5. manifest \in Manifest
  BY DEF StoreInv, TypeOK, Manifest
<1>6. /\ Version = m.base => Version' = m.base + 1 /\ manifest'.last = m
      /\ Version # m.base => manifest' = manifest /\ Version' = Version
      /\ manifest' \in Manifest
  <2>1. CASE manifest.version = m.base
    <3>1. manifest' = [manifest EXCEPT !.version = m.base + 1, !.last = m]
      BY <1>1, <2>1
    <3>2. /\ manifest'.version = m.base + 1 /\ manifest'.last = m
          /\ manifest' \in Manifest
      <4>1. PICK v \in Nat, n \in Message : v = m.base + 1 /\ n = m
        BY <1>4
      <4>2. manifest' = [manifest EXCEPT !.version = v, !.last = n]
        BY <3>1, <4>1
      <4> QED
        BY <1>5, <4>1, <4>2, ManifestMoves
    <3> QED
      BY <2>1, <3>2 DEF Version
  <2>2. CASE manifest.version # m.base
    BY <1>1, <1>5, <2>2 DEF Version
  <2> QED
    BY <2>1, <2>2 DEF Version
<1>7. TypeOK'
  BY <1>1, <1>2, <1>6 DEF StoreInv, TypeOK, Manifest
<1>8. CallsOK'
  BY <1>1 DEF StoreInv, CallsOK
<1>9. CreationInv'
  BY <1>1, <1>3 DEF StoreInv, CreationInv
<1>10. Prepared' = Prepared /\ Uncommitted' = Uncommitted
  BY <1>1 DEF Prepared, Uncommitted
<1>11. Version = m.base => Version' = Cardinality(commits) /\ Uncommitted = {}
  BY <1>1, <1>4, <1>6, RedoMovesToTheEnd, Facts
<1>12. LogInv'
  <2>1. CASE Version = m.base
    <3>1. ChainIsLinear'
      BY <1>1, <1>6, <1>11, <2>1 DEF StoreInv, LogInv, ChainIsLinear, Version
    <3> QED
      BY <1>1, <1>4, <1>6, <1>10, <1>11, <2>1, <3>1 DEF StoreInv, LogInv
  <2>2. CASE Version # m.base
    BY <1>1, <1>6, <2>2, LogUnchanged DEF StoreInv, LogInv, LogState
  <2> QED
    BY <2>1, <2>2
<1>13. Replays(p)'
  BY <1>1, <1>2, <1>3, <1>6, <1>10, <1>11 DEF Holds, Replays, Replaying, Uncommitted
<1>14. Appends(p)'
  BY <1>2 DEF Appends, Writing, Preparing, PCs, Unlocked
<1> QED
  BY <1>2, <1>7, <1>8, <1>9, <1>12, <1>13, <1>14, Inside DEF Holds, StoreInv

-----------------------------------------------------------------------------
(* Appending.  The checks leave a message that comes next after the        *)
(* version the caller's context had.                                       *)
LEMMA AcceptAppendStep ==
  ASSUME StoreInv, NEW p \in Procs, AcceptAppend(p)
  PROVE  StoreInv'
<1>1. PICK n \in Nonces : msg' = [msg EXCEPT ![p] = [base |-> manifest.version, nonce |-> n]]
  BY DEF AcceptAppend
<1>2. /\ pc[p] = "replay" /\ todo = {} /\ op[p] = "append" /\ manifest.release = release[p]
      /\ Version = seen[p] /\ pc' = [pc EXCEPT ![p] = "open_prepare"]
      /\ UNCHANGED <<session, manifest, prepares, messages, commits, torn, lock, op, release,
                     seen, todo, acked, faults>>
  BY DEF AcceptAppend, At, Go, files, Version
<1>3. lock = p /\ lock' = p /\ pc'[p] = "open_prepare"
  BY <1>2 DEF StoreInv, TypeOK, Unlocked
<1>4. session = "created" /\ Holds(p)
  BY <1>2, <1>3, HolderIsPastCreation DEF StoreInv
<1>5. Version = Cardinality(commits) /\ Uncommitted = {}
  BY <1>2, <1>4 DEF Holds, Replays, Replaying
<1>6. msg'[p] \in Message /\ msg'[p].base = Version
  BY <1>1, Facts DEF StoreInv, CallsOK, Message, Version
<1>7. TypeOK'
  BY <1>2, <1>3 DEF StoreInv, TypeOK, PCs, Unlocked
<1>8. CallsOK'
  BY <1>1, <1>6 DEF StoreInv, CallsOK
<1>9. CreationInv'
  BY <1>2, <1>3, <1>4, CreatedStays DEF StoreInv, TypeOK
<1>10. Prepared' = Prepared /\ Uncommitted' = {} /\ Version' = Version
  BY <1>2, <1>5 DEF Prepared, Uncommitted, Version
<1>11. LogInv'
  BY <1>2, LogUnchanged DEF StoreInv, LogInv, LogState
<1>12. Replays(p)'
  BY <1>3 DEF Replays, Replaying
<1>13. Appends(p)'
  BY <1>2, <1>3, <1>5, <1>6, <1>10 DEF Appends, Preparing, Writing, PCs, Unlocked
<1> QED
  BY <1>3, <1>7, <1>8, <1>9, <1>11, <1>12, <1>13, Inside DEF Holds, StoreInv

(* What holds from the first file of an append to the commit record.       *)
LEMMA WhilePreparing ==
  ASSUME StoreInv, NEW p \in Procs, pc[p] \in Preparing
  PROVE  /\ lock = p /\ todo = {} /\ op[p] = "append" /\ session = "created"
         /\ msg[p] \in Message /\ msg[p].base = Version /\ Version = Cardinality(commits)
         /\ msg[p].base = seen[p] /\ manifest.release = release[p]
         /\ msg[p] \notin commits /\ Uncommitted \subseteq {msg[p]}
         /\ Appends(p)
<1>1. lock = p
  BY DEF StoreInv, TypeOK, Unlocked, Preparing
<1>2. session = "created" /\ Appends(p)
  BY <1>1, HolderIsPastCreation DEF StoreInv, Holds, Preparing
<1>3. pc[p] \in Writing
  BY DEF Preparing, Writing, PCs, Unlocked
<1>4. /\ msg[p] \in Message /\ msg[p].base = Version /\ Version = Cardinality(commits)
  BY <1>2, <1>3 DEF Appends
<1>5. msg[p] \notin commits
  BY <1>4, Facts
<1> QED
  BY <1>1, <1>2, <1>3, <1>4, <1>5 DEF Appends

(* Opening a file leaves it torn until it is filled: the prepare file is   *)
(* from then on something that a replay will find.                         *)
LEMMA OpenStep ==
  ASSUME StoreInv, NEW p \in Procs, OpenPrepare(p) \/ OpenMessage(p) \/ OpenCommit(p)
  PROVE  StoreInv'
<1>1. PICK kind \in {"prepare", "message", "commit"}, there \in Preparing \ {"open_prepare"} :
        /\ torn' = torn \cup {<<kind, msg[p]>>} /\ pc' = [pc EXCEPT ![p] = there]
        /\ there # "write_prepare" => pc[p] \notin {"open_prepare", "write_prepare"}
        /\ there \in {"open_commit", "write_commit"} => pc[p] = "open_commit"
        /\ pc[p] \in Preparing
        /\ UNCHANGED <<session, manifest, prepares, messages, commits, lock, op, release,
                       seen, msg, todo, acked, faults>>
  BY DEF OpenPrepare, OpenMessage, OpenCommit, Open, At, Go, Preparing
<1>2. lock = p /\ lock' = p /\ pc'[p] = there
  BY <1>1, WhilePreparing DEF StoreInv, TypeOK
<1>3. TypeOK'
  <2>1. \A q \in Procs : pc'[q] \notin Unlocked <=> lock' = q
    BY <1>1, <1>2 DEF StoreInv, TypeOK, Unlocked, Preparing
  <2>2. torn' \subseteq {"prepare", "message", "commit"} \X Message
    BY <1>1, WhilePreparing DEF StoreInv, TypeOK
  <2>3. pc' \in [Procs -> PCs]
    BY <1>1 DEF StoreInv, TypeOK, PCs, Preparing
  <2> QED
    BY <1>1, <2>1, <2>2, <2>3 DEF StoreInv, TypeOK
<1>4. CallsOK'
  BY <1>1 DEF StoreInv, CallsOK
<1>5. CreationInv'
  BY <1>1, <1>2, WhilePreparing, CreatedStays DEF StoreInv, TypeOK, Preparing
<1>6. Uncommitted' \subseteq {msg[p]} /\ Version' = Version
  BY <1>1, WhilePreparing DEF Uncommitted, Prepared, Version
<1>7. LogInv'
  BY <1>1, <1>6, WhilePreparing DEF StoreInv, LogInv, ChainIsLinear
<1>8. Replays(p)'
  BY <1>2 DEF Replays, Replaying, Preparing
<1>9. Appends(p)'
  BY <1>1, <1>2, <1>6, WhilePreparing DEF Appends, Preparing, Writing, PCs, Unlocked
<1> QED
  BY <1>2, <1>3, <1>4, <1>5, <1>7, <1>8, <1>9, Inside DEF Holds, StoreInv

LEMMA WritePrepareStep ==
  ASSUME StoreInv, NEW p \in Procs, WritePrepare(p)
  PROVE  StoreInv'
<1>1. /\ pc[p] = "write_prepare" /\ prepares' = prepares \cup {msg[p]}
      /\ torn' = torn \ {<<"prepare", msg[p]>>} /\ pc' = [pc EXCEPT ![p] = "open_message"]
      /\ UNCHANGED <<session, manifest, messages, commits, lock, op, release, seen, msg,
                     todo, acked, faults>>
  BY DEF WritePrepare, At, Go
<1>2. pc[p] \in Preparing
  BY <1>1 DEF Preparing
<1>3. lock = p /\ lock' = p /\ pc'[p] = "open_message"
  BY <1>1, <1>2, WhilePreparing DEF StoreInv, TypeOK
<1>4. TypeOK'
  BY <1>1, <1>2, <1>3, WhilePreparing DEF StoreInv, TypeOK, PCs, Unlocked
<1>5. CallsOK'
  BY <1>1 DEF StoreInv, CallsOK
<1>6. CreationInv'
  BY <1>1, <1>2, <1>3, WhilePreparing, CreatedStays DEF StoreInv, TypeOK
<1>7. Uncommitted' \subseteq {msg[p]} /\ Version' = Version
  BY <1>1, <1>2, WhilePreparing DEF Uncommitted, Prepared, Version
<1>8. LogInv'
  BY <1>1, <1>2, <1>7, WhilePreparing DEF StoreInv, LogInv, ChainIsLinear
<1>9. Replays(p)'
  BY <1>3 DEF Replays, Replaying
<1>10. Appends(p)'
  BY <1>1, <1>2, <1>3, <1>7, WhilePreparing DEF Appends, Preparing, Writing, PCs, Unlocked
<1> QED
  BY <1>3, <1>4, <1>5, <1>6, <1>8, <1>9, <1>10, Inside DEF Holds, StoreInv

LEMMA WriteMessageStep ==
  ASSUME StoreInv, NEW p \in Procs, WriteMessage(p)
  PROVE  StoreInv'
<1>1. /\ pc[p] = "write_message" /\ messages' = messages \cup {msg[p]}
      /\ torn' = torn \ {<<"message", msg[p]>>} /\ pc' = [pc EXCEPT ![p] = "open_commit"]
      /\ UNCHANGED <<session, manifest, prepares, commits, lock, op, release, seen, msg,
                     todo, acked, faults>>
  BY DEF WriteMessage, At, Go
<1>2. pc[p] \in Preparing
  BY <1>1 DEF Preparing
<1>3. lock = p /\ lock' = p /\ pc'[p] = "open_commit"
  BY <1>1, <1>2, WhilePreparing DEF StoreInv, TypeOK
<1>4. TypeOK'
  BY <1>1, <1>2, <1>3, WhilePreparing DEF StoreInv, TypeOK, PCs, Unlocked
<1>5. CallsOK'
  BY <1>1 DEF StoreInv, CallsOK
<1>6. CreationInv'
  BY <1>1, <1>2, <1>3, WhilePreparing, CreatedStays DEF StoreInv, TypeOK
<1>7. Uncommitted' \subseteq {msg[p]} /\ Version' = Version
  BY <1>1, <1>2, WhilePreparing DEF Uncommitted, Prepared, Version
<1>8. LogInv'
  BY <1>1, <1>2, <1>7, WhilePreparing DEF StoreInv, LogInv, ChainIsLinear
<1>9. Replays(p)'
  BY <1>3 DEF Replays, Replaying
<1>10. Appends(p)'
  BY <1>1, <1>2, <1>3, <1>7, WhilePreparing DEF Appends, Preparing, Writing, PCs, Unlocked
<1> QED
  BY <1>3, <1>4, <1>5, <1>6, <1>8, <1>9, <1>10, Inside DEF Holds, StoreInv

(* The commit record makes the chain one message longer.                   *)
LEMMA WriteCommitStep ==
  ASSUME StoreInv, NEW p \in Procs, WriteCommit(p)
  PROVE  StoreInv'
<1>1. /\ pc[p] = "write_commit" /\ commits' = commits \cup {msg[p]}
      /\ torn' = torn \ {<<"commit", msg[p]>>} /\ pc' = [pc EXCEPT ![p] = "manifest"]
      /\ UNCHANGED <<session, manifest, prepares, messages, lock, op, release, seen, msg,
                     todo, acked, faults>>
  BY DEF WriteCommit, At, Go
<1>2. pc[p] \in Preparing
  BY <1>1 DEF Preparing
<1>3. lock = p /\ lock' = p /\ pc'[p] = "manifest"
  BY <1>1, <1>2, WhilePreparing DEF StoreInv, TypeOK
<1>4. msg[p] \in prepares /\ msg[p] \in messages
  BY <1>1, <1>2, WhilePreparing DEF Appends
<1>5. /\ IsFiniteSet(commits') /\ Linear(commits')
      /\ Cardinality(commits') = Cardinality(commits) + 1
  BY <1>1, <1>2, WhilePreparing, LinearGrows, Facts
<1>6. TypeOK'
  BY <1>1, <1>2, <1>3, WhilePreparing DEF StoreInv, TypeOK, PCs, Unlocked
<1>7. CallsOK'
  BY <1>1 DEF StoreInv, CallsOK
<1>8. CreationInv'
  BY <1>1, <1>2, <1>3, WhilePreparing, CreatedStays DEF StoreInv, TypeOK
<1>9. Uncommitted' = {} /\ Version' = Version
  BY <1>1, <1>2, WhilePreparing DEF Uncommitted, Prepared, Version
<1>10. LogInv'
  <2>1. Version' = Cardinality(commits') - 1
    BY <1>2, <1>5, <1>9, WhilePreparing, Facts
  <2>2. ChainIsLinear'
    BY <1>1, <1>5, <2>1 DEF StoreInv, LogInv, ChainIsLinear, Linear, Version
  <2> QED
    BY <1>1, <1>4, <1>5, <1>9, <2>2 DEF StoreInv, LogInv
<1>11. Replays(p)'
  BY <1>3 DEF Replays, Replaying
<1>12. Appends(p)'
  BY <1>1, <1>2, <1>3, <1>5, <1>9, WhilePreparing, Facts
     DEF Appends, Preparing, Writing, PCs, Unlocked
<1> QED
  BY <1>3, <1>6, <1>7, <1>8, <1>10, <1>11, <1>12, Inside DEF Holds, StoreInv

(* The manifest follows, and the append is whole.                          *)
LEMMA WriteManifestStep ==
  ASSUME StoreInv, NEW p \in Procs, WriteManifest(p)
  PROVE  StoreInv'
<1>1. /\ pc[p] = "manifest" /\ pc' = [pc EXCEPT ![p] = "unlock"]
      /\ manifest' = [manifest EXCEPT !.version = msg[p].base + 1, !.last = msg[p]]
      /\ UNCHANGED <<session, prepares, messages, commits, torn, lock, op, release, seen,
                     msg, todo, acked, faults>>
  BY DEF WriteManifest, At, Go, files
<1>2. lock = p /\ lock' = p /\ pc'[p] = "unlock"
  BY <1>1 DEF StoreInv, TypeOK, Unlocked
<1>3. session = "created" /\ Holds(p)
  BY <1>1, <1>2, HolderIsPastCreation DEF StoreInv
<1>4. /\ op[p] = "append" /\ todo = {} /\ msg[p] \in Message
      /\ msg[p].base = seen[p] /\ manifest.release = release[p]
      /\ msg[p] \in commits /\ msg[p].base = Cardinality(commits) - 1 /\ Uncommitted = {}
  BY <1>1, <1>3 DEF Holds, Appends, Writing, PCs, Unlocked
<1>5. manifest \in Manifest /\ msg[p].base + 1 \in Nat
  BY <1>4 DEF StoreInv, TypeOK, Manifest, Message
<1>6. /\ Version' = msg[p].base + 1 /\ manifest'.last = msg[p]
      /\ manifest'.release = manifest.release
      /\ manifest' \in Manifest
  BY <1>1, <1>4, <1>5, ManifestMoves DEF Version
<1>7. TypeOK'
  BY <1>1, <1>2, <1>6 DEF StoreInv, TypeOK, PCs, Unlocked, Manifest
<1>8. CallsOK'
  BY <1>1 DEF StoreInv, CallsOK
<1>9. CreationInv'
  BY <1>1, <1>2, <1>3, CreatedStays DEF StoreInv, TypeOK
<1>10. Prepared' = Prepared /\ Uncommitted' = {}
  BY <1>1, <1>4 DEF Prepared, Uncommitted
<1>11. LogInv'
  <2>1. Version' = Cardinality(commits) /\ msg[p].base = Version' - 1
    BY <1>4, <1>6, Facts
  <2>2. ChainIsLinear'
    BY <1>1, <1>4, <1>6, <2>1 DEF StoreInv, LogInv, ChainIsLinear, Version
  <2> QED
    BY <1>1, <1>4, <1>6, <1>10, <2>1, <2>2 DEF StoreInv, LogInv
<1>12. Replays(p)'
  BY <1>2 DEF Replays, Replaying
<1>13. Appends(p)'
  BY <1>1, <1>2, <1>4, <1>6, <1>10 DEF Appends, Preparing, Writing, PCs, Unlocked
<1> QED
  BY <1>2, <1>7, <1>8, <1>9, <1>11, <1>12, <1>13, Inside DEF Holds, StoreInv

-----------------------------------------------------------------------------
(* An exception or a kill anywhere leaves the files as they stand, and     *)
(* with them everything that is said of the log.                           *)
LEMMA InterruptStep ==
  ASSUME StoreInv, NEW p \in Procs, Raise(p) \/ Kill(p)
  PROVE  StoreInv'
<1>1. /\ pc' = [pc EXCEPT ![p] = "idle"] /\ UNCHANGED <<session, manifest, files>>
      /\ UNCHANGED <<op, release, msg, acked>>
      /\ seen' = seen \/ seen' = [seen EXCEPT ![p] = -1]
      /\ faults' \in 0 .. MaxFaults
      /\ IF lock = p THEN lock' \in {"free", "orphan"} /\ todo' = {}
                     ELSE lock' = lock /\ todo' = todo
  <2>1. faults + 1 \in 0 .. MaxFaults
    BY DEF Raise, Kill, StoreInv, SessionAssumption, TypeOK
  <2> QED
    BY <2>1 DEF Raise, Kill, Go
<1>2. TypeOK'
  <2>1. \A q \in Procs : pc'[q] \notin Unlocked <=> lock' = q
    BY <1>1, Facts DEF StoreInv, TypeOK, Unlocked
  <2>2. seen' \in [Procs -> Nat \cup {-1}]
    BY <1>1 DEF StoreInv, TypeOK
  <2>3. pc' \in [Procs -> PCs]
    BY <1>1 DEF StoreInv, TypeOK, PCs, Unlocked
  <2> QED
    BY <1>1, <2>1, <2>2, <2>3 DEF files, StoreInv, TypeOK
<1>3. CallsOK'
  BY <1>1 DEF StoreInv, CallsOK
<1>4. UNCHANGED LogState
  BY <1>1 DEF LogState, files
<1>5. CreationInv'
  <2>1. \A q \in Procs : lock' = q => lock = q /\ q # p
    BY <1>1, Facts
  <2>2. pc'[p] = "idle" /\ \A q \in Procs \ {p} : pc'[q] = pc[q]
    BY <1>1 DEF StoreInv, TypeOK
  <2>3. todo = {} => todo' = {}
    BY <1>1
  <2> QED
    BY <1>1, <2>1, <2>2, <2>3 DEF StoreInv, CreationInv, Version, files
<1>6. CASE lock = p
  <2>1. LogInv'
    BY <1>1, <1>4, LogUnchanged DEF StoreInv, LogInv
  <2>2. lock' \notin Procs /\ todo' = {}
    BY <1>1, <1>6, Facts
  <2> QED
    BY <1>2, <1>3, <1>5, <2>1, <2>2, Inside DEF StoreInv
<1>7. CASE lock # p
  BY <1>1, <1>2, <1>3, <1>4, <1>5, <1>7, Outside DEF StoreInv, TypeOK
<1> QED
  BY <1>6, <1>7

LEMMA OperatorStep ==
  ASSUME StoreInv, OperatorUnlocks
  PROVE  StoreInv'
<1> USE DEF OperatorUnlocks, files, procs
<1>1. LogInv'
  BY LogUnchanged DEF StoreInv, LogInv, LogState
<1>2. TypeOK'
  BY Facts DEF StoreInv, TypeOK
<1>3. CallsOK'
  BY DEF StoreInv, CallsOK
<1>4. lock' \notin Procs /\ todo' = {}
  BY Facts DEF StoreInv
<1>5. CreationInv'
  BY <1>4 DEF StoreInv, CreationInv, Version
<1> QED
  BY <1>1, <1>2, <1>3, <1>4, <1>5 DEF StoreInv

LEMMA IdleStep ==
  ASSUME StoreInv, UNCHANGED vars
  PROVE  StoreInv'
<1> USE DEF vars, files, procs
<1>1. UNCHANGED LogState /\ LogInv'
  BY LogUnchanged DEF StoreInv, LogInv, LogState
<1>2. \A q \in Procs : lock' = q => Holds(q)'
  BY <1>1, HoldsUnchanged DEF StoreInv
<1>3. TypeOK' /\ CallsOK' /\ CreationInv'
  BY DEF StoreInv, TypeOK, CallsOK, CreationInv, Version
<1> QED
  BY <1>1, <1>2, <1>3 DEF StoreInv

LEMMA StoreStep ==
  ASSUME StoreInv, [Next]_vars
  PROVE  StoreInv'
<1>1. CASE UNCHANGED vars \/ OperatorUnlocks
  BY <1>1, IdleStep, OperatorStep
<1>2. ASSUME NEW p \in Procs,
             \/ CallCreate(p) \/ CallContext(p) \/ CallAppend(p)
             \/ Create(p) \/ Enter(p) \/ Replay(p) \/ AppendMessage(p)
             \/ Raise(p) \/ Kill(p)
      PROVE  StoreInv'
  <2>1. CASE CallCreate(p) \/ CallContext(p) \/ CallAppend(p)
    BY <2>1, CallStep
  <2>2. CASE Create(p)
    BY <2>2, CreateStep, FillManifestStep DEF Create
  <2>3. CASE Enter(p)
    BY <2>3, WaitStep, AcquireLockStep, LoadLogStep, RefuseStep DEF Enter
  <2>4. CASE Replay(p)
    BY <2>4, UndoMessageStep, UndoPrepareStep, RedoStep, RefuseStep, ReturnContextStep
       DEF Replay
  <2>5. CASE AppendMessage(p)
    BY <2>5, AcceptAppendStep, RefuseStep, OpenStep, WritePrepareStep, WriteMessageStep,
       WriteCommitStep, WriteManifestStep, ReturnMessageStep DEF AppendMessage
  <2>6. CASE Raise(p) \/ Kill(p)
    BY <2>6, InterruptStep
  <2> QED
    BY <1>2, <2>1, <2>2, <2>3, <2>4, <2>5, <2>6
<1> QED
  BY <1>1, <1>2 DEF Next

-----------------------------------------------------------------------------
(* Whatever is interrupted and retried, the invariant of the session's     *)
(* store holds.                                                            *)
THEOREM StoreInvariant == ASSUME SessionAssumption PROVE Spec => []StoreInv
<1>1. Init => StoreInv
  BY InitEstablishes
<1>2. StoreInv /\ [Next]_vars => StoreInv'
  BY StoreStep
<1> QED
  BY <1>1, <1>2, PTL DEF Spec

(* Files, locks and program counters keep their types.                     *)
THEOREM TypeCorrect == ASSUME SessionAssumption PROVE Spec => []TypeOK
<1>1. StoreInv => TypeOK
  BY DEF StoreInv
<1> QED
  BY <1>1, StoreInvariant, PTL

(* The log of a session is one linear history, with everything a replay    *)
(* reads beside it, and no replay meets a commit that contradicts the      *)
(* manifest; and a result is appended directly behind its context          *)
(* (append_message, _recover_unlocked).                                    *)
THEOREM SessionHolds == ASSUME SessionAssumption PROVE Spec => []SessionIsSound
<1>1. StoreInv => SessionIsSound
  <2> SUFFICES ASSUME StoreInv PROVE SessionIsSound
    OBVIOUS
  <2>1. ChainIsLinear /\ CommitsAreBacked
    BY DEF StoreInv, LogInv, CommitsAreBacked
  <2>2. ASSUME NEW p \in Procs, pc[p] = "replay", todo # {}, InventsHistory(Oldest(todo))
        PROVE  FALSE
    <3> DEFINE m == Oldest(todo)
    <3>1. m \in commits /\ Version # m.base /\ Version <= m.base + 1
          /\ ~ (Version = m.base + 1 /\ manifest.last = m)
      BY <2>2 DEF InventsHistory, Version
    <3> HIDE DEF m
    <3>2. Version = m.base + 1
      BY <3>1, Facts
    <3>3. manifest.last \in commits /\ manifest.last.base = m.base
      BY <3>1, <3>2, Facts DEF StoreInv, LogInv, ChainIsLinear, Version
    <3>4. manifest.last = m
      BY <3>1, <3>3, Facts DEF Linear
    <3> QED
      BY <3>1, <3>2, <3>4
  <2>3. ReplayNeverInventsHistory
    BY <2>2 DEF ReplayNeverInventsHistory, At
  <2>4. FollowsItsContext
    <3> SUFFICES ASSUME NEW p \in Procs, pc[p] \in Writing
                 PROVE  msg[p].base = seen[p] /\ manifest.release = release[p]
      BY DEF FollowsItsContext
    <3>1. lock = p
      BY DEF StoreInv, TypeOK, Writing, Unlocked
    <3> QED
      BY <3>1 DEF StoreInv, Holds, Appends
  <2> QED
    BY <2>1, <2>3, <2>4 DEF SessionIsSound, SessionIsReplayable
<1> QED
  BY <1>1, StoreInvariant, PTL

(* A reader never sees the session go back, and its release stays pinned   *)
(* (_write_json_replace, _recover_unlocked).                               *)
LEMMA NoStepGoesBack ==
  ASSUME StoreInv, [Next]_vars
  PROVE  /\ manifest'.version >= manifest.version
         /\ session = "created" => session' = "created" /\ manifest'.release = manifest.release
<1>1. manifest \in Manifest
  BY DEF StoreInv, TypeOK, Manifest
<1>2. ASSUME UNCHANGED <<session, manifest>>
      PROVE  manifest'.version >= manifest.version
  BY <1>1, <1>2 DEF Manifest
<1>3. ASSUME NEW p \in Procs, FillManifest(p)
      PROVE  manifest'.version >= manifest.version /\ session # "created"
  <2>1. session = "torn"
    BY <1>3 DEF StoreInv, CreationInv, FillManifest, At
  <2>2. manifest.version = 0
    BY <2>1 DEF StoreInv, CreationInv, Version
  <2> QED
    BY <1>3, <2>1, <2>2 DEF FillManifest
<1>4. ASSUME NEW p \in Procs, Redo(p)
      PROVE  manifest'.version >= manifest.version /\ manifest'.release = manifest.release
  <2> DEFINE m == Oldest(todo)
  <2>1. /\ m \in commits
        /\ manifest' = IF manifest.version = m.base
                       THEN [manifest EXCEPT !.version = m.base + 1, !.last = m]
                       ELSE manifest
    BY <1>4 DEF Redo
  <2> HIDE DEF m
  <2>2. m \in Message /\ m.base \in Nat /\ m.base + 1 \in Nat
    BY <2>1, Facts
  <2>3. CASE manifest.version = m.base
    <3>1. manifest' = [manifest EXCEPT !.version = m.base + 1, !.last = m]
      BY <2>1, <2>3
    <3>2. manifest'.version = m.base + 1 /\ manifest'.release = manifest.release
      <4>1. PICK v \in Nat, n \in Message : v = m.base + 1 /\ n = m
        BY <2>2
      <4>2. manifest' = [manifest EXCEPT !.version = v, !.last = n]
        BY <3>1, <4>1
      <4> QED
        BY <1>1, <4>1, <4>2, ManifestMoves
    <3> QED
      BY <2>2, <2>3, <3>2
  <2>4. CASE manifest.version # m.base
    BY <1>1, <2>1, <2>4 DEF Manifest
  <2> QED
    BY <2>3, <2>4
<1>5. ASSUME NEW p \in Procs, WriteManifest(p)
      PROVE  manifest'.version >= manifest.version /\ manifest'.release = manifest.release
  <2>1. lock = p
    BY <1>5 DEF WriteManifest, At, StoreInv, TypeOK, Unlocked
  <2>2. msg[p] \in Message /\ manifest.version = msg[p].base
    BY <1>5, <2>1
       DEF WriteManifest, At, StoreInv, Holds, Appends, Writing, PCs, Unlocked, Version
  <2>3. msg[p].base \in Nat /\ msg[p].base + 1 \in Nat
    BY <2>2 DEF Message
  <2>4. manifest' = [manifest EXCEPT !.version = msg[p].base + 1, !.last = msg[p]]
    BY <1>5 DEF WriteManifest
  <2>5. manifest'.version = msg[p].base + 1 /\ manifest'.release = manifest.release
    BY <1>1, <2>2, <2>3, <2>4, ManifestMoves
  <2> QED
    BY <2>2, <2>3, <2>5
<1>6. ASSUME NEW p \in Procs, MakeDirectory(p) \/ OpenManifest(p) \/ EnsureDirectory(p)
      PROVE  UNCHANGED manifest /\ (session = "created" => session' = "created")
  BY <1>6 DEF MakeDirectory, OpenManifest, EnsureDirectory, At, StoreInv, CreationInv
<1>7. ASSUME NEW p \in Procs,
             \/ CallCreate(p) \/ CallContext(p) \/ CallAppend(p) \/ RefuseExisting(p)
             \/ AcquireLock(p) \/ RefuseBusy(p) \/ LoadLog(p) \/ RefuseUncreated(p)
             \/ UndoMessage(p) \/ UndoPrepare(p) \/ ReplayFails(p) \/ ReturnContext(p)
             \/ AcceptAppend(p) \/ RefuseAppend(p) \/ OpenPrepare(p) \/ WritePrepare(p)
             \/ OpenMessage(p) \/ WriteMessage(p) \/ OpenCommit(p) \/ WriteCommit(p)
             \/ ReturnMessage(p) \/ Raise(p) \/ Kill(p)
      PROVE  UNCHANGED <<session, manifest>>
  BY <1>7 DEF CallCreate, CallContext, CallAppend, Call, RefuseExisting, AcquireLock,
              RefuseBusy, LoadLog, RefuseUncreated, Leave, UndoMessage, UndoPrepare,
              ReplayFails, ReturnContext, AcceptAppend, RefuseAppend, OpenPrepare,
              WritePrepare, OpenMessage, WriteMessage, OpenCommit, WriteCommit, Open,
              ReturnMessage, Raise, Kill
<1>8. CASE UNCHANGED vars \/ OperatorUnlocks
  BY <1>2, <1>8 DEF vars, OperatorUnlocks
<1>9. ASSUME UNCHANGED manifest
      PROVE  manifest'.version >= manifest.version /\ manifest'.release = manifest.release
  BY <1>1, <1>9 DEF Manifest
<1>10. ASSUME NEW p \in Procs, FillManifest(p) \/ Redo(p) \/ WriteManifest(p)
       PROVE  session' = session \/ session # "created"
  BY <1>10, <1>3 DEF Redo, WriteManifest
<1> QED
  BY <1>2, <1>3, <1>4, <1>5, <1>6, <1>7, <1>8, <1>9, <1>10
     DEF Next, Create, Enter, Replay, AppendMessage

THEOREM NeverRegresses == ASSUME SessionAssumption PROVE Spec => ManifestNeverRegresses
<1>1. StoreInv /\ [Next]_vars =>
        [/\ manifest'.version >= manifest.version
         /\ session = "created" =>
              session' = "created" /\ manifest'.release = manifest.release]_vars
  BY NoStepGoesBack
<1> QED
  BY <1>1, StoreInvariant, PTL DEF Spec, ManifestNeverRegresses

-----------------------------------------------------------------------------
(* The refinement.  The log a session promises is the chain of its commit  *)
(* records; the manifest counts how many of them are shown.                *)
EntryOf(S, i) == CHOOSE m \in S : m.base = i - 1
NoncesOf(S) == [i \in 1 .. Cardinality(S) |-> EntryOf(S, i).nonce]
History == [i \in 1 .. Cardinality(commits) |-> LogEntry(i)]
Acknowledged == {m \in commits : \E a \in acked : m.base <= a.base}

(* Each place of a linear set holds one message.                           *)
LEMMA EntryExists ==
  ASSUME NEW S \in SUBSET Message, IsFiniteSet(S), Linear(S),
         NEW i \in 1 .. Cardinality(S)
  PROVE  EntryOf(S, i) \in S /\ EntryOf(S, i).base = i - 1
<1>1. Cardinality(S) \in Nat
  BY FS_CardinalityType
<1>2. i - 1 \in 0 .. Cardinality(S) - 1
  BY <1>1
<1>3. i - 1 \in {m.base : m \in S}
  BY <1>2 DEF Linear
<1> QED
  BY <1>3 DEF EntryOf

LEMMA NoncesOfType ==
  ASSUME NEW S \in SUBSET Message, IsFiniteSet(S), Linear(S)
  PROVE  NoncesOf(S) \in Seq(Nonces) /\ Len(NoncesOf(S)) = Cardinality(S)
<1>1. Cardinality(S) \in Nat
  BY FS_CardinalityType
<1>2. \A i \in 1 .. Cardinality(S) : EntryOf(S, i).nonce \in Nonces
  BY EntryExists DEF Message
<1> QED
  BY <1>1, <1>2 DEF NoncesOf

(* The next message adds its nonce at the end, and moves nothing.        *)
LEMMA NoncesOfGrow ==
  ASSUME NEW S \in SUBSET Message, IsFiniteSet(S), Linear(S),
         NEW m \in Message, m.base = Cardinality(S)
  PROVE  NoncesOf(S \cup {m}) = Append(NoncesOf(S), m.nonce)
<1> DEFINE T == S \cup {m}
           old == NoncesOf(S)
           new == NoncesOf(T)
           longer == Append(old, m.nonce)
<1>1. /\ IsFiniteSet(T) /\ Linear(T) /\ Cardinality(T) = Cardinality(S) + 1
      /\ \A n \in S : n.base < m.base
  BY LinearGrows
<1>2. Cardinality(S) \in Nat /\ m.nonce \in Nonces
  BY FS_CardinalityType DEF Message
<1>3. old \in Seq(Nonces) /\ Len(old) = Cardinality(S)
  BY NoncesOfType
<1>4. new \in Seq(Nonces) /\ Len(new) = Cardinality(S) + 1
  BY <1>1, NoncesOfType
<1>5. /\ longer \in Seq(Nonces) /\ Len(longer) = Cardinality(S) + 1
      /\ \A i \in 1 .. Cardinality(S) : longer[i] = old[i]
      /\ longer[Cardinality(S) + 1] = m.nonce
  BY <1>2, <1>3, AppendProperties
<1>6. ASSUME NEW i \in 1 .. Cardinality(S) + 1
      PROVE  new[i] = longer[i]
  <2>1. EntryOf(T, i) \in T /\ EntryOf(T, i).base = i - 1
    BY <1>1, EntryExists
  <2>2. new[i] = EntryOf(T, i).nonce
    BY <1>1, <1>2 DEF NoncesOf
  <2>3. CASE i = Cardinality(S) + 1
    <3>1. EntryOf(T, i) = m
      BY <1>1, <1>2, <2>1, <2>3 DEF Linear
    <3> QED
      BY <1>5, <2>2, <2>3, <3>1
  <2>4. CASE i \in 1 .. Cardinality(S)
    <3>1. EntryOf(S, i) \in S /\ EntryOf(S, i).base = i - 1
      BY <2>4, EntryExists
    <3>2. EntryOf(T, i) = EntryOf(S, i)
      BY <1>1, <2>1, <3>1 DEF Linear
    <3>3. old[i] = EntryOf(S, i).nonce
      BY <2>4 DEF NoncesOf
    <3> QED
      BY <1>5, <2>2, <2>4, <3>2, <3>3
  <2>5. i = Cardinality(S) + 1 \/ i \in 1 .. Cardinality(S)
    BY <1>2
  <2> QED
    BY <2>3, <2>4, <2>5
<1> HIDE DEF longer, old, new
<1>7. Len(new) = Len(longer) /\ \A i \in 1 .. Len(new) : new[i] = longer[i]
  BY <1>4, <1>5, <1>6
<1>8. new = longer
  BY <1>4, <1>5, <1>7, SeqEqual
<1> QED
  BY <1>8 DEF longer, old, new, T

(* What the mapping reads: nothing else matters to the log.                *)
LEMMA SameLog ==
  ASSUME UNCHANGED <<commits, acked>>, manifest'.version = manifest.version
  PROVE  UNCHANGED Log!logVars
BY DEF Log!logVars, LogEntry

(* The commit record is the step at which a message becomes durable; it    *)
(* comes when all the messages before it are shown.                        *)
LEMMA CommitCommits ==
  ASSUME StoreInv, NEW p \in Procs, WriteCommit(p)
  PROVE  Log!Commit(msg[p].nonce)
<1> DEFINE m == msg[p]
<1>1. /\ pc[p] \in Preparing /\ commits' = commits \cup {m}
      /\ UNCHANGED <<manifest, acked>>
  BY DEF WriteCommit, At, Preparing
<1>2. /\ m \in Message /\ m.base = Cardinality(commits)
      /\ manifest.version = Cardinality(commits)
  BY <1>1, WhilePreparing DEF Version
<1>3. /\ NoncesOf(commits') = Append(NoncesOf(commits), m.nonce)
      /\ Len(NoncesOf(commits)) = Cardinality(commits)
      /\ \A n \in commits : n.base < m.base
  BY <1>1, <1>2, Facts, NoncesOfGrow, NoncesOfType
<1>4. \A a \in acked : ~ (m.base <= a.base)
  BY <1>2, <1>3, Facts DEF StoreInv, LogInv
<1>5. Acknowledged' = Acknowledged
  BY <1>1, <1>4 DEF Acknowledged
<1> QED
  BY <1>1, <1>2, <1>3, <1>5
     DEF Log!Commit, NoncesOf, EntryOf, LogEntry, Acknowledged

(* A manifest that moves shows the next message, in the append or when a   *)
(* replay makes up for it.                                                 *)
LEMMA ManifestShows ==
  ASSUME StoreInv, UNCHANGED <<commits, acked>>, NEW m \in commits, Version = m.base,
         manifest'.version = m.base + 1
  PROVE  Log!Show
<1>1. Version = Cardinality(commits) - 1
  BY RedoMovesToTheEnd
<1>2. Len(NoncesOf(commits)) = Cardinality(commits) /\ Cardinality(commits) \in Nat
  BY Facts, NoncesOfType
<1>3. manifest.version < Len(History)
  BY <1>1, <1>2 DEF Version, History, NoncesOf, EntryOf, LogEntry
<1>4. UNCHANGED <<History, Acknowledged>>
  BY DEF History, LogEntry, Acknowledged
<1>5. manifest'.version = manifest.version + 1
  BY DEF Version
<1> QED
  BY <1>3, <1>4, <1>5 DEF Log!Show, History, Acknowledged

LEMMA RedoShows ==
  ASSUME StoreInv, NEW p \in Procs, Redo(p)
  PROVE  Log!Show \/ UNCHANGED Log!logVars
<1> DEFINE m == Oldest(todo)
<1>1. /\ m \in commits /\ UNCHANGED <<commits, acked>>
      /\ manifest' = IF manifest.version = m.base
                     THEN [manifest EXCEPT !.version = m.base + 1, !.last = m]
                     ELSE manifest
  BY DEF Redo, files
<1> HIDE DEF m
<1>2. m \in Message /\ m.base \in Nat /\ m.base + 1 \in Nat
  BY <1>1, Facts
<1>3. CASE manifest.version = m.base
  <2>1. manifest' = [manifest EXCEPT !.version = m.base + 1, !.last = m]
    BY <1>1, <1>3
  <2>2. manifest \in Manifest
    BY DEF StoreInv, TypeOK, Manifest
  <2>3. manifest'.version = m.base + 1
    BY <1>2, <2>1, <2>2, ManifestMoves
  <2> QED
    BY <1>1, <1>3, <2>3, ManifestShows DEF Version
<1>4. CASE manifest.version # m.base
  BY <1>1, <1>4, SameLog
<1> QED
  BY <1>3, <1>4

LEMMA WriteManifestShows ==
  ASSUME StoreInv, NEW p \in Procs, WriteManifest(p)
  PROVE  Log!Show
<1>1. /\ pc[p] = "manifest" /\ UNCHANGED <<commits, acked>>
      /\ manifest' = [manifest EXCEPT !.version = msg[p].base + 1, !.last = msg[p]]
  BY DEF WriteManifest, At, files
<1>2. lock = p
  BY <1>1 DEF StoreInv, TypeOK, Unlocked
<1>3. msg[p] \in commits /\ Version = msg[p].base
  BY <1>1, <1>2 DEF StoreInv, Holds, Appends
<1>4. msg[p] \in Message /\ msg[p].base + 1 \in Nat
  BY <1>3, Facts
<1>5. manifest \in Manifest
  BY DEF StoreInv, TypeOK, Manifest
<1>6. manifest'.version = msg[p].base + 1
  BY <1>1, <1>4, <1>5, ManifestMoves
<1> QED
  BY <1>1, <1>3, <1>6, ManifestShows

(* An append returns when everything that is durable is shown.             *)
LEMMA ReturnAcknowledges ==
  ASSUME StoreInv, NEW p \in Procs, ReturnMessage(p)
  PROVE  Log!Acknowledge
<1>1. /\ pc[p] = "unlock" /\ UNCHANGED <<commits, manifest>>
      /\ acked' = acked \cup {msg[p]}
  BY DEF ReturnMessage, At, files
<1>2. lock = p
  BY <1>1 DEF StoreInv, TypeOK, Unlocked
<1>3. /\ msg[p].base = Cardinality(commits) - 1 /\ Version = msg[p].base + 1
  BY <1>1, <1>2 DEF StoreInv, Holds, Appends
<1>4. \A n \in commits : n.base <= msg[p].base
  BY <1>3, Facts
<1>5. Acknowledged' = commits
  BY <1>1, <1>4 DEF Acknowledged
<1>6. Len(NoncesOf(commits)) = Cardinality(commits) /\ Cardinality(commits) \in Nat
  BY Facts, NoncesOfType
<1>7. Len(History) = Cardinality(commits)
  BY <1>6 DEF History, NoncesOf, EntryOf, LogEntry
<1>8. UNCHANGED History /\ UNCHANGED manifest.version
  BY <1>1 DEF History, LogEntry
<1>9. manifest.version = Cardinality(commits) /\ Cardinality(Acknowledged)' = Cardinality(commits)
  BY <1>3, <1>5, <1>6 DEF Version
<1> QED
  BY <1>7, <1>8, <1>9 DEF Log!Acknowledge, History, Acknowledged

LEMMA LogStep ==
  ASSUME StoreInv, [Next]_vars
  PROVE  [Log!Next]_(Log!logVars)
<1>1. CASE UNCHANGED vars \/ OperatorUnlocks
  BY <1>1, SameLog DEF vars, files, OperatorUnlocks
<1>2. ASSUME NEW p \in Procs, WriteCommit(p)
      PROVE  Log!Next
  <2>1. msg[p].nonce \in Nonces
    BY <1>2, WhilePreparing DEF WriteCommit, At, Preparing, Message
  <2> QED
    BY <1>2, <2>1, CommitCommits DEF Log!Next
<1>3. ASSUME NEW p \in Procs, Redo(p) \/ WriteManifest(p) \/ ReturnMessage(p)
      PROVE  [Log!Next]_(Log!logVars)
  BY <1>3, RedoShows, WriteManifestShows, ReturnAcknowledges DEF Log!Next
<1>4. ASSUME NEW p \in Procs, FillManifest(p)
      PROVE  UNCHANGED Log!logVars
  <2>1. session = "torn"
    BY <1>4 DEF StoreInv, CreationInv, FillManifest, At
  <2>2. manifest.version = 0
    BY <2>1 DEF StoreInv, CreationInv, Version
  <2>3. manifest'.version = manifest.version /\ UNCHANGED <<commits, acked>>
    BY <1>4, <2>2 DEF FillManifest, files
  <2> QED
    BY <2>3, SameLog
<1>5. ASSUME NEW p \in Procs,
             \/ CallCreate(p) \/ CallContext(p) \/ CallAppend(p)
             \/ MakeDirectory(p) \/ RefuseExisting(p) \/ OpenManifest(p)
             \/ Enter(p) \/ UndoMessage(p) \/ UndoPrepare(p) \/ ReplayFails(p)
             \/ ReturnContext(p) \/ AcceptAppend(p) \/ RefuseAppend(p)
             \/ OpenPrepare(p) \/ WritePrepare(p) \/ OpenMessage(p) \/ WriteMessage(p)
             \/ OpenCommit(p) \/ Raise(p) \/ Kill(p)
      PROVE  UNCHANGED Log!logVars
  <2>1. UNCHANGED <<commits, acked, manifest>>
    BY <1>5 DEF CallCreate, CallContext, CallAppend, Call, MakeDirectory, RefuseExisting,
                OpenManifest, Enter, EnsureDirectory, AcquireLock, RefuseBusy, LoadLog,
                RefuseUncreated, Leave, UndoMessage, UndoPrepare, ReplayFails,
                ReturnContext, AcceptAppend, RefuseAppend, OpenPrepare, WritePrepare,
                OpenMessage, WriteMessage, OpenCommit, Open, Raise, Kill, files
  <2> QED
    BY <2>1, SameLog
<1> QED
  BY <1>1, <1>2, <1>3, <1>4, <1>5 DEF Next, Create, Replay, AppendMessage

(* The files of a session implement one append-only log (append_message,   *)
(* _recover_unlocked): its entries are the committed messages in the order *)
(* of their sequence, shown as the manifest moves, and acknowledged when   *)
(* an append returns.                                                      *)
THEOREM ImplementsLog == ASSUME SessionAssumption PROVE Spec => RefinesAppendLog
<1>1. Init => Log!Init
  <2> SUFFICES ASSUME Init PROVE Log!Init
    OBVIOUS
  <2>1. commits = {} /\ Acknowledged = {} /\ manifest.version = 0
    BY DEF Init, Acknowledged
  <2>2. Cardinality({}) = 0
    BY FS_EmptySet
  <2>3. [i \in 1 .. 0 |-> LogEntry(i)] = <<>>
    OBVIOUS
  <2> QED
    BY <2>1, <2>2, <2>3 DEF Log!Init, Acknowledged
<1>2. StoreInv /\ [Next]_vars => [Log!Next]_(Log!logVars)
  BY LogStep
<1> QED
  BY <1>1, <1>2, StoreInvariant, PTL DEF Spec, RefinesAppendLog, Log!Spec
=============================================================================
