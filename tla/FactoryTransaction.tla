------------------------- MODULE FactoryTransaction -------------------------
(***************************************************************************)
(* HarnessFactoryTransactionStore (storage/harness_factory_transaction.py) *)
(* and the release pointer it advances (factory/harness_release.py).       *)
(*                                                                         *)
(* Several factory processes publish releases into one project directory.  *)
(* A publication builds the generation outside the lock; then, under a     *)
(* lock file, it replays the write-ahead log, checks that its parent is    *)
(* still the head, and writes prepare, staged message, commit intent,      *)
(* active pointer, visible message, chat manifest and committed marker,    *)
(* one file after another.  At any of these an exception may be raised     *)
(* (the lock is removed) or the process may be killed (the lock stays).    *)
(* Readers look at the pointer, the messages and the chat without a lock.  *)
(*                                                                         *)
(* A message stands for its transaction, its release and its place in the  *)
(* chat: equal records have equal transaction ids, since the id is a hash  *)
(* of them.  Timestamps, prompts and digests are left out, and so is the   *)
(* caller's optional expected_message_index, which the parent determines.  *)
(***************************************************************************)
EXTENDS Integers, FiniteSets

CONSTANTS
  Procs,        \* the factory processes
  Releases,     \* the releases (and prompts) they publish
  NoRelease,
  MaxMessages,  \* bound: the length of the chat
  MaxFaults     \* bound: exceptions and kills

ASSUME FactoryAssumption ==
  /\ NoRelease \notin Releases
  /\ MaxMessages \in Nat /\ MaxFaults \in Nat
  /\ Procs \cap {"free", "orphan"} = {}

Message == [index : Nat, release : Releases]
None == [index |-> -1, release |-> NoRelease]

VARIABLES
  generations,  \* releases/: the validated generation directories
  pointer,      \* active_release.json, as the message whose release it names
  chat,         \* chat.json, as the message it was written for
  messages,     \* messages/: the visible messages
  prepares,     \* wal/prepare.*.json that are complete
  intents,      \* wal/commit_intent.*.json that are complete
  committed,    \* wal/committed.*.json
  torn,         \* WAL files opened but not written: <<"prepare" or "intent", message>>
  staged,       \* message_staging/
  lock,         \* .transaction.lock: "free", its owner, or "orphan"
  pc,           \* where each process is
  op,           \* "publish" or "recover"
  parent,       \* expected_parent_message_id
  msg,          \* the transaction each process works on
  todo,         \* the lock holder's prepare files still to replay
  acked,        \* the messages whose publication returned
  faults

disk == <<generations, pointer, chat, messages, prepares, intents, committed, torn, staged>>
procs == <<pc, op, parent, msg>>
vars == <<disk, lock, procs, todo, acked, faults>>

Unlocked == {"idle", "materialize", "place", "lock"}

-----------------------------------------------------------------------------
Init ==
  /\ generations = {}
  /\ pointer = None /\ chat = None
  /\ messages = {} /\ prepares = {} /\ intents = {} /\ committed = {}
  /\ torn = {} /\ staged = {}
  /\ lock = "free"
  /\ pc = [p \in Procs |-> "idle"]
  /\ op = [p \in Procs |-> "recover"]
  /\ parent = [p \in Procs |-> None]
  /\ msg = [p \in Procs |-> None]
  /\ todo = {}
  /\ acked = {}
  /\ faults = 0

At(p, here) == pc[p] = here
Go(p, there) == pc' = [pc EXCEPT ![p] = there]

(* create_initial_chat, or apply_followup with the parent that the caller  *)
(* read from the chat without a lock.                                      *)
CallPublish(p) ==
  /\ At(p, "idle")
  /\ Go(p, "materialize")
  /\ op' = [op EXCEPT ![p] = "publish"]
  /\ parent' = [parent EXCEPT ![p] = chat]
  /\ \E r \in Releases : msg' = [msg EXCEPT ![p] = [index |-> -1, release |-> r]]
  /\ UNCHANGED <<disk, lock, todo, acked, faults>>

CallRecover(p) ==
  /\ At(p, "idle")
  /\ Go(p, "lock")
  /\ op' = [op EXCEPT ![p] = "recover"]
  /\ UNCHANGED <<disk, lock, parent, msg, todo, acked, faults>>

(* materialize_harness_release: the generation is built in a directory of  *)
(* its own, and renamed to its content-addressed name if that is free.     *)
Materialize(p) ==
  /\ At(p, "materialize")
  /\ Go(p, IF msg[p].release \in generations THEN "lock" ELSE "place")
  /\ UNCHANGED <<disk, lock, op, parent, msg, todo, acked, faults>>

(* A builder that finds the name taken after all either meets the other's  *)
(* generation (FileExistsError) or fails: most Linux file systems answer   *)
(* ENOTEMPTY, an OSError that nothing catches.                             *)
Place(p) ==
  /\ At(p, "place")
  /\ generations' = generations \cup {msg[p].release}
  /\ \/ Go(p, "lock")
     \/ msg[p].release \in generations /\ Go(p, "idle")
  /\ UNCHANGED <<pointer, chat, messages, prepares, intents, committed, torn, staged,
                 lock, op, parent, msg, todo, acked, faults>>

(* O_CREAT | O_EXCL on the lock file; then the log is listed for replay.   *)
AcquireLock(p) ==
  /\ At(p, "lock")
  /\ lock = "free"
  /\ lock' = p
  /\ todo' = prepares \cup {m \in {t[2] : t \in torn} : <<"prepare", m>> \in torn}
  /\ Go(p, "recover")
  /\ UNCHANGED <<disk, op, parent, msg, acked, faults>>

(* HarnessFactoryConcurrencyError.                                         *)
RefuseBusy(p) ==
  /\ At(p, "lock")
  /\ lock # "free"
  /\ Go(p, "idle")
  /\ UNCHANGED <<disk, lock, op, parent, msg, todo, acked, faults>>

-----------------------------------------------------------------------------
(* _recover_unlocked: prepare files in the order of their message index.   *)
Oldest(S) == CHOOSE m \in S : \A n \in S : m.index <= n.index

HasIntentFile(m) == m \in intents \/ <<"intent", m>> \in torn

(* A prepare without an intent is undone: first its staging directory,     *)
(* then the prepare file.                                                  *)
ReplayUnstage(p) ==
  LET m == Oldest(todo) IN
  /\ At(p, "recover") /\ todo # {}
  /\ m \in prepares /\ ~HasIntentFile(m)
  /\ staged' = staged \ {m}
  /\ Go(p, "unlink")
  /\ UNCHANGED <<generations, pointer, chat, messages, prepares, intents, committed, torn,
                 lock, op, parent, msg, todo, acked, faults>>

ReplayUnlink(p) ==
  LET m == Oldest(todo) IN
  /\ At(p, "unlink")
  /\ prepares' = prepares \ {m}
  /\ todo' = todo \ {m}
  /\ Go(p, "recover")
  /\ UNCHANGED <<generations, pointer, chat, messages, intents, committed, torn, staged,
                 lock, op, parent, msg, acked, faults>>

(* Faulty variants: every prepare is redone; or a redo starts behind the   *)
(* pointer.                                                                *)
ReplayRedoAnything(p) ==
  /\ At(p, "recover") /\ todo # {}
  /\ Oldest(todo) \in prepares
  /\ Go(p, "pointer")
  /\ UNCHANGED <<disk, lock, op, parent, msg, todo, acked, faults>>

ReplayRedoBehindPointer(p) ==
  /\ At(p, "recover") /\ todo # {}
  /\ Oldest(todo) \in prepares \cap intents
  /\ Go(p, "message")
  /\ UNCHANGED <<disk, lock, op, parent, msg, todo, acked, faults>>

(* A prepare with an intent is carried out again from the pointer on, even *)
(* if its committed marker exists.  The WAL is never truncated.            *)
ReplayRedo(p) ==
  LET m == Oldest(todo) IN
  /\ At(p, "recover") /\ todo # {}
  /\ m \in prepares /\ m \in intents
  /\ Go(p, "pointer")
  /\ UNCHANGED <<disk, lock, op, parent, msg, todo, acked, faults>>

(* A torn prepare or intent does not parse: the JSON error leaves recovery *)
(* before anything later in the log is looked at.                          *)
ReplayTorn(p) ==
  LET m == Oldest(todo) IN
  /\ At(p, "recover") /\ todo # {}
  /\ m \notin prepares \/ <<"intent", m>> \in torn
  /\ Go(p, "idle")
  /\ lock' = "free"
  /\ todo' = {}
  /\ UNCHANGED <<disk, op, parent, msg, acked, faults>>

ReplayDone(p) ==
  /\ At(p, "recover") /\ todo = {}
  /\ Go(p, IF op[p] = "publish" THEN "check" ELSE "unlock")
  /\ UNCHANGED <<disk, lock, op, parent, msg, todo, acked, faults>>

-----------------------------------------------------------------------------
(* Faulty variant: only the store's own files are compared.                *)
HeadMatchesItself(p) == pointer.release = chat.release

(* The stale-head checks of _publish, then the transaction's identity.     *)
HeadMatches(p) == pointer.release = chat.release /\ parent[p] = chat

CheckHead(p) ==
  /\ At(p, "check")
  /\ HeadMatches(p)
  /\ chat.index + 1 < MaxMessages
  /\ msg' = [msg EXCEPT ![p].index = chat.index + 1]
  /\ Go(p, "open_prepare")
  /\ UNCHANGED <<disk, lock, op, parent, todo, acked, faults>>

(* Faulty variant: the error path forgets the lock file.                   *)
RefuseStaleLocked(p) ==
  /\ At(p, "check")
  /\ ~HeadMatches(p)
  /\ Go(p, "idle")
  /\ UNCHANGED <<disk, lock, op, parent, msg, todo, acked, faults>>

(* HarnessFactoryStaleHeadError.                                           *)
RefuseStale(p) ==
  /\ At(p, "check")
  /\ ~HeadMatches(p) \/ chat.index + 1 >= MaxMessages
  /\ Go(p, "idle")
  /\ lock' = "free"
  /\ UNCHANGED <<disk, op, parent, msg, todo, acked, faults>>

(* _write_once opens the final name and fills it in place.                 *)
OpenPrepare(p) ==
  /\ At(p, "open_prepare")
  /\ torn' = torn \cup {<<"prepare", msg[p]>>}
  /\ Go(p, "write_prepare")
  /\ UNCHANGED <<generations, pointer, chat, messages, prepares, intents, committed, staged,
                 lock, op, parent, msg, todo, acked, faults>>

WritePrepare(p) ==
  /\ At(p, "write_prepare")
  /\ torn' = torn \ {<<"prepare", msg[p]>>}
  /\ prepares' = prepares \cup {msg[p]}
  /\ Go(p, "stage")
  /\ UNCHANGED <<generations, pointer, chat, messages, intents, committed, staged,
                 lock, op, parent, msg, todo, acked, faults>>

StageMessage(p) ==
  /\ At(p, "stage")
  /\ staged' = staged \cup {msg[p]}
  /\ Go(p, "open_intent")
  /\ UNCHANGED <<generations, pointer, chat, messages, prepares, intents, committed, torn,
                 lock, op, parent, msg, todo, acked, faults>>

OpenIntent(p) ==
  /\ At(p, "open_intent")
  /\ torn' = torn \cup {<<"intent", msg[p]>>}
  /\ Go(p, "write_intent")
  /\ UNCHANGED <<generations, pointer, chat, messages, prepares, intents, committed, staged,
                 lock, op, parent, msg, todo, acked, faults>>

(* Faulty variant: the intent is taken for the whole commit.               *)
WriteIntentAndReturn(p) ==
  /\ At(p, "write_intent")
  /\ torn' = torn \ {<<"intent", msg[p]>>}
  /\ intents' = intents \cup {msg[p]}
  /\ Go(p, "unlock")
  /\ UNCHANGED <<generations, pointer, chat, messages, prepares, committed, staged,
                 lock, op, parent, msg, todo, acked, faults>>

WriteIntent(p) ==
  /\ At(p, "write_intent")
  /\ torn' = torn \ {<<"intent", msg[p]>>}
  /\ intents' = intents \cup {msg[p]}
  /\ Go(p, "pointer")
  /\ UNCHANGED <<generations, pointer, chat, messages, prepares, committed, staged,
                 lock, op, parent, msg, todo, acked, faults>>

-----------------------------------------------------------------------------
(* The last four writes are the same in a publication and in its replay.   *)
Replaying == todo # {}
Current(p) == IF Replaying THEN Oldest(todo) ELSE msg[p]

(* advance_active_release validates the generation it points to.           *)
AdvancePointer(p) ==
  /\ At(p, "pointer")
  /\ Current(p).release \in generations
  /\ pointer' = Current(p)
  /\ Go(p, "message")
  /\ UNCHANGED <<generations, chat, messages, prepares, intents, committed, torn, staged,
                 lock, op, parent, msg, todo, acked, faults>>

(* _publish_message renames a finished directory into place, once; it      *)
(* stages the message again if the staging directory is gone.              *)
PublishMessage(p) ==
  /\ At(p, "message")
  /\ messages' = messages \cup {Current(p)}
  /\ staged' = IF Current(p) \in messages THEN staged ELSE staged \cup {Current(p)}
  /\ Go(p, "chat")
  /\ UNCHANGED <<generations, pointer, chat, prepares, intents, committed, torn,
                 lock, op, parent, msg, todo, acked, faults>>

WriteChat(p) ==
  /\ At(p, "chat")
  /\ chat' = Current(p)
  /\ Go(p, "marker")
  /\ UNCHANGED <<generations, pointer, messages, prepares, intents, committed, torn, staged,
                 lock, op, parent, msg, todo, acked, faults>>

WriteCommitted(p) ==
  /\ At(p, "marker")
  /\ committed' = committed \cup {Current(p)}
  /\ todo' = todo \ {Current(p)}
  /\ Go(p, IF Replaying THEN "recover" ELSE "unlock")
  /\ UNCHANGED <<generations, pointer, chat, messages, prepares, intents, torn, staged,
                 lock, op, parent, msg, acked, faults>>

(* The lock file is removed and publish returns its message.               *)
ReleaseLock(p) ==
  /\ At(p, "unlock")
  /\ lock' = "free"
  /\ acked' = IF op[p] = "publish" THEN acked \cup {msg[p]} ELSE acked
  /\ Go(p, "idle")
  /\ UNCHANGED <<disk, op, parent, msg, todo, faults>>

-----------------------------------------------------------------------------
(* Any step may raise (disk full, unreadable file, an injected failure):   *)
(* what is on disk stays, and the lock is removed on the way out.          *)
Raise(p) ==
  /\ ~At(p, "idle") /\ faults < MaxFaults
  /\ faults' = faults + 1
  /\ Go(p, "idle")
  /\ lock' = IF lock = p THEN "free" ELSE lock
  /\ todo' = IF lock = p THEN {} ELSE todo
  /\ UNCHANGED <<disk, op, parent, msg, acked>>

(* The process is killed: nobody removes its lock file.                    *)
Kill(p) ==
  /\ ~At(p, "idle") /\ faults < MaxFaults
  /\ faults' = faults + 1
  /\ Go(p, "idle")
  /\ lock' = IF lock = p THEN "orphan" ELSE lock
  /\ todo' = IF lock = p THEN {} ELSE todo
  /\ UNCHANGED <<disk, op, parent, msg, acked>>

(* Outside the program: an operator deletes a dead process's lock file.    *)
OperatorUnlocks ==
  /\ lock = "orphan"
  /\ lock' = "free"
  /\ UNCHANGED <<disk, procs, todo, acked, faults>>

Replay(p) ==
  ReplayUnstage(p) \/ ReplayUnlink(p) \/ ReplayRedo(p) \/ ReplayTorn(p) \/ ReplayDone(p)

Write(p) ==
  \/ OpenPrepare(p) \/ WritePrepare(p) \/ StageMessage(p) \/ OpenIntent(p) \/ WriteIntent(p)
  \/ AdvancePointer(p) \/ PublishMessage(p) \/ WriteChat(p) \/ WriteCommitted(p)

Next ==
  \/ OperatorUnlocks
  \/ \E p \in Procs :
       \/ CallPublish(p) \/ CallRecover(p) \/ Materialize(p) \/ Place(p)
       \/ AcquireLock(p) \/ RefuseBusy(p) \/ ReleaseLock(p)
       \/ Replay(p) \/ CheckHead(p) \/ RefuseStale(p) \/ Write(p)
       \/ Raise(p) \/ Kill(p)

Spec == Init /\ [][Next]_vars

-----------------------------------------------------------------------------
PCs ==
  Unlocked \cup
  {"recover", "unlink", "check", "open_prepare", "write_prepare", "stage", "open_intent",
   "write_intent", "pointer", "message", "chat", "marker", "unlock"}

(* Files and process states keep their types, and a process is past the    *)
(* lock exactly when the lock file is its own.                             *)
TypeOK ==
  /\ generations \subseteq Releases
  /\ {pointer, chat} \subseteq Message \cup {None}
  /\ \A files \in {messages, prepares, intents, committed, staged, acked, todo} :
        files \subseteq Message
  /\ torn \subseteq {"prepare", "intent"} \X Message
  /\ lock \in Procs \cup {"free", "orphan"}
  /\ pc \in [Procs -> PCs]
  /\ op \in [Procs -> {"publish", "recover"}]
  /\ \A p \in Procs : pc[p] \notin Unlocked <=> lock = p
  /\ faults \in 0 .. MaxFaults

(* Whatever was interrupted, aborted or retried, the committed messages    *)
(* form one chain: no index is committed twice and none is skipped.        *)
ChainIsLinear ==
  /\ \A m, n \in intents : m.index = n.index => m = n
  /\ {m.index : m \in intents} = 0 .. Cardinality(intents) - 1

(* Readers see committed data only, and a publication that returned stays  *)
(* visible through every later crash and replay.                           *)
OnlyCommittedIsVisible ==
  /\ messages \subseteq intents
  /\ acked \subseteq committed /\ committed \subseteq messages
  /\ {pointer, chat} \subseteq intents \cup {None}

(* A reader who follows the chat manifest finds every message it counts.   *)
ChatCountsVisibleMessages ==
  \A i \in 0 .. chat.index : \E m \in messages : m.index = i

(* A publication goes ahead only on the head its caller named: no other    *)
(* message was committed in between, though the caller read the head       *)
(* without a lock and built its release outside it.                        *)
FollowsTheNamedHead ==
  \A p \in Procs :
    lock = p /\ op[p] = "publish" /\ todo = {} /\ pc[p] \notin {"recover", "unlink", "check"}
      => /\ msg[p].index = parent[p].index + 1
         /\ parent[p] \in intents \cup {None}

(* When recover or publish is about to return, the newest commit is what   *)
(* the pointer, the chat and the messages show.                            *)
ReturnsSettled ==
  \A p \in Procs : At(p, "unlock") =>
    /\ messages = intents
    /\ pointer = chat
    /\ intents # {} => chat \in intents /\ \A m \in intents : m.index <= chat.index

(* What the disk holds at any moment, whatever was interrupted before, is  *)
(* one history of committed messages (publish, recover).                   *)
HistoryIsSound == ChainIsLinear /\ OnlyCommittedIsVisible /\ ChatCountsVisibleMessages

(* What a writer decides holds up to the moment it acts on it (publish),   *)
(* and what it returns to is settled.                                      *)
WritersAreCurrent == FollowsTheNamedHead /\ ReturnsSettled

(* The disk files implement one append-only log: the commit intent is the  *)
(* point at which an entry becomes durable.                                *)
LogEntry(i) == (CHOOSE m \in intents : m.index = i - 1).release

Log == INSTANCE AppendLog WITH
  Entries <- Releases,
  log <- [i \in 1 .. Cardinality(intents) |-> LogEntry(i)],
  shown <- Cardinality(messages),
  acked <- Cardinality({m \in intents : \E a \in acked : m.index <= a.index})

RefinesAppendLog == Log!Spec

(* The docstring of advance_active_release: the pointer is advanced.       *)
PointerOnlyAdvances == [][pointer'.index >= pointer.index]_vars

(* The docstring of HarnessFactoryConcurrencyError: it is raised when      *)
(* another transaction owns the writer lock.                               *)
BusyMeansAnotherWriter == [][\A p \in Procs : RefuseBusy(p) => lock \in Procs]_vars
=============================================================================
