--------------------------- MODULE HarnessSession ---------------------------
(***************************************************************************)
(* HarnessSessionStore (storage/harness_session_store.py), one session, as *)
(* the solve command drives it: it creates the session or names one, reads *)
(* the context for the next message (context_for_next), runs the harness   *)
(* for minutes without any lock, and then appends the result, naming the   *)
(* version its context had (append_solve_result).                          *)
(*                                                                         *)
(* Reading and appending both replay the write-ahead log under the lock    *)
(* file.  An append writes prepare, message, commit and manifest, one file *)
(* after another; the first three are opened under their final name and    *)
(* filled in place.  Any step may raise or be killed.                      *)
(*                                                                         *)
(* A message is its base version and its nonce: the message id hashes a    *)
(* fresh nonce, so it is one that no file carries.  Summaries, carryover,  *)
(* digests and timestamps are left out; every append may be refused for    *)
(* them.                                                                   *)
(***************************************************************************)
EXTENDS Integers, FiniteSets

CONSTANTS
  Procs,       \* the processes that use the session
  Releases,    \* the releases they run
  Nonces,
  NoNonce,
  MaxVersion,  \* bound: the messages in the session
  MaxFaults    \* bound: exceptions and kills

SessionAssumption ==
  /\ NoNonce \notin Nonces
  /\ MaxVersion \in Nat /\ MaxFaults \in Nat
  /\ Procs \cap {"free", "orphan"} = {}
  /\ Releases # {}

Message == [base : Nat, nonce : Nonces]
NoMessage == [base |-> -1, nonce |-> NoNonce]

VARIABLES
  session,   \* "absent", an empty "directory", a "torn" manifest, or "created"
  manifest,  \* session.json: the version, its last message, the pinned release
  prepares,  \* wal/prepare.*.json that are complete
  messages,  \* messages/*.json that are complete
  commits,   \* wal/commit.*.json that are complete
  torn,      \* files opened but not filled: <<kind, message>>
  lock,      \* .writer.lock: "free", its owner, or "orphan"
  pc, op,    \* where each process is, in "create", "context" or "append"
  release,   \* the active release each process runs
  seen,      \* the version its latest context has, -1 if it has none
  msg,       \* the message it appends
  todo,      \* the lock holder's prepare files still to replay
  acked,     \* the messages whose append returned
  faults

files == <<prepares, messages, commits, torn>>
procs == <<pc, op, release, seen, msg>>
vars == <<session, manifest, files, lock, procs, todo, acked, faults>>

Unlocked == {"idle", "mkdir", "open_manifest", "fill_manifest", "directory", "lock"}

-----------------------------------------------------------------------------
Init ==
  /\ session = "absent"
  /\ manifest = [version |-> 0, last |-> NoMessage, release |-> CHOOSE r \in Releases : TRUE]
  /\ prepares = {} /\ messages = {} /\ commits = {} /\ torn = {}
  /\ lock = "free"
  /\ pc = [p \in Procs |-> "idle"]
  /\ op = [p \in Procs |-> "context"]
  /\ release \in [Procs -> Releases]
  /\ seen = [p \in Procs |-> -1]
  /\ msg = [p \in Procs |-> NoMessage]
  /\ todo = {}
  /\ acked = {}
  /\ faults = 0

At(p, here) == pc[p] = here
Go(p, there) == pc' = [pc EXCEPT ![p] = there]

(* create_session, context_for_next, or append_message with the version of *)
(* the caller's context.  A factory may have activated another release     *)
(* since the process last looked.                                          *)
Call(p, operation, first) ==
  /\ At(p, "idle")
  /\ operation = "append" => seen[p] >= 0
  /\ Go(p, first)
  /\ op' = [op EXCEPT ![p] = operation]
  /\ \E r \in Releases :
       /\ operation = "append" => r = release[p]
       /\ release' = [release EXCEPT ![p] = r]
  /\ UNCHANGED <<session, manifest, files, lock, seen, msg, todo, acked, faults>>

CallCreate(p) == Call(p, "create", "mkdir")
CallContext(p) == Call(p, "context", "directory")
CallAppend(p) == Call(p, "append", "directory")

-----------------------------------------------------------------------------
(* create_session: mkdir decides who creates it.                           *)
MakeDirectory(p) ==
  /\ At(p, "mkdir")
  /\ session = "absent"
  /\ session' = "directory"
  /\ Go(p, "open_manifest")
  /\ UNCHANGED <<manifest, files, lock, op, release, seen, msg, todo, acked, faults>>

(* "harness session ... already exists".                                   *)
RefuseExisting(p) ==
  /\ At(p, "mkdir")
  /\ session # "absent"
  /\ Go(p, "idle")
  /\ UNCHANGED <<session, manifest, files, lock, op, release, seen, msg, todo, acked, faults>>

OpenManifest(p) ==
  /\ At(p, "open_manifest")
  /\ session' = "torn"
  /\ Go(p, "fill_manifest")
  /\ UNCHANGED <<manifest, files, lock, op, release, seen, msg, todo, acked, faults>>

FillManifest(p) ==
  /\ At(p, "fill_manifest")
  /\ session' = "created"
  /\ manifest' = [version |-> 0, last |-> NoMessage, release |-> release[p]]
  /\ Go(p, "idle")
  /\ UNCHANGED <<files, lock, op, release, seen, msg, todo, acked, faults>>

-----------------------------------------------------------------------------
(* _writer_lock makes the session's directory if there is none, and then   *)
(* opens the lock file with O_CREAT | O_EXCL.                              *)
EnsureDirectory(p) ==
  /\ At(p, "directory")
  /\ session' = IF session = "absent" THEN "directory" ELSE session
  /\ Go(p, "lock")
  /\ UNCHANGED <<manifest, files, lock, op, release, seen, msg, todo, acked, faults>>

AcquireLock(p) ==
  /\ At(p, "lock")
  /\ lock = "free"
  /\ lock' = p
  /\ Go(p, "load")
  /\ UNCHANGED <<session, manifest, files, op, release, seen, msg, todo, acked, faults>>

(* HarnessSessionConcurrencyError.                                         *)
RefuseBusy(p) ==
  /\ At(p, "lock")
  /\ lock # "free"
  /\ Go(p, "idle")
  /\ UNCHANGED <<session, manifest, files, lock, op, release, seen, msg, todo, acked, faults>>

(* An error inside the lock removes the lock file and leaves the rest.     *)
Leave(p) ==
  /\ Go(p, "idle")
  /\ lock' = "free"
  /\ todo' = {}
  /\ UNCHANGED <<session, manifest, files, op, release, seen, msg, acked>>

(* Opening the write-ahead log of a session whose manifest can be read.    *)
LoadLog(p) ==
  /\ At(p, "load")
  /\ session = "created"
  /\ todo' = prepares \cup {t[2] : t \in {t \in torn : t[1] = "prepare"}}
  /\ Go(p, "replay")
  /\ UNCHANGED <<session, manifest, files, lock, op, release, seen, msg, acked, faults>>

(* The manifest is missing or corrupt.                                     *)
RefuseUncreated(p) ==
  /\ At(p, "load")
  /\ session # "created"
  /\ Leave(p)
  /\ UNCHANGED faults

-----------------------------------------------------------------------------
(* _recover_unlocked, prepare by prepare in the order of their sequence.   *)
Oldest(S) == CHOOSE m \in S : \A n \in S : m.base <= n.base

IsTorn(kind, m) == <<kind, m>> \in torn
HasCommitFile(m) == m \in commits \/ IsTorn("commit", m)

(* A file that replay must read does not parse.                            *)
Unreadable(m) == \E kind \in {"prepare", "message", "commit"} : IsTorn(kind, m)

(* The manifest is neither before, at, nor after the committed message.    *)
InventsHistory(m) ==
  /\ m \in commits
  /\ manifest.version # m.base
  /\ manifest.version <= m.base + 1
  /\ ~(manifest.version = m.base + 1 /\ manifest.last = m)

(* No commit file: the message is removed, and then its prepare.           *)
UndoMessage(p) ==
  LET m == Oldest(todo) IN
  /\ At(p, "replay") /\ todo # {}
  /\ ~Unreadable(m) /\ ~HasCommitFile(m)
  /\ messages' = messages \ {m}
  /\ Go(p, "undo_prepare")
  /\ UNCHANGED <<session, manifest, prepares, commits, torn, lock, op, release, seen, msg,
                 todo, acked, faults>>

UndoPrepare(p) ==
  /\ At(p, "undo_prepare")
  /\ prepares' = prepares \ {Oldest(todo)}
  /\ todo' = todo \ {Oldest(todo)}
  /\ Go(p, "replay")
  /\ UNCHANGED <<session, manifest, messages, commits, torn, lock, op, release, seen, msg,
                 acked, faults>>

(* Faulty variants: the manifest is always replaced, or never.             *)
RedoAlways(p) ==
  LET m == Oldest(todo) IN
  /\ At(p, "replay") /\ todo # {}
  /\ ~Unreadable(m) /\ m \in commits
  /\ manifest' = [manifest EXCEPT !.version = m.base + 1, !.last = m]
  /\ todo' = todo \ {m}
  /\ UNCHANGED <<session, files, lock, procs, acked, faults>>

RedoNothing(p) ==
  LET m == Oldest(todo) IN
  /\ At(p, "replay") /\ todo # {}
  /\ ~Unreadable(m) /\ m \in commits /\ ~InventsHistory(m)
  /\ todo' = todo \ {m}
  /\ UNCHANGED <<session, manifest, files, lock, procs, acked, faults>>

(* A commit file: the manifest is replaced only if it stands just before   *)
(* the message.  The message file was complete before the commit file was  *)
(* opened (CommitsAreBacked), so the code's restoring write has no work.   *)
Redo(p) ==
  LET m == Oldest(todo) IN
  /\ At(p, "replay") /\ todo # {}
  /\ ~Unreadable(m) /\ m \in commits /\ ~InventsHistory(m)
  /\ manifest' = IF manifest.version = m.base
                 THEN [manifest EXCEPT !.version = m.base + 1, !.last = m]
                 ELSE manifest
  /\ todo' = todo \ {m}
  /\ UNCHANGED <<session, files, lock, procs, acked, faults>>

(* The JSON error, or "cannot be recovered without inventing history".     *)
ReplayFails(p) ==
  /\ At(p, "replay") /\ todo # {}
  /\ Unreadable(Oldest(todo)) \/ InventsHistory(Oldest(todo))
  /\ Leave(p)
  /\ UNCHANGED faults

(* The log is replayed.  context_for_next gives the lock back and checks   *)
(* the release; the lock is of no use to that check, which reads only the  *)
(* manifest already loaded.                                                *)
ReturnContext(p) ==
  /\ At(p, "replay") /\ todo = {}
  /\ op[p] = "context"
  /\ seen' = [seen EXCEPT ![p] = IF manifest.release = release[p] THEN manifest.version ELSE -1]
  /\ Go(p, "idle")
  /\ lock' = "free"
  /\ UNCHANGED <<session, manifest, files, op, release, msg, todo, acked, faults>>

(* append_message's checks; its message gets the next sequence and a       *)
(* nonce that no file of the session carries.                              *)
Fresh(m) ==
  /\ m \notin prepares \cup messages \cup commits
  /\ ~Unreadable(m)

(* Faulty variant: the expected version is not compared.                   *)
AcceptAnyVersion(p) ==
  /\ At(p, "replay") /\ todo = {}
  /\ op[p] = "append"
  /\ manifest.release = release[p]
  /\ manifest.version < MaxVersion
  /\ \E n \in Nonces :
       /\ Fresh([base |-> manifest.version, nonce |-> n])
       /\ msg' = [msg EXCEPT ![p] = [base |-> manifest.version, nonce |-> n]]
  /\ Go(p, "open_prepare")
  /\ UNCHANGED <<session, manifest, files, lock, op, release, seen, todo, acked, faults>>

AcceptAppend(p) ==
  /\ At(p, "replay") /\ todo = {}
  /\ op[p] = "append"
  /\ manifest.release = release[p]
  /\ manifest.version = seen[p]
  /\ manifest.version < MaxVersion
  /\ \E n \in Nonces :
       /\ Fresh([base |-> manifest.version, nonce |-> n])
       /\ msg' = [msg EXCEPT ![p] = [base |-> manifest.version, nonce |-> n]]
  /\ Go(p, "open_prepare")
  /\ UNCHANGED <<session, manifest, files, lock, op, release, seen, todo, acked, faults>>

(* HarnessSessionReleaseMismatchError, HarnessSessionVersionError, or a    *)
(* summary or a carryover that is refused, which can happen to any append. *)
RefuseAppend(p) ==
  /\ At(p, "replay") /\ todo = {}
  /\ op[p] = "append"
  /\ Leave(p)
  /\ UNCHANGED faults

-----------------------------------------------------------------------------
(* _write_json_once opens the final name and fills it in place.            *)
Open(p, kind, here, there) ==
  /\ At(p, here)
  /\ torn' = torn \cup {<<kind, msg[p]>>}
  /\ Go(p, there)
  /\ UNCHANGED <<session, manifest, prepares, messages, commits, lock, op, release, seen, msg,
                 todo, acked, faults>>

OpenPrepare(p) == Open(p, "prepare", "open_prepare", "write_prepare")
OpenMessage(p) == Open(p, "message", "open_message", "write_message")
OpenCommit(p) == Open(p, "commit", "open_commit", "write_commit")

WritePrepare(p) ==
  /\ At(p, "write_prepare")
  /\ prepares' = prepares \cup {msg[p]}
  /\ torn' = torn \ {<<"prepare", msg[p]>>}
  /\ Go(p, "open_message")
  /\ UNCHANGED <<session, manifest, messages, commits, lock, op, release, seen, msg, todo,
                 acked, faults>>

WriteMessage(p) ==
  /\ At(p, "write_message")
  /\ messages' = messages \cup {msg[p]}
  /\ torn' = torn \ {<<"message", msg[p]>>}
  /\ Go(p, "open_commit")
  /\ UNCHANGED <<session, manifest, prepares, commits, lock, op, release, seen, msg, todo,
                 acked, faults>>

(* Faulty variant: the commit record is taken for the whole append.        *)
WriteCommitAndReturn(p) ==
  /\ At(p, "write_commit")
  /\ commits' = commits \cup {msg[p]}
  /\ torn' = torn \ {<<"commit", msg[p]>>}
  /\ Go(p, "unlock")
  /\ UNCHANGED <<session, manifest, prepares, messages, lock, op, release, seen, msg, todo,
                 acked, faults>>

WriteCommit(p) ==
  /\ At(p, "write_commit")
  /\ commits' = commits \cup {msg[p]}
  /\ torn' = torn \ {<<"commit", msg[p]>>}
  /\ Go(p, "manifest")
  /\ UNCHANGED <<session, manifest, prepares, messages, lock, op, release, seen, msg, todo,
                 acked, faults>>

(* _write_json_replace: a temporary file renamed over the manifest.        *)
WriteManifest(p) ==
  /\ At(p, "manifest")
  /\ manifest' = [manifest EXCEPT !.version = msg[p].base + 1, !.last = msg[p]]
  /\ Go(p, "unlock")
  /\ UNCHANGED <<session, files, lock, op, release, seen, msg, todo, acked, faults>>

(* The lock file is removed and append_message returns its message.  The   *)
(* context is spent: the command that read it ends here.                   *)
ReturnMessage(p) ==
  /\ At(p, "unlock")
  /\ lock' = "free"
  /\ acked' = acked \cup {msg[p]}
  /\ seen' = [seen EXCEPT ![p] = -1]
  /\ Go(p, "idle")
  /\ UNCHANGED <<session, manifest, files, op, release, msg, todo, faults>>

-----------------------------------------------------------------------------
(* Any step may raise; inside the lock the lock file is then removed.      *)
Raise(p) ==
  /\ ~At(p, "idle") /\ faults < MaxFaults
  /\ faults' = faults + 1
  /\ Go(p, "idle")
  /\ lock' = IF lock = p THEN "free" ELSE lock
  /\ todo' = IF lock = p THEN {} ELSE todo
  /\ UNCHANGED <<session, manifest, files, op, release, seen, msg, acked>>

(* The process is killed: nobody removes its lock file, and the process    *)
(* that is started in its place has no context.                            *)
Kill(p) ==
  /\ ~At(p, "idle") /\ faults < MaxFaults
  /\ faults' = faults + 1
  /\ Go(p, "idle")
  /\ lock' = IF lock = p THEN "orphan" ELSE lock
  /\ todo' = IF lock = p THEN {} ELSE todo
  /\ seen' = [seen EXCEPT ![p] = -1]
  /\ UNCHANGED <<session, manifest, files, op, release, msg, acked>>

(* Outside the program: an operator deletes a dead process's lock file.    *)
OperatorUnlocks ==
  /\ lock = "orphan"
  /\ lock' = "free"
  /\ UNCHANGED <<session, manifest, files, procs, todo, acked, faults>>

Create(p) == MakeDirectory(p) \/ RefuseExisting(p) \/ OpenManifest(p) \/ FillManifest(p)

Enter(p) ==
  EnsureDirectory(p) \/ AcquireLock(p) \/ RefuseBusy(p) \/ LoadLog(p) \/ RefuseUncreated(p)

Replay(p) ==
  UndoMessage(p) \/ UndoPrepare(p) \/ Redo(p) \/ ReplayFails(p) \/ ReturnContext(p)

AppendMessage(p) ==
  \/ AcceptAppend(p) \/ RefuseAppend(p)
  \/ OpenPrepare(p) \/ WritePrepare(p) \/ OpenMessage(p) \/ WriteMessage(p)
  \/ OpenCommit(p) \/ WriteCommit(p) \/ WriteManifest(p) \/ ReturnMessage(p)

Next ==
  \/ OperatorUnlocks
  \/ \E p \in Procs :
       \/ CallCreate(p) \/ CallContext(p) \/ CallAppend(p)
       \/ Create(p) \/ Enter(p) \/ Replay(p) \/ AppendMessage(p)
       \/ Raise(p) \/ Kill(p)

Spec == Init /\ [][Next]_vars

-----------------------------------------------------------------------------
PCs ==
  Unlocked \cup
  {"load", "replay", "undo_prepare", "open_prepare", "write_prepare", "open_message",
   "write_message", "open_commit", "write_commit", "manifest", "unlock"}

Writing == PCs \ (Unlocked \cup {"load", "replay", "undo_prepare"})

(* Files and process states keep their types, and a process is past the    *)
(* lock exactly when the lock file is its own.                             *)
TypeOK ==
  /\ session \in {"absent", "directory", "torn", "created"}
  /\ manifest \in [version : Nat, last : Message \cup {NoMessage}, release : Releases]
  /\ \A S \in {prepares, messages, commits, acked, todo} : S \subseteq Message
  /\ torn \subseteq {"prepare", "message", "commit"} \X Message
  /\ lock \in Procs \cup {"free", "orphan"}
  /\ pc \in [Procs -> PCs]
  /\ op \in [Procs -> {"create", "context", "append"}]
  /\ release \in [Procs -> Releases]
  /\ seen \in [Procs -> Nat \cup {-1}]
  /\ \A p \in Procs : pc[p] \notin Unlocked <=> lock = p
  /\ faults \in 0 .. MaxFaults

(* Through every interruption the committed messages form one chain, and   *)
(* the manifest is at its end or one message behind.                       *)
ChainIsLinear ==
  /\ \A m, n \in commits : m.base = n.base => m = n
  /\ {m.base : m \in commits} = 0 .. Cardinality(commits) - 1
  /\ manifest.version \in {Cardinality(commits), Cardinality(commits) - 1}
  /\ manifest.version > 0 => manifest.last \in commits

(* A commit always has its message and its prepare beside it, so a replay  *)
(* has everything it reads; an append that returned is committed.          *)
CommitsAreBacked ==
  /\ commits \subseteq messages \cap prepares
  /\ acked \subseteq commits

(* The only thing that stops a replay is a file torn by a fault: the code's *)
(* "cannot be recovered without inventing history" is never reached.       *)
ReplayNeverInventsHistory ==
  \A p \in Procs : At(p, "replay") /\ todo # {} => ~InventsHistory(Oldest(todo))

(* The log of a session is one history that every replay can read          *)
(* (_recover_unlocked, append_message).                                    *)
SessionIsReplayable == ChainIsLinear /\ CommitsAreBacked /\ ReplayNeverInventsHistory

(* A result is appended directly behind the context it was computed from,  *)
(* in a session of its own release, however long the run took and whoever  *)
(* appended in the meantime.                                               *)
FollowsItsContext ==
  \A p \in Procs : pc[p] \in Writing =>
    /\ msg[p].base = seen[p]
    /\ manifest.release = release[p]

(* Both hold of every session at all times.                                *)
SessionIsSound == SessionIsReplayable /\ FollowsItsContext

(* A reader never sees the session go back: replaying old log records      *)
(* leaves a newer manifest alone, and the pinned release never changes     *)
(* once the session is created.                                            *)
ManifestNeverRegresses ==
  [][/\ manifest'.version >= manifest.version
     /\ session = "created" =>
          session' = "created" /\ manifest'.release = manifest.release]_vars

(* The session implements one append-only log: the commit record is the    *)
(* point at which a message becomes durable.                               *)
LogEntry(i) == (CHOOSE m \in commits : m.base = i - 1).nonce

Log == INSTANCE AppendLog WITH
  Entries <- Nonces,
  log <- [i \in 1 .. Cardinality(commits) |-> LogEntry(i)],
  shown <- manifest.version,
  acked <- Cardinality({m \in commits : \E a \in acked : m.base <= a.base})

RefinesAppendLog == Log!Spec
=============================================================================
