------------------------------ MODULE StateIndex ------------------------------
(***************************************************************************)
(* The SQLite index of a run (storage/state_store) beside the files it is  *)
(* made from: each operation of the run store writes its file and then     *)
(* indexes what it wrote.  A failed index operation marks the index dirty; *)
(* the next connection rebuilds a dirty index from the files and takes the *)
(* mark away.  The threads of a kernel do this without a common lock: one  *)
(* publishes checkpoints while branches file receipts.                     *)
(*                                                                         *)
(* A row is known by its primary key; INSERT OR REPLACE moves a row that   *)
(* several files give (the memory writes, which every later checkpoint     *)
(* repeats) to the file indexed last, and indexing a file first deletes    *)
(* the rows it owns.  The request stands for what is filed once, a receipt *)
(* also for attempts, events, fingerprints and recoveries, which are       *)
(* handled in the same way.                                                *)
(***************************************************************************)
EXTENDS Integers, Sequences, FiniteSets, SequencesExt

CONSTANTS
  Threads,     \* the threads of the kernel
  MaxSeq,      \* bound: the checkpoint numbers
  MaxWrites,   \* bound: the memory writes and the versions of other files
  MaxFails,    \* bound: the index operations that fail
  MaxKills     \* bound: the kernels killed

IndexAssumption == Threads # {} /\ {MaxSeq, MaxWrites, MaxFails, MaxKills} \subseteq Nat

Checkpoints == {<<"checkpoint", n>> : n \in 1 .. MaxSeq}
Manifest == <<"manifest", 0>>
Request == <<"request", 0>>
Receipt == <<"receipt", 0>>
Memory(n) == <<"working_memory", n>>

VARIABLES
  disk,     \* the files, as a function from names to contents
  index,    \* the rows: [key, ref, data]
  dirty,    \* whether index_dirty.json stands
  todo,     \* per thread: the steps of its operation that are left
  scan,     \* per thread: the files its rebuild has still to index, or NoScan
  held,     \* per thread: what the rebuild read of the next of them
  memory,   \* the memory writes of the running kernel, in their order
  number,   \* its checkpoint_sequence_no
  fresh,    \* the ids and versions given so far
  fails, kills,
  unsure    \* history: the files whose rows may be missing or old

vars == <<disk, index, dirty, todo, scan, held, memory, number, fresh, fails, kills, unsure>>
NoScan == << <<"none", 0>> >>
Nothing == <<>>

(* A faulty variant: a rebuild forgets the receipts.                       *)
OrderWithoutReceipts ==
  <<Manifest, Request>> \o [n \in 1 .. MaxSeq |-> <<"checkpoint", n>>]
  \o [n \in 1 .. MaxSeq |-> Memory(n)]

(* The files in the order a rebuild reads them.                            *)
Order ==
  <<Manifest, Request>> \o [n \in 1 .. MaxSeq |-> <<"checkpoint", n>>]
  \o [n \in 1 .. MaxSeq |-> Memory(n)] \o <<Receipt>>

Init ==
  /\ disk = [f \in {Manifest, Request} |-> <<0>>]
  /\ index = {[key |-> f, ref |-> f, data |-> <<0>>] : f \in {Manifest, Request}}
  /\ dirty = FALSE
  /\ todo = [t \in Threads |-> << >>]
  /\ scan = [t \in Threads |-> NoScan]
  /\ held = [t \in Threads |-> Nothing]
  /\ memory = << >> /\ number = 0 /\ fresh = 0 /\ fails = 0 /\ kills = 0
  /\ unsure = {}

------------------------------------------------------------------------------
(* The rows of a file: its own, and of a checkpoint also those of the      *)
(* memory writes it repeats and of its working memory.                     *)
Keys(f, data) ==
  CASE f \in Checkpoints ->
         {f} \cup {<<"write", w>> : w \in ToSet(data.writes)}
             \cup {<<"snapshot", f[2], data.version>>}
    [] f[1] = "working_memory" -> {<<"snapshot", f[2], data.version>>}
    [] OTHER -> {f}

(* A faulty variant: the rows a file gave before are not deleted.          *)
InsertOnly(rows, f, data) ==
  LET keys == Keys(f, data)
  IN {r \in rows : r.key \notin keys}
     \cup {[key |-> k, ref |-> f, data |-> IF k = f THEN data ELSE Nothing] : k \in keys}

Indexed(rows, f, data) ==
  LET keys == Keys(f, data)
  IN {r \in rows : r.ref # f /\ r.key \notin keys}
     \cup {[key |-> k, ref |-> f, data |-> IF k = f THEN data ELSE Nothing] : k \in keys}

Idle(t) == todo[t] = << >>
Write(f, d) == [do |-> "write", file |-> f, data |-> d]
Enter(f, d) == [do |-> "index", file |-> f, data |-> d]

(* A checkpoint: the envelope and its shards, the manifest with its index  *)
(* row, the rows of the envelope, the snapshot of the working memory.      *)
Publish(t) ==
  /\ Idle(t) /\ number < MaxSeq /\ fresh < MaxWrites
  /\ \A u \in Threads : \A k \in DOMAIN todo[u] : todo[u][k].file[1] = "receipt"
  /\ fresh' = fresh + 1 /\ number' = number + 1
  /\ memory' = Append(memory, fresh')
  /\ LET c == <<"checkpoint", number'>>
         e == [writes |-> memory', version |-> fresh']
         w == [writes |-> << >>, version |-> fresh']
     IN todo' = [todo EXCEPT ![t] =
          <<Write(c, e), Write(Manifest, <<fresh'>>), Enter(Manifest, <<fresh'>>),
            Enter(c, e), Write(Memory(number'), w), Enter(Memory(number'), w)>>]
  /\ UNCHANGED <<disk, index, dirty, scan, held, fails, kills, unsure>>

FileReceipt(t) ==
  /\ Idle(t) /\ fresh < MaxWrites
  /\ \A u \in Threads : \A k \in DOMAIN todo[u] : todo[u][k].file[1] # "receipt"
  /\ fresh' = fresh + 1
  /\ todo' = [todo EXCEPT ![t] = <<Write(Receipt, <<fresh'>>), Enter(Receipt, <<fresh'>>)>>]
  /\ UNCHANGED <<disk, index, dirty, scan, held, memory, number, fails, kills, unsure>>

Step(t) == todo' = [todo EXCEPT ![t] = Tail(@)]
Rebuilding == {t \in Threads : scan[t] # NoScan}

(* Its rows are in: the file is known to be indexed if it still reads so;  *)
(* rows of former contents displace those of every file that shares a key. *)
Judge(f, data) ==
  unsure' = IF data = disk[f] THEN unsure \ {f}
            ELSE unsure \cup {g \in DOMAIN disk : Keys(g, disk[g]) \cap Keys(f, disk[f]) # {}}

WriteFile(t) ==
  /\ ~Idle(t) /\ Head(todo[t]).do = "write"
  /\ LET f == Head(todo[t]).file
     IN disk' = [g \in DOMAIN disk \cup {f} |-> IF g = f THEN Head(todo[t]).data ELSE disk[g]]
  /\ Step(t)
  /\ UNCHANGED <<index, dirty, scan, held, memory, number, fresh, fails, kills, unsure>>

(* An index operation opens a connection, which rebuilds a dirty index     *)
(* first, and then does its own transaction.                               *)
Indexing(t) == ~Idle(t) /\ Head(todo[t]).do = "index"

BeginRebuild(t) ==
  /\ Indexing(t) /\ scan[t] = NoScan /\ dirty
  /\ index' = {}
  /\ scan' = [scan EXCEPT ![t] = Order]
  /\ UNCHANGED <<disk, dirty, todo, held, memory, number, fresh, fails, kills, unsure>>

ReadNext(t) ==
  /\ scan[t] \notin {NoScan, << >>} /\ held[t] = Nothing
  /\ IF Head(scan[t]) \in DOMAIN disk
       THEN held' = [held EXCEPT ![t] = <<disk[Head(scan[t])]>>] /\ UNCHANGED scan
       ELSE scan' = [scan EXCEPT ![t] = Tail(@)] /\ UNCHANGED held
  /\ UNCHANGED <<disk, index, dirty, todo, memory, number, fresh, fails, kills, unsure>>

InsertNext(t) ==
  /\ held[t] # Nothing
  /\ index' = Indexed(index, Head(scan[t]), held[t][1])
  /\ held' = [held EXCEPT ![t] = Nothing]
  /\ scan' = [scan EXCEPT ![t] = Tail(@)]
  /\ Judge(Head(scan[t]), held[t][1])
  /\ UNCHANGED <<disk, dirty, todo, memory, number, fresh, fails, kills>>

EndRebuild(t) ==
  /\ scan[t] = << >>
  /\ dirty' = FALSE
  /\ scan' = [scan EXCEPT ![t] = NoScan]
  /\ UNCHANGED <<disk, index, todo, held, memory, number, fresh, fails, kills, unsure>>

EnterRows(t) ==
  /\ Indexing(t) /\ scan[t] = NoScan /\ ~dirty
  /\ index' = Indexed(index, Head(todo[t]).file, Head(todo[t]).data)
  /\ Step(t) /\ Judge(Head(todo[t]).file, Head(todo[t]).data)
  /\ UNCHANGED <<disk, dirty, scan, held, memory, number, fresh, fails, kills>>

(* A faulty variant: the failure leaves no mark.                           *)
FailUnmarked(t) ==
  /\ Indexing(t) /\ fails < MaxFails
  /\ fails' = fails + 1
  /\ scan' = [scan EXCEPT ![t] = NoScan] /\ held' = [held EXCEPT ![t] = Nothing]
  /\ Step(t)
  /\ UNCHANGED <<disk, index, dirty, memory, number, fresh, kills, unsure>>

(* The database is locked, or its schema is newer: the operation is given  *)
(* up, in whatever state its rebuild is, and the index marked.  A rebuild  *)
(* that another thread is in takes this mark away as well when it ends.    *)
FailIndex(t) ==
  /\ Indexing(t) /\ fails < MaxFails
  /\ fails' = fails + 1
  /\ dirty' = TRUE
  /\ scan' = [scan EXCEPT ![t] = NoScan] /\ held' = [held EXCEPT ![t] = Nothing]
  /\ Step(t)
  /\ unsure' = IF Rebuilding \subseteq {t} THEN unsure
               ELSE unsure \cup (IF t \in Rebuilding THEN DOMAIN disk
                                ELSE {Head(todo[t]).file})
  /\ UNCHANGED <<disk, index, memory, number, fresh, kills>>

(* The kernel is killed; another resumes from a checkpoint, its latest or  *)
(* one its user names, and may write the numbers after it again.           *)
Pending ==
  {f \in DOMAIN disk : \E t \in Threads : \E k \in DOMAIN todo[t] :
     todo[t][k].do = "index" /\ todo[t][k].file = f}

KillAndResume ==
  /\ kills < MaxKills
  /\ \E n \in 0 .. MaxSeq :
       /\ n = 0 \/ <<"checkpoint", n>> \in DOMAIN disk
       /\ number' = n
       /\ memory' = IF n = 0 THEN << >> ELSE disk[<<"checkpoint", n>>].writes
  /\ kills' = kills + 1
  /\ todo' = [t \in Threads |-> << >>]
  /\ scan' = [t \in Threads |-> NoScan] /\ held' = [t \in Threads |-> Nothing]
  /\ unsure' = unsure \cup Pending \cup (IF Rebuilding = {} \/ dirty THEN {} ELSE DOMAIN disk)
  /\ UNCHANGED <<disk, index, dirty, fresh, fails>>

Next ==
  \/ \E t \in Threads :
       \/ Publish(t) \/ FileReceipt(t) \/ WriteFile(t)
       \/ BeginRebuild(t) \/ ReadNext(t) \/ InsertNext(t) \/ EndRebuild(t)
       \/ EnterRows(t) \/ FailIndex(t)
  \/ KillAndResume

Spec == Init /\ [][Next]_vars

------------------------------------------------------------------------------
Quiet == \A t \in Threads : Idle(t) /\ scan[t] = NoScan

(* When no operation is under way and no mark stands, the index says what  *)
(* the files say: each file has its rows and no older ones, and, but for   *)
(* the files excused, there is no row of a file's former contents.         *)
(* Excused until it is indexed again is a file whose writer was killed     *)
(* before it indexed it, or whose failure another thread's rebuild forgot. *)
IndexFollowsFiles ==
  Quiet /\ ~dirty =>
    /\ \A f \in DOMAIN disk \ unsure :
         /\ \A k \in Keys(f, disk[f]) : \E r \in index : r.key = k
         /\ \A r \in index : r.key = f => r.data = disk[f]
    /\ unsure = {} =>
         \A r \in index : r.key \in UNION {Keys(f, disk[f]) : f \in DOMAIN disk}
=============================================================================
