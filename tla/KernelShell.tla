----------------------------- MODULE KernelShell -----------------------------
(***************************************************************************)
(* FixedShell (runtime/kernel/shell.py), what it keeps while TaskRuntime   *)
(* runs tasks in it: the long-term memory graph with its write log         *)
(* (runtime/kernel/memory_graph.py), the scope that decides whether that   *)
(* memory survives into the next task, and the numbers of the runtime      *)
(* events, which the branch shells share and which a resumed attempt takes *)
(* up from the files it finds.                                             *)
(*                                                                         *)
(* A process runs tasks one after another in one shell.  A task without    *)
(* scored transfer starts with an empty memory, or with the memory of the  *)
(* previous message of its chat; the tasks of an episode pass theirs on.   *)
(* A killed process is followed by one that resumes the last checkpoint in *)
(* a shell of its own.                                                     *)
(*                                                                         *)
(* A memory node is the task it comes from and a name, as its id hashes    *)
(* them; a write is its place in its graph's log.  What a memory says, the *)
(* short-term graph, the message board and the tools are left out.  The    *)
(* runtime's memory policy is outside src/: it may choose any write that   *)
(* names the candidate or a node it was shown, and node contents may       *)
(* contradict each other in any way.                                       *)
(***************************************************************************)
EXTENDS Integers, Sequences, FiniteSetsExt

CONSTANTS
  Lone,       \* tasks that score no transfer
  Episode,    \* the tasks of one transfer episode
  Names,
  Branches,
  MaxRuns,    \* bound: the runs and resumes
  MaxMoves    \* bound: writes, steps, forks and checkpoints

NoTask == "none"
Ids == [task : Lone \cup Episode \cup {"earlier"}, name : Names]
NoId == [task |-> NoTask, name |-> NoTask]

KernelShellAssumption ==
  /\ Lone \cap Episode = {}
  /\ {NoTask, "earlier"} \cap (Lone \cup Episode) = {}
  /\ MaxRuns \in Nat /\ MaxMoves \in Nat

VARIABLES
  shell,   \* the process's shell: its graph, scope, task and event counter
  stage,   \* "idle", "ingest", "loop", "work", "forked" or "down"
  current, \* the run: where its events start, resumed, seeded, the last it saw
  forks,   \* the graphs of the branch shells
  events,  \* events/*.json, by number and name
  saved,   \* the latest checkpoint, of NoTask if there is none
  mine,    \* history: the events this run recorded
  gone,    \* history: the recorders of events whose file was overwritten
  traced,  \* history: how the last run ended and the trace it returned
  moves, starts

shellVars == <<shell, stage, current, forks, events, saved, mine, gone, traced, moves, starts>>

-----------------------------------------------------------------------------
(* LongTermGraph.  A node is live or tombstoned.                           *)
Empty == [live |-> {}, dead |-> {}, edges |-> {}, log |-> <<>>,
          latest |-> [i \in Ids |-> 0]]

Known(g) == g.live \cup g.dead

(* A faulty variant of Recorded: a conflict counts as the latest write.    *)
RecordedAlways(g, act, target, prior) ==
  [g EXCEPT !.log = Append(@, [action |-> act, target |-> target, prior |-> prior]),
            !.latest[target] = Len(g.log) + 1]

Recorded(g, act, target, prior) ==
  [g EXCEPT !.log = Append(@, [action |-> act, target |-> target, prior |-> prior]),
            !.latest[target] = IF act = "conflict" THEN @ ELSE Len(g.log) + 1]

(* An edge that the last write introduces.                                 *)
Joined(g, from, to) ==
  [g EXCEPT !.edges = @ \cup {[from |-> from, to |-> to, by |-> Len(g.log), dead |-> FALSE]}]

(* A write whose node contradicts a live one records the conflict, too.    *)
Disputed(g, node, rival) ==
  IF rival \notin g.live THEN g
  ELSE Joined(Recorded(g, "conflict", node, Len(g.log)), node, rival)

Tombstoned(g, target) ==
  LET r == Recorded(g, "tombstone", target, g.latest[target]) IN
  [r EXCEPT !.live = @ \ {target}, !.dead = @ \cup {target},
            !.edges = {[e EXCEPT !.dead = @ \/ target \in {e.from, e.to}] : e \in @}]

(* The merged node stays behind as a tombstone, unless it was there.       *)
Merged(g, node, target, rival) ==
  LET r == Recorded(g, "merge", target, g.latest[target])
      kept == [r EXCEPT !.dead = IF node \in Known(g) THEN @ ELSE @ \cup {node}]
  IN  Disputed(Joined(kept, target, node), node, rival)

Refined(g, target, rival) ==
  LET r == Recorded(g, "refine", target, g.latest[target])
  IN  Disputed(Joined(r, target, target), target, rival)

Stored(g, node, rival) ==
  LET r == Recorded(g, "upsert", node, g.latest[node])
  IN  Disputed([r EXCEPT !.live = @ \cup {node}, !.dead = @ \ {node}], node, rival)

(* _promote_memory_candidate: what the policy may make of a candidate.     *)
Promotions(g, t) ==
  UNION {{Stored(g, node, rival) : rival \in g.live \cup {NoId}}
           \cup {Merged(g, node, target, rival) :
                   target \in Known(g), rival \in g.live \cup {NoId}}
           \cup {Refined(g, target, rival) :
                   target \in Known(g), rival \in g.live \cup {NoId}}
           \cup {Tombstoned(g, target) : target \in Known(g)}
         : node \in {i \in Ids : i.task = t}}

-----------------------------------------------------------------------------
LatestOnDisk == Max({e.n : e \in events} \cup {0})

(* The events of a resumed run before its checkpoint is restored.          *)
Part == IF current.resumed /\ stage = "ingest" THEN "head" ELSE "body"

(* append_runtime_event, under the lock that all shells of a run share:    *)
(* the next number, and the file of that number and name replaced.         *)
Filed(last, old, event, t, part) ==
  LET e == [n |-> last + 1, event |-> event, task |-> t, part |-> part,
            run |-> IF event = "run_started" THEN starts + 1 ELSE starts]
      over == {f \in old : f.n = e.n /\ f.event = e.event}
  IN  /\ events' = (events \ over) \cup {e}
      /\ gone' = gone \cup over
      /\ mine' = (IF event = "run_started" THEN {} ELSE mine) \cup {e}

Records(event) == Filed(shell.next, events, event, shell.task, Part)

Move == moves < MaxMoves /\ moves' = moves + 1 /\ UNCHANGED starts
Fresh == starts < MaxRuns /\ starts' = starts + 1 /\ UNCHANGED moves

ScopeOf(t) == IF t \in Episode THEN [kind |-> "episode", id |-> "episode"]
              ELSE [kind |-> "task", id |-> t]

(* A faulty variant of Keeps: a scope of the same kind keeps its memory.   *)
KeepsKind(t) == shell.scope.kind = ScopeOf(t).kind
Keeps(t) == t \in Episode /\ shell.scope = ScopeOf(t)

(* The long-term memory that the previous message of the chat exported.    *)
Carried == Stored(Empty, [task |-> "earlier", name |-> CHOOSE n \in Names : TRUE], NoId)

ShellInit ==
  /\ shell = [graph |-> Empty, scope |-> [kind |-> NoTask, id |-> NoTask],
              task |-> NoTask, next |-> 0]
  /\ stage = "idle"
  /\ current = [start |-> 0, resumed |-> FALSE, seeded |-> FALSE, seen |-> 0]
  /\ forks = <<>>
  /\ events = {} /\ mine = {} /\ gone = {}
  /\ saved = [graph |-> Empty, scope |-> shell.scope, task |-> NoTask, seen |-> 0]
  /\ traced = [how |-> NoTask, rows |-> {}]
  /\ moves = 0 /\ starts = 0

(* reset_for_task and _apply_session_seed; the number of the last event on *)
(* disk is where the run's own start; "run_started" is recorded.           *)
Start(t) ==
  /\ stage = "idle"
  /\ Fresh
  /\ \E seeded \in {FALSE} \cup (IF shell.task = NoTask /\ t \in Lone THEN {TRUE} ELSE {}) :
       /\ shell' = [graph |-> IF seeded THEN Carried
                              ELSE IF Keeps(t) THEN shell.graph ELSE Empty,
                    scope |-> ScopeOf(t), task |-> t, next |-> shell.next + 1]
       /\ current' = [start |-> Max({shell.next, LatestOnDisk}), resumed |-> FALSE,
                      seeded |-> seeded, seen |-> shell.next + 1]
  /\ Filed(shell.next, events, "run_started", t, "body")
  /\ stage' = "ingest"
  /\ UNCHANGED <<forks, saved, traced>>

(* The same in the new shell of a resumed attempt, whose counter is zero:  *)
(* its cursor is restored only behind the checkpoint.                      *)
Resume ==
  /\ stage = "down" /\ saved.task # NoTask
  /\ Fresh
  /\ shell' = [graph |-> Empty, scope |-> ScopeOf(saved.task), task |-> saved.task,
               next |-> 1]
  /\ current' = [start |-> LatestOnDisk, resumed |-> TRUE, seeded |-> FALSE, seen |-> 1]
  /\ Filed(0, events, "run_started", saved.task, "head")
  /\ stage' = "ingest"
  /\ UNCHANGED <<forks, saved, traced>>

(* _ingest_context promotes context items, and a step what it finds out.   *)
Promote ==
  /\ stage \in {"ingest", "work"}
  /\ Move
  /\ \E g \in Promotions(shell.graph, shell.task) :
       shell' = [shell EXCEPT !.graph = g, !.next = @ + 1]
  /\ current' = [current EXCEPT !.seen = Max({@, shell.next + 1})]
  /\ Records("memory_promoted")
  /\ UNCHANGED <<stage, forks, saved, traced>>

EnterLoop ==
  /\ stage = "ingest" /\ ~current.resumed
  /\ stage' = "loop"
  /\ UNCHANGED <<shell, current, forks, events, saved, mine, gone, traced, moves, starts>>

(* A faulty variant of Cursor: only the checkpoint's number counts.        *)
CursorOfCheckpoint == Max({shell.next, saved.seen})

(* restore_runtime_event_cursor.                                           *)
Cursor == Max({shell.next, saved.seen, LatestOnDisk})

(* restore_checkpoint_shell_state replaces what the ingestion made.        *)
Restore ==
  /\ stage = "ingest" /\ current.resumed
  /\ shell' = [graph |-> saved.graph, scope |-> saved.scope, task |-> saved.task,
               next |-> Cursor + 1]
  /\ current' = [current EXCEPT !.seen = Cursor + 1]
  /\ Filed(Cursor, events, "checkpoint_restored", shell.task, "body")
  /\ stage' = "loop"
  /\ UNCHANGED <<forks, saved, traced, moves, starts>>

(* validate_invariants: memory of another task, scored transfer apart.     *)
Leaked == shell.task \in Lone /\ \E i \in Known(shell.graph) : i.task # shell.task

(* _build_run_result reads the events of the task behind the start.        *)
Ends(event, how) ==
  /\ Records(event)
  /\ shell' = [shell EXCEPT !.next = @ + 1]
  /\ current' = [current EXCEPT !.seen = Max({@, shell.next + 1})]
  /\ traced' = [how |-> how,
                rows |-> {e \in events' : e.n > current.start /\ e.task = shell.task}]
  /\ stage' = "idle"
  /\ UNCHANGED <<forks, saved, moves, starts>>

Refuse == stage = "loop" /\ Leaked /\ Ends("run_failed", "invalid")

(* A faulty variant of Step: nobody looks at the memory.                   *)
StepBlindly ==
  /\ stage = "loop"
  /\ Move
  /\ Records("node_started")
  /\ shell' = [shell EXCEPT !.next = @ + 1]
  /\ current' = [current EXCEPT !.seen = Max({@, shell.next + 1})]
  /\ stage' = "work"
  /\ UNCHANGED <<forks, saved, traced>>

Step ==
  /\ stage = "loop" /\ ~Leaked
  /\ Move
  /\ Records("node_started")
  /\ shell' = [shell EXCEPT !.next = @ + 1]
  /\ current' = [current EXCEPT !.seen = Max({@, shell.next + 1})]
  /\ stage' = "work"
  /\ UNCHANGED <<forks, saved, traced>>

StepEnds ==
  /\ stage = "work"
  /\ stage' = "loop"
  /\ UNCHANGED <<shell, current, forks, events, saved, mine, gone, traced, moves, starts>>

Finish == stage = "work" /\ Ends("terminal_emitted", "done")

(* snapshot_checkpoint_shell_state, and the parent's event number.         *)
Publish ==
  /\ stage = "work"
  /\ Move
  /\ saved' = [graph |-> shell.graph, scope |-> shell.scope, task |-> shell.task,
               seen |-> current.seen]
  /\ UNCHANGED <<shell, stage, current, forks, events, mine, gone, traced>>

(* fork_branch copies the graph and shares the counter.                    *)
Fork ==
  /\ stage = "work"
  /\ Move
  /\ forks' = [b \in Branches |-> shell.graph]
  /\ stage' = "forked"
  /\ UNCHANGED <<shell, current, events, saved, mine, gone, traced>>

BranchPromotes(b) ==
  /\ stage = "forked"
  /\ Move
  /\ \E g \in Promotions(forks[b], shell.task) : forks' = [forks EXCEPT ![b] = g]
  /\ shell' = [shell EXCEPT !.next = @ + 1]
  /\ Records("memory_promoted")
  /\ UNCHANGED <<stage, current, saved, traced>>

(* What a branch remembers ends with its shell.                            *)
Join ==
  /\ stage = "forked"
  /\ forks' = <<>>
  /\ stage' = "work"
  /\ UNCHANGED <<shell, current, events, saved, mine, gone, traced, moves, starts>>

(* The process ends, or is killed.                                         *)
Die ==
  /\ stage # "down"
  /\ stage' = "down"
  /\ forks' = <<>>
  /\ UNCHANGED <<shell, current, events, saved, mine, gone, traced, moves, starts>>

ShellNext ==
  \/ \E t \in Lone \cup Episode : Start(t)
  \/ Resume \/ Promote \/ EnterLoop \/ Restore \/ Refuse \/ Step \/ StepEnds \/ Finish
  \/ Publish \/ Fork \/ (\E b \in Branches : BranchPromotes(b)) \/ Join \/ Die

ShellSpec == ShellInit /\ [][ShellNext]_shellVars

-----------------------------------------------------------------------------
(* The shell, its graphs and the events keep their types.                  *)
TypeOK ==
  /\ stage \in {"idle", "ingest", "loop", "work", "forked", "down"}
  /\ \A g \in {shell.graph} \cup {forks[b] : b \in DOMAIN forks} :
       /\ Known(g) \subseteq Ids /\ g.live \cap g.dead = {}
       /\ \A i \in Ids : g.latest[i] \in 0 .. Len(g.log)
  /\ shell.task \in Lone \cup Episode \cup {NoTask}
  /\ shell.next \in Nat /\ current.start \in Nat
  /\ mine \subseteq events \cup gone
  /\ moves \in 0 .. MaxMoves /\ starts \in 0 .. MaxRuns

(* The last write of a node before place i, if any.                        *)
LastWrite(g, node, i) ==
  Max({0} \cup {j \in 1 .. i - 1 : g.log[j].target = node /\ g.log[j].action # "conflict"})

(* Through resets, checkpoints, forks and restores every graph knows its   *)
(* own history: each write names the one before it on its node, the latest *)
(* write of a node is the last in the log, and an edge is tombstoned       *)
(* exactly if one of its ends was after it was made (LongTermGraph.write,  *)
(* tombstone, restore).                                                    *)
HistoryIsWhole(g) ==
  /\ \A i \in DOMAIN g.log : g.log[i].prior =
       IF g.log[i].action = "conflict" THEN i - 1 ELSE LastWrite(g, g.log[i].target, i)
  /\ \A i \in Ids : g.latest[i] = LastWrite(g, i, Len(g.log) + 1)
  /\ \A e \in g.edges :
       /\ {e.from, e.to} \subseteq Known(g)
       /\ e.dead <=> \E j \in e.by + 1 .. Len(g.log) :
            g.log[j].action = "tombstone" /\ g.log[j].target \in {e.from, e.to}

LineageIsWhole ==
  /\ HistoryIsWhole(shell.graph)
  /\ \A b \in DOMAIN forks : HistoryIsWhole(forks[b])

(* No step of a task without scored transfer sees a memory of another      *)
(* task, and only the memory of an earlier message makes the shell refuse  *)
(* such a task: a reset leaves nothing behind (reset_for_task,             *)
(* validate_invariants).                                                   *)
MemoryStaysInScope ==
  /\ stage \in {"work", "forked"} => ~Leaked
  /\ stage = "loop" /\ Leaked => current.seeded

(* The only event files ever overwritten are overwritten by what a resumed *)
(* attempt records before its cursor is restored; and each event an        *)
(* attempt records from then on, in whatever branch, is in the trace of    *)
(* its result, which holds no event of another run (append_runtime_event,  *)
(* restore_runtime_event_cursor, load_runtime_events).                     *)
EventsAreKept ==
  /\ \A f \in events : \A g \in gone : f.n = g.n /\ f.event = g.event => f.part = "head"
  /\ \A e, f \in mine : e.part = "body" /\ f.part = "body" /\ e.n = f.n => e = f
  /\ stage = "idle" /\ traced.how # NoTask =>
       /\ {e \in mine : e.part = "body"} \subseteq traced.rows
       /\ traced.rows \subseteq mine

ShellIsFaithful == LineageIsWhole /\ MemoryStaysInScope /\ EventsAreKept
=============================================================================
